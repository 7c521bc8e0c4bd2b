---- MODULE MCWorker ----
(***************************************************************************)
(* A small instance of what a worker relies on before and after a request's *)
(* transaction matters: the caches of its process, the resolution of a      *)
(* credential, and the routes over records. They share no state, so a       *)
(* behaviour of this instance is about one of them: what holds of each      *)
(* alone holds of all of them together.                                     *)
(***************************************************************************)
EXTENDS SchemeCache, JwksCache, Authentication, MCOrmRoutes

CONSTANTS t1, t2, k1, k2

VARIABLE moving     \* the part that the behaviour is about

\* One key at a time.
MCKeySet == {{k1}, {k2}}

MCRestriction == {{}, {"oauth2"}, {"jwt", "apikey"}}

Symmetry ==
    {p @@ q @@ r : p \in Permutations(Thread), q \in Permutations(Key), r \in Permutations(Url)}

Init ==
    /\ moving \in {"schemes", "keys", "credential", "records"}
    /\ SchemeInit /\ active = Scheme
    /\ KeyInit /\ (moving # "keys" => published = [url \in Url |-> {k1}])
    /\ IF moving = "credential" THEN AuthInit
       ELSE /\ schemes = <<>> /\ allowed = {} /\ headers = [authorization |-> "none", api_key |-> "none"]
            /\ session = Public /\ asked = 0 /\ extracted = <<>> /\ verified = {}
            /\ user = Public /\ answer = "none"
    /\ IF moving = "records" THEN OrmInit
       ELSE db = <<>> /\ query = <<>> /\ grant = "none" /\ reply = NoReply

\* A behaviour with an edit and a rotation both ends within the time to live.
InBounds == now' > TimeToLive => edits' + rotations' <= 1

Next ==
    /\ \/ moving = "schemes" /\ SchemeNext /\ UNCHANGED <<keyVars, authVars, ormVars>>
       \/ moving = "keys" /\ KeyNext /\ UNCHANGED <<schemeVars, authVars, ormVars>>
       \/ moving = "credential" /\ AuthNext /\ UNCHANGED <<schemeVars, keyVars, ormVars>>
       \/ moving = "records" /\ OrmNext /\ UNCHANGED <<schemeVars, keyVars, authVars>>
    /\ UNCHANGED moving
    /\ InBounds

Spec == Init /\ [][Next]_<<schemeVars, keyVars, authVars, ormVars, moving>>

====
