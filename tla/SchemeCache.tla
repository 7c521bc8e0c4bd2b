---- MODULE SchemeCache ----
(***************************************************************************)
(* The list of active authentication schemes, which each process of Odoo   *)
(* keeps in the registry's ormcache: readers are the threads of one        *)
(* process, an administrator's transaction runs in it or elsewhere. A      *)
(* write clears the cache of its own process when it is made, before its   *)
(* commit; other processes hear of it after, through a sequence in the     *)
(* database that every request looks at when it arrives. What is read for  *)
(* a request, the sequence included, may be the replica's, which may lag.  *)
(***************************************************************************)
EXTENDS Integers, FiniteSets, Sequences

CONSTANTS
    Reader,         \* threads of the process, each serving one request at a time
    Scheme,         \* scheme codes
    MaxWrites,      \* bound: transactions that change a scheme
    NoList

ASSUME SchemeAssumption ==
    /\ MaxWrites \in Nat
    /\ NoList \notin [list : SUBSET Scheme, beside : BOOLEAN]

VARIABLES
    active,     \* the active schemes, committed
    writes,     \* transactions begun so far
    writer,     \* the administrator's transaction, if one is open
    signalled,  \* the sequence of the registry's cache, in the database
    behind,     \* earlier lists and signals that the replica has yet to leave, in order
    seen,       \* its value that this process last saw
    cache,      \* what _get_active_schemes returned last, or NoList
    reader      \* what each thread is doing

schemeVars == <<active, writes, writer, signalled, behind, seen, cache, reader>>

NoWriter == [at |-> "none", here |-> FALSE, to |-> {}, from |-> {}]

\* A thread between two requests. Of a request: what its snapshot holds and the
\* list it was given. Kept for the properties: whether that list was read
\* beside a change, made in this process or not known to the replica yet; what
\* was committed since the request arrived; and whether it heard all signals.
Resting == [at |-> "idle", snap |-> {}, list |-> {}, beside |-> FALSE, known |-> {},
            late |-> FALSE]

SchemeInit ==
    /\ active \in SUBSET Scheme
    /\ writes = 0 /\ writer = NoWriter
    /\ signalled = 0 /\ behind = <<>> /\ seen = 0 /\ cache = NoList
    /\ reader = [t \in Reader |-> Resting]

----------------------------------------------------------------------------
(* Helpers *)

Serving(t) == reader[t].at # "idle"

\* t has a snapshot, and has not cached what it reads in it.
Reading(t) == reader[t].at \in {"lookup", "fill"}

\* This process has cleared its cache for a change that is not committed yet.
ChangingHere == writer.at = "written" /\ writer.here

\* What a reading thread is about to cache may be from before a change.
Beside(them) == [t \in Reader |->
    IF Reading(t) THEN [them[t] EXCEPT !.beside = TRUE] ELSE them[t]]

ClearCache(them) == cache' = NoList /\ reader' = Beside(them)

KeepOutside == UNCHANGED <<active, writes, writer, signalled, behind>>

\* What is committed, and what of it the replica shows.
Primary == [list |-> active, signalled |-> signalled]

Replica == IF behind = <<>> THEN Primary ELSE Head(behind)

----------------------------------------------------------------------------
(* A request *)

\* Faulty: signals are taken note of and nothing is cleared.
CheckSignalingDeaf(them, heard) == reader' = them /\ UNCHANGED cache /\ seen' = heard

\* Registry.check_signaling: what was changed elsewhere is heard of.
CheckSignaling(them, heard) ==
    /\ IF seen # heard THEN ClearCache(them) ELSE reader' = them /\ UNCHANGED cache
    /\ seen' = heard

\* A change that is committed and not signalled yet may still be missed.
ArriveForSchemes(t) ==
    /\ reader[t].at = "idle"
    /\ LET known == {active} \cup IF writer.at = "committed" THEN {writer.from} ELSE {}
       IN  \E heard \in {signalled, Replica.signalled} :
               CheckSignaling([reader EXCEPT ![t] =
                   [Resting EXCEPT !.at = "begin", !.known = known,
                                   !.late = heard # signalled]], heard)
    /\ KeepOutside

\* The first query of its transaction, on the primary or on the replica.
BeginReading(t) ==
    /\ reader[t].at = "begin"
    /\ \E list \in {active, Replica.list} :
        reader' = [reader EXCEPT ![t].at = "lookup", ![t].snap = list,
                                 ![t].beside = list # active]
    /\ UNCHANGED <<seen, cache>> /\ KeepOutside

\* _get_active_schemes: the cached list ...
Lookup(t) ==
    /\ reader[t].at = "lookup"
    /\ reader' = IF cache = NoList
                 THEN [reader EXCEPT ![t].at = "fill"]
                 ELSE [reader EXCEPT ![t].at = "told", ![t].list = cache.list,
                                     ![t].beside = cache.beside]
    /\ UNCHANGED <<seen, cache>> /\ KeepOutside

\* ... or the one its search finds in the snapshot, which is cached.
Fill(t) ==
    /\ reader[t].at = "fill"
    /\ LET beside == reader[t].beside \/ ChangingHere
           list == reader[t].snap
       IN  /\ cache' = [list |-> list, beside |-> beside]
           /\ reader' = [reader EXCEPT ![t].at = "told", ![t].list = list,
                                       ![t].beside = beside]
    /\ UNCHANGED seen /\ KeepOutside

\* Faulty: what the last request found is left for the next.
LeaveKeeping(t) ==
    /\ reader[t].at = "told"
    /\ reader' = [reader EXCEPT ![t].at = "idle"]
    /\ UNCHANGED <<seen, cache>> /\ KeepOutside

Leave(t) ==
    /\ reader[t].at = "told"
    /\ reader' = [reader EXCEPT ![t] = Resting]
    /\ UNCHANGED <<seen, cache>> /\ KeepOutside

----------------------------------------------------------------------------
(* An administrator *)

\* Faulty: the list stays cached.
ForgetNever(here) == UNCHANGED <<cache, reader>>

\* What create, write and unlink do once the record is changed.
Forget(here) == IF here THEN ClearCache(reader) ELSE UNCHANGED <<cache, reader>>

\* A scheme is activated or created, archived or deleted.
WriteScheme(s, here) ==
    /\ writer.at = "none"
    /\ writes < MaxWrites /\ writes' = writes + 1
    /\ writer' = [at |-> "written", here |-> here, from |-> active,
                  to |-> IF s \in active THEN active \ {s} ELSE active \cup {s}]
    /\ Forget(here)
    /\ UNCHANGED <<active, signalled, behind, seen>>

\* What a reading thread of this process is about to cache is from before.
CommitScheme ==
    /\ writer.at = "written"
    /\ active' = writer.to
    /\ behind' = Append(behind, Primary)
    /\ writer' = [writer EXCEPT !.at = "committed"]
    /\ LET them == IF ChangingHere THEN Beside(reader) ELSE reader IN
       reader' = [t \in Reader |->
           IF Serving(t) THEN [them[t] EXCEPT !.known = @ \cup {writer.to}] ELSE them[t]]
    /\ UNCHANGED <<writes, signalled, seen, cache>>

\* Rolled back; Registry.reset_changes clears the cache once more.
RollbackScheme ==
    /\ writer.at = "written"
    /\ writer' = NoWriter
    /\ Forget(writer.here)
    /\ UNCHANGED <<active, writes, signalled, behind, seen>>

\* Registry.signal_changes: other processes will hear of it, this one has.
Signal ==
    /\ writer.at = "committed"
    /\ writer' = NoWriter
    /\ signalled' = signalled + 1
    /\ behind' = Append(behind, Primary)
    /\ seen' = IF writer.here THEN signalled' ELSE seen
    /\ UNCHANGED <<active, writes, cache, reader>>

\* The replica applies the next commit.
Replicate ==
    /\ behind # <<>>
    /\ behind' = Tail(behind)
    /\ UNCHANGED <<active, writes, writer, signalled, seen, cache, reader>>

SchemeNext ==
    \/ \E t \in Reader :
        ArriveForSchemes(t) \/ BeginReading(t) \/ Lookup(t) \/ Fill(t) \/ Leave(t)
    \/ \E s \in Scheme, here \in BOOLEAN : WriteScheme(s, here)
    \/ CommitScheme \/ RollbackScheme \/ Signal \/ Replicate

SchemeSpec == SchemeInit /\ [][SchemeNext]_schemeVars

----------------------------------------------------------------------------
(* Properties *)

\* Everything has its type, and a request leaves nothing for the next.
SchemeTypeOK ==
    /\ active \in SUBSET Scheme
    /\ writes \in 0 .. MaxWrites
    /\ writer \in [at : {"none", "written", "committed"}, here : BOOLEAN,
                   to : SUBSET Scheme, from : SUBSET Scheme]
    /\ signalled \in Nat /\ seen \in 0 .. signalled
    /\ behind \in Seq([list : SUBSET Scheme, signalled : 0 .. signalled])
    /\ cache \in [list : SUBSET Scheme, beside : BOOLEAN] \cup {NoList}
    /\ reader \in [Reader -> [at : {"idle", "begin", "lookup", "fill", "told"},
                              snap : SUBSET Scheme, list : SUBSET Scheme,
                              beside : BOOLEAN, known : SUBSET SUBSET Scheme,
                              late : BOOLEAN]]
    /\ \A t \in Reader : reader[t].at = "idle" => reader[t] = Resting

\* A request that has heard every signal resolves its scheme from a list that was
\* committed at some moment since it arrived, or whose change was not yet signalled
\* when it did. There are two ways to a stale list, which then stays cached: a
\* thread of this process read the schemes while another one changed them or
\* cleared the cache, or a thread read them from a replica that had yet to apply
\* the change. Neither happens in a process that does one thing at a time on a
\* database without replica.
SchemesAreCurrent ==
    \A t \in Reader : reader[t].at = "told" =>
        reader[t].beside \/ reader[t].late \/ reader[t].list \in reader[t].known

====
