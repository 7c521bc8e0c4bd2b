---- MODULE JwksCache ----
(***************************************************************************)
(* The keys of a JWT issuer, which each process keeps in one PyJWKClient:  *)
(* its threads verify tokens with it while they and others fetch the key   *)
(* set, administrators of this process or of another one edit or delete    *)
(* the issuer, and the issuer rotates its keys. Editing in this process    *)
(* drops the client, before the edit is committed; elsewhere nobody tells  *)
(* it. A key that is withdrawn verifies until the time to live is over.    *)
(***************************************************************************)
EXTENDS Integers, FiniteSets

CONSTANTS
    Thread,         \* threads of the process that verify tokens
    Url,            \* JWKS URLs
    Key,            \* signing keys, each named by its kid
    KeySet,         \* what a URL may serve
    TimeToLive,     \* JWKS_CACHE_TTL_SECONDS
    FetchTime,      \* how long a fetch of a key set may take
    MaxClock,       \* bound on the clock
    MaxEdits,       \* bound: edits of the issuer
    MaxRotations,   \* bound: rotations of its keys
    None

ASSUME JwksAssumption ==
    /\ IsFiniteSet(Thread)
    /\ KeySet \subseteq SUBSET Key \ {{}}
    /\ {TimeToLive, FetchTime, MaxClock, MaxEdits, MaxRotations} \subseteq Nat
    /\ None \notin Url \cup Key \cup KeySet \cup Nat

\* PyJWKClient objects; those nobody refers to are blank.
Client == 1 .. Cardinality(Thread) + 1

\* The issuer's record; only an active one is found.
Issuer == [url : Url, state : {"active", "archived", "deleted"}]

VARIABLES
    now,        \* the clock
    published,  \* published[u]: the keys served at u
    gone,       \* gone[u][k]: when k was last withdrawn from u
    rotations,  \* rotations so far
    issuer,     \* the issuer's record, committed
    edits,      \* transactions that edit it, begun so far
    editor,     \* the open one: what it makes of the record, and drops before it
    drops,      \* edits by this process that are to drop its client
    clients,    \* the issuer's entry of _clients, or None
    heap,       \* heap[c]: what a client was made for and has fetched
    thread      \* what each thread is doing

keyVars == <<now, published, gone, rotations, issuer, edits, editor, drops, clients,
             heap, thread>>

Blank == [url |-> None, keys |-> None, at |-> 0, drops |-> 0]

\* A thread between two requests. Of a request: the key its token names, the
\* URL it read, its client, the keys it was sent, when the fetch began or the
\* answer was given, and whether it has looked twice. Kept for the properties:
\* whether the keys stayed what they were and every fetch succeeded, and the
\* drops whose edits were over before it began.
Idle == [at |-> "idle", token |-> None, url |-> None, client |-> None, keys |-> None,
         since |-> 0, again |-> FALSE, steady |-> TRUE, drops |-> 0]

KeyInit ==
    /\ now = 0
    /\ published \in [Url -> KeySet]
    /\ gone = [u \in Url |-> [k \in Key |-> None]]
    /\ rotations = 0
    /\ issuer \in [url : Url, state : {"active"}]
    /\ edits = 0 /\ editor = None /\ drops = 0
    /\ clients = None /\ heap = [c \in Client |-> Blank]
    /\ thread = [t \in Thread |-> Idle]

----------------------------------------------------------------------------
(* Helpers *)

At(t) == thread[t].at

Fetching(t) == At(t) \in {"fetch", "put"}

KeepClients == UNCHANGED <<drops, clients, heap>>
KeepIssuer == UNCHANGED <<now, published, gone, rotations, issuer, edits, editor>>

\* Objects that neither _clients nor a thread refers to are gone.
Collect(h, entry, them) ==
    [c \in Client |->
        IF c = entry \/ \E t \in Thread : them[t].client = c THEN h[c] ELSE Blank]

----------------------------------------------------------------------------
(* A request with a token of the issuer *)

\* Its snapshot: where the issuer publishes its keys.
ReadIssuer(t) ==
    /\ At(t) = "idle" /\ issuer.state = "active"
    /\ \E k \in Key :
        thread' = [thread EXCEPT ![t] =
            [Idle EXCEPT !.at = "client", !.token = k, !.url = issuer.url,
                         !.drops = IF editor = None THEN drops ELSE editor.drops]]
    /\ KeepClients /\ KeepIssuer

\* No issuer is found: a 401.
Unknown(t) ==
    /\ At(t) = "idle" /\ issuer.state # "active"
    /\ thread' = [thread EXCEPT ![t].at = "unknown"]
    /\ KeepClients /\ KeepIssuer

\* Faulty: whatever client the issuer has.
FitsAny(t) == clients # None

\* The entry was made for the URL that the request read.
Fits(t) == clients # None /\ heap[clients].url = thread[t].url

\* get_client: the issuer's entry, or a new one in its place.
GetClient(t) ==
    /\ At(t) = "client"
    /\ LET free == CHOOSE c \in Client : c # clients /\ \A s \in Thread : thread[s].client # c
           c == IF Fits(t) THEN clients ELSE free
           them == [thread EXCEPT ![t].at = "keys", ![t].client = c]
           made == [Blank EXCEPT !.url = thread[t].url, !.drops = drops]
       IN  /\ clients' = c
           /\ thread' = them
           /\ heap' = Collect(IF Fits(t) THEN heap ELSE [heap EXCEPT ![c] = made], c, them)
    /\ UNCHANGED drops
    /\ KeepIssuer

\* Faulty: fetched keys never expire.
UsableForever(c) == c.keys # None

\* JWKSetCache.get.
Usable(c) == c.keys # None /\ now <= c.at + TimeToLive

Fetch(t, again) ==
    [thread EXCEPT ![t] = [@ EXCEPT !.at = "fetch", !.since = now, !.again = again,
                                    !.keys = None]]

\* The answer; the client is let go of.
Verdict(t, at) ==
    [thread EXCEPT ![t] = [@ EXCEPT !.at = at, !.since = now, !.again = FALSE,
                                    !.client = None, !.keys = None, !.drops = 0]]

\* Faulty: it is refused.
MissRefused(t) == Verdict(t, "refused")

\* A key that is not among those at hand, or just fetched, is looked for once more.
Miss(t) == Fetch(t, TRUE)

\* get_signing_key: from the keys at hand, or after another look at the URL.
ReadKeys(t) ==
    /\ At(t) = "keys"
    /\ LET c == heap[thread[t].client] IN
       thread' = CASE ~Usable(c) -> Fetch(t, FALSE)
                   [] Usable(c) /\ thread[t].token \notin c.keys -> Miss(t)
                   [] OTHER -> Verdict(t, "accepted")
    /\ heap' = Collect(heap, clients, thread')
    /\ UNCHANGED <<drops, clients>>
    /\ KeepIssuer

\* The URL is asked; its answer is still on its way.
Reply(t) ==
    /\ At(t) = "fetch"
    /\ thread' = [thread EXCEPT ![t].at = "put",
                                ![t].keys = published[heap[thread[t].client].url]]
    /\ KeepClients /\ KeepIssuer

\* A fetch that fails empties the client, and is a 401.
FetchFails(t) ==
    /\ At(t) = "fetch"
    /\ LET them == Verdict(t, "refused")
           emptied == [heap EXCEPT ![thread[t].client].keys = None,
                                   ![thread[t].client].at = 0]
       IN  /\ thread' = [them EXCEPT ![t].steady = FALSE]
           /\ heap' = Collect(emptied, clients, them)
    /\ UNCHANGED <<drops, clients>>
    /\ KeepIssuer

\* fetch_data: the answer is kept, as of when it came.
Put(t) ==
    /\ At(t) = "put"
    /\ LET q == thread[t] IN
        /\ thread' = CASE q.token \in q.keys -> Verdict(t, "accepted")
                       [] q.token \notin q.keys /\ ~q.again -> Miss(t)
                       [] OTHER -> Verdict(t, "refused")
        /\ heap' = Collect([heap EXCEPT ![q.client].keys = q.keys, ![q.client].at = now],
                           clients, thread')
    /\ UNCHANGED <<drops, clients>>
    /\ KeepIssuer

Answered(t) ==
    /\ At(t) \in {"accepted", "refused", "unknown"}
    /\ thread' = [thread EXCEPT ![t] = Idle]
    /\ KeepClients /\ KeepIssuer

----------------------------------------------------------------------------
(* Administrators, in this process or elsewhere, one at a time *)

\* Faulty: the client is left to its time to live.
InvalidateNever(here) == UNCHANGED <<clients, heap>>

\* invalidate: by a process of the client it has itself.
Invalidate(here) ==
    IF here THEN clients' = None /\ heap' = Collect(heap, None, thread)
    ELSE UNCHANGED <<clients, heap>>

Write(to) ==
    /\ editor = None /\ issuer.state # "deleted"
    /\ edits < MaxEdits /\ edits' = edits + 1
    /\ editor' = [to |-> to, drops |-> drops]
    /\ UNCHANGED <<now, published, gone, rotations, issuer, thread>>

\* jwks_url is among the values written, changed or not.
WriteUrl(u, here) ==
    /\ Write([issuer EXCEPT !.url = u])
    /\ Invalidate(here)
    /\ drops' = IF here THEN drops + 1 ELSE drops

\* Archived or restored: its client stays.
WriteActive ==
    /\ Write([issuer EXCEPT !.state = IF @ = "active" THEN "archived" ELSE "active"])
    /\ KeepClients

Unlink(here) ==
    /\ Write([issuer EXCEPT !.state = "deleted"])
    /\ Invalidate(here)
    /\ drops' = IF here THEN drops + 1 ELSE drops

\* Committed or rolled back.
EndEdit ==
    /\ editor # None
    /\ editor' = None
    /\ issuer' \in {issuer, editor.to}
    /\ UNCHANGED <<now, published, gone, rotations, edits, thread>>
    /\ KeepClients

----------------------------------------------------------------------------
(* The issuer, and time *)

Rotate(u) ==
    /\ rotations < MaxRotations /\ rotations' = rotations + 1
    /\ \E keys \in KeySet \ {published[u]} :
        /\ published' = [published EXCEPT ![u] = keys]
        /\ gone' = [gone EXCEPT ![u] =
                      [k \in Key |-> IF k \in published[u] \ keys THEN now ELSE @[k]]]
    /\ thread' = [t \in Thread |->
          IF At(t) = "idle" THEN Idle ELSE [thread[t] EXCEPT !.steady = FALSE]]
    /\ UNCHANGED <<now, issuer, edits, editor>>
    /\ KeepClients

\* A fetch is answered or fails in time.
Tick ==
    /\ now < MaxClock
    /\ \A t \in Thread : Fetching(t) => now - thread[t].since < FetchTime
    /\ now' = now + 1
    /\ UNCHANGED <<published, gone, rotations, issuer, edits, editor, thread>>
    /\ KeepClients

KeyNext ==
    \/ \E t \in Thread :
        \/ ReadIssuer(t) \/ Unknown(t) \/ GetClient(t) \/ ReadKeys(t) \/ Reply(t)
        \/ FetchFails(t) \/ Put(t) \/ Answered(t)
    \/ \E here \in BOOLEAN : Unlink(here) \/ \E u \in Url : WriteUrl(u, here)
    \/ WriteActive \/ EndEdit
    \/ \E u \in Url : Rotate(u)
    \/ Tick

KeySpec == KeyInit /\ [][KeyNext]_keyVars

----------------------------------------------------------------------------
(* Properties *)

\* Everything has its type, and a thread's client is of the URL it read.
KeyTypeOK ==
    /\ now \in 0 .. MaxClock
    /\ rotations \in 0 .. MaxRotations /\ edits \in 0 .. MaxEdits /\ drops \in 0 .. MaxEdits
    /\ published \in [Url -> KeySet]
    /\ gone \in [Url -> [Key -> 0 .. MaxClock \cup {None}]]
    /\ issuer \in Issuer
    /\ editor \in [to : Issuer, drops : 0 .. MaxEdits] \cup {None}
    /\ clients \in Client \cup {None}
    /\ heap \in [Client -> [url : Url \cup {None}, keys : KeySet \cup {None},
                            at : 0 .. MaxClock, drops : 0 .. MaxEdits]]
    /\ thread \in [Thread ->
         [at : {"idle", "client", "keys", "fetch", "put", "accepted", "refused",
                "unknown"},
          token : Key \cup {None}, url : Url \cup {None}, client : Client \cup {None},
          keys : KeySet \cup {None}, since : 0 .. MaxClock, again : BOOLEAN,
          steady : BOOLEAN, drops : 0 .. MaxEdits]]
    /\ \A t \in Thread : thread[t].client # None => heap[thread[t].client].url = thread[t].url

\* A token is accepted by a key that is served at the URL of the issuer the
\* request read, or was withdrawn there no longer ago than the time to live and
\* one fetch: neither another URL's keys, fetched before an edit or by a slower
\* thread, nor a client shared by threads that fetch at the same time.
AcceptedByRecentKey ==
    \A t \in Thread : At(t) = "accepted" =>
        LET withdrawn == gone[thread[t].url][thread[t].token] IN
        \/ thread[t].token \in published[thread[t].url]
        \/ withdrawn # None /\ thread[t].since <= withdrawn + TimeToLive + FetchTime

\* No token of an active issuer whose key was served all the time is refused
\* unless a fetch failed: the cached keys never hide a new one.
ServedKeyIsFound ==
    \A t \in Thread : At(t) = "refused" /\ thread[t].steady =>
        thread[t].token \notin published[thread[t].url]

\* Once this process has committed an edit of the issuer's URL or its deletion,
\* no request that begins later uses a client made before the edit, though a
\* request that began earlier may have put a client of the old URL in its place.
EditDropsKeys ==
    \A t \in Thread : At(t) \in {"keys", "fetch", "put"} =>
        heap[thread[t].client].drops >= thread[t].drops

====
