---- MODULE JwksCacheProofs ----
(***************************************************************************)
(* Proofs about JwksCache, for any finite number of threads, any URLs and  *)
(* keys, and any time to live: a withdrawn key is accepted no longer than  *)
(* the time to live and one fetch, a served one is found, and an edit      *)
(* made by this process leaves no older client behind.                     *)
(***************************************************************************)
EXTENDS JwksCache, FiniteSetTheorems, TLAPS

ThreadType ==
    [at : {"idle", "client", "keys", "fetch", "put", "accepted", "refused", "unknown"},
     token : Key \cup {None}, url : Url \cup {None}, client : Client \cup {None},
     keys : KeySet \cup {None}, since : 0 .. MaxClock, again : BOOLEAN,
     steady : BOOLEAN, drops : 0 .. MaxEdits]

ClientType == [url : Url \cup {None}, keys : KeySet \cup {None},
               at : 0 .. MaxClock, drops : 0 .. MaxEdits]

\* k is served at u, or was until a moment that is at most slack before when.
Recent(u, k, when, slack) ==
    \/ k \in published[u]
    \/ gone[u][k] # None /\ when <= gone[u][k] + slack

\* What a client holds was served when it was asked for, a fetch before it came.
GoodClient(c) ==
    /\ c.at <= now
    /\ c.keys # None =>
        c.url \in Url /\ \A k \in c.keys : Recent(c.url, k, c.at, FetchTime)

\* A thread that has the record q while the clients are h: its request has read what
\* it needs, its client is of its URL and not older than the edits it knows of,
\* its fetch is in time and what it was sent was served since that began.
GoodThread(q, h) ==
    /\ q.at \notin {"idle", "unknown"} => q.token \in Key /\ q.url \in Url
    /\ (q.client # None) <=> q.at \in {"keys", "fetch", "put"}
    /\ q.client # None => h[q.client].url = q.url /\ h[q.client].drops >= q.drops
    /\ q.drops <= drops
    /\ q.since <= now
    /\ q.at \in {"fetch", "put"} => now <= q.since + FetchTime
    /\ q.at = "put" =>
        /\ q.keys \in KeySet
        /\ \A k \in q.keys : Recent(q.url, k, q.since, 0)
        /\ q.steady => q.keys = published[q.url]
    /\ q.at = "accepted" => Recent(q.url, q.token, q.since, TimeToLive + FetchTime)
    /\ q.at = "refused" /\ q.steady => q.token \notin published[q.url]

DropsCounted ==
    /\ drops <= edits
    /\ editor # None => editor.drops <= drops
    /\ clients # None => heap[clients].drops = drops

KeyInv ==
    /\ KeyTypeOK
    /\ DropsCounted
    /\ \A c \in Client : GoodClient(heap[c])
    /\ \A t \in Thread : GoodThread(thread[t], heap)

----------------------------------------------------------------------------
(* Facts about the constants and the helpers *)

\* A client is a number, and there is one more of them than threads.
LEMMA ClientsAreNumbers ==
    /\ Cardinality(Thread) \in Nat
    /\ Client \subseteq Nat /\ None \notin Client
    /\ IsFiniteSet(Client) /\ Cardinality(Client) = Cardinality(Thread) + 1
<1>1. Cardinality(Thread) \in Nat
    BY JwksAssumption, FS_CardinalityType
<1>2. IsFiniteSet(Client) /\ Cardinality(Client) = Cardinality(Thread) + 1
    BY <1>1, FS_Interval DEF Client
<1> QED
    BY <1>1, <1>2, JwksAssumption DEF Client

\* The types of the constants' bounds.
LEMMA BoundsAreNumbers ==
    /\ TimeToLive \in Nat /\ FetchTime \in Nat /\ MaxClock \in Nat /\ MaxEdits \in Nat
    /\ MaxRotations \in Nat
    /\ None \notin Url /\ None \notin Key /\ None \notin KeySet /\ None \notin Nat
    /\ \A keys \in KeySet : keys \subseteq Key
    BY JwksAssumption

\* The invariant's parts in terms of the types named here.
LEMMA KeyTyped ==
    KeyTypeOK <=>
    /\ now \in 0 .. MaxClock
    /\ rotations \in 0 .. MaxRotations /\ edits \in 0 .. MaxEdits /\ drops \in 0 .. MaxEdits
    /\ published \in [Url -> KeySet]
    /\ gone \in [Url -> [Key -> 0 .. MaxClock \cup {None}]]
    /\ issuer \in Issuer
    /\ editor \in [to : Issuer, drops : 0 .. MaxEdits] \cup {None}
    /\ clients \in Client \cup {None}
    /\ heap \in [Client -> ClientType]
    /\ thread \in [Thread -> ThreadType]
    /\ \A t \in Thread : thread[t].client # None => heap[thread[t].client].url = thread[t].url
    BY DEF KeyTypeOK, ClientType, ThreadType

\* Nobody's client is blank and good, and has the type of clients.
LEMMA BlankIsGood ==
    ASSUME now \in Nat PROVE GoodClient(Blank) /\ Blank \in ClientType
    BY BoundsAreNumbers DEF GoodClient, Blank, ClientType

\* Whatever the threads refer to, a thread without a client finds an object that
\* neither the entry nor another thread refers to.
LEMMA ThereIsAFreeClient ==
    ASSUME NEW t \in Thread, NEW them, them[t].client = None, NEW entry
    PROVE  \E c \in Client : c # entry /\ \A s \in Thread : them[s].client # c
<1> DEFINE others == {them[s].client : s \in Thread \ {t}}
           f == [s \in Thread \ {t} |-> them[s].client]
<1>1. IsFiniteSet(Thread) /\ IsFiniteSet(Thread \ {t})
      /\ Cardinality(Thread \ {t}) = Cardinality(Thread) - 1
    BY JwksAssumption, FS_RemoveElement
<1>2. f \in Surjection(Thread \ {t}, others)
    BY DEF Surjection
<1>3. \A c \in Client : c \notin others => \A s \in Thread : them[s].client # c
    BY ClientsAreNumbers
<1> HIDE DEF f, others
<1>4. IsFiniteSet(others) /\ Cardinality(others) <= Cardinality(Thread) - 1
    BY <1>1, <1>2, FS_Surjection
<1>5. Cardinality(others) \in Nat
    BY <1>4, FS_CardinalityType
<1>6. IsFiniteSet(others \cup {entry})
      /\ Cardinality(others \cup {entry}) <= Cardinality(others) + 1
    <2>1. IsFiniteSet(others)
        BY <1>4
    <2>2. /\ IsFiniteSet(others \cup {entry})
          /\ Cardinality(others \cup {entry}) =
               IF entry \in others THEN Cardinality(others) ELSE Cardinality(others) + 1
        BY <2>1, FS_AddElement
    <2> QED
        BY <1>5, <2>2
<1>7. Cardinality(others \cup {entry}) \in Nat
    BY <1>6, FS_CardinalityType
<1>8. ~(Client \subseteq others \cup {entry})
    <2>1. SUFFICES ASSUME Client \subseteq others \cup {entry} PROVE FALSE
        OBVIOUS
    <2>2. Cardinality(Client) <= Cardinality(others \cup {entry})
        BY <1>6, <2>1, FS_Subset
    <2> QED
        BY <1>4, <1>5, <1>6, <1>7, <2>2, ClientsAreNumbers
<1> QED
    BY <1>3, <1>8

----------------------------------------------------------------------------
(* The first state, and the steps of a request *)

\* Nothing is fetched and nobody asks.
LEMMA KeyInvInit == KeyInit => KeyInv
<1>1. SUFFICES ASSUME KeyInit PROVE KeyInv
    OBVIOUS
<1>2. \A t \in Thread : thread[t] = Idle
    BY <1>1 DEF KeyInit
<1>3. \A c \in Client : heap[c] = Blank
    BY <1>1 DEF KeyInit
<1>4. Idle \in ThreadType /\ Blank \in ClientType
    BY BoundsAreNumbers DEF Idle, ThreadType, Blank, ClientType
<1>5. KeyTypeOK
    <2>1. heap \in [Client -> ClientType] /\ thread \in [Thread -> ThreadType]
        BY <1>1, <1>4 DEF KeyInit
    <2>2. gone \in [Url -> [Key -> 0 .. MaxClock \cup {None}]]
        BY <1>1 DEF KeyInit
    <2>3. issuer \in Issuer
        BY <1>1 DEF KeyInit, Issuer
    <2>4. \A t \in Thread : thread[t].client = None
        BY <1>2 DEF Idle
    <2> QED
        BY <1>1, <2>1, <2>2, <2>3, <2>4, KeyTyped, BoundsAreNumbers DEF KeyInit
<1>6. \A c \in Client : GoodClient(heap[c])
    BY <1>1, <1>3, BlankIsGood DEF KeyInit
<1>7. \A t \in Thread : GoodThread(thread[t], heap)
    BY <1>1, <1>2 DEF KeyInit, GoodThread, Idle
<1>8. DropsCounted
    BY <1>1 DEF KeyInit, DropsCounted
<1> QED
    BY <1>5, <1>6, <1>7, <1>8 DEF KeyInv

\* One thread moves on to a record that is good beside the clients as they become,
\* which are good, current if the entry refers to them, and to the other threads
\* what they were.
LEMMA ThreadMoves ==
    ASSUME KeyInv, NEW t \in Thread, NEW q \in ThreadType,
           thread' = [thread EXCEPT ![t] = q], KeepIssuer, drops' = drops,
           clients' \in Client \cup {None}, heap' \in [Client -> ClientType],
           clients' # None => heap'[clients'].drops = drops,
           \A c \in Client : GoodClient(heap'[c]),
           GoodThread(q, heap'),
           \A s \in Thread \ {t} : thread[s].client # None =>
               heap'[thread[s].client].url = heap[thread[s].client].url
               /\ heap'[thread[s].client].drops = heap[thread[s].client].drops
    PROVE  KeyInv'
<1>1. thread \in [Thread -> ThreadType] /\ drops \in 0 .. MaxEdits
    BY KeyTyped DEF KeyInv
<1>2. /\ thread' \in [Thread -> ThreadType]
      /\ thread'[t] = q
      /\ \A s \in Thread \ {t} : thread'[s] = thread[s]
    BY <1>1
<1>3. \A s \in Thread : GoodThread(thread[s], heap)
    BY DEF KeyInv
<1>4. \A s \in Thread : GoodThread(thread'[s], heap')
    BY <1>2, <1>3 DEF GoodThread
<1>5. \A s \in Thread : GoodThread(thread[s], heap)'
    BY <1>4 DEF GoodThread, Recent, KeepIssuer
<1>6. \A c \in Client : GoodClient(heap[c])'
    BY DEF GoodClient, Recent, KeepIssuer
<1>7. DropsCounted'
    BY DEF KeyInv, DropsCounted, KeepIssuer
<1>8. KeyTypeOK'
    <2>1. \A s \in Thread : thread'[s].client # None =>
              heap'[thread'[s].client].url = thread'[s].url
        BY <1>4 DEF GoodThread
    <2> QED
        BY <1>2, <2>1 DEF KeyInv, KeepIssuer, KeyTypeOK, ThreadType, ClientType
<1> QED
    BY <1>5, <1>6, <1>7, <1>8 DEF KeyInv

\* The typed parts of the invariant, for a thread.
LEMMA ThreadFacts ==
    ASSUME KeyInv, NEW t \in Thread
    PROVE  /\ thread[t] \in ThreadType /\ thread \in [Thread -> ThreadType]
           /\ GoodThread(thread[t], heap)
           /\ heap \in [Client -> ClientType] /\ clients \in Client \cup {None}
           /\ \A c \in Client : GoodClient(heap[c]) /\ heap[c] \in ClientType
           /\ now \in 0 .. MaxClock /\ now \in Nat /\ drops \in 0 .. MaxEdits
           /\ issuer \in Issuer
           /\ clients # None => heap[clients].drops = drops
           /\ editor # None => editor.drops \in 0 .. MaxEdits /\ editor.drops <= drops
<1>1. KeyTypeOK
    BY DEF KeyInv
<1> QED
    BY <1>1, KeyTyped, BoundsAreNumbers DEF KeyInv, DropsCounted

\* The record of a request that has read the issuer.
Asking(k, u, d) == [Idle EXCEPT !.at = "client", !.token = k, !.url = u, !.drops = d]

\* The fields of such a record.
LEMMA AskingFields ==
    ASSUME NEW k \in Key, NEW u \in Url, NEW d \in 0 .. MaxEdits
    PROVE  /\ Asking(k, u, d) \in ThreadType
           /\ Asking(k, u, d).at = "client" /\ Asking(k, u, d).token = k
           /\ Asking(k, u, d).url = u /\ Asking(k, u, d).client = None
           /\ Asking(k, u, d).since = 0 /\ Asking(k, u, d).drops = d
<1>1. Idle \in ThreadType
    BY BoundsAreNumbers DEF Idle, ThreadType
<1>2. Asking(k, u, d) \in ThreadType
    BY <1>1 DEF Asking, ThreadType
<1> QED
    BY <1>2 DEF Asking, Idle

\* A request that has read the issuer has no client yet and owes the drops it saw.
LEMMA ReadIssuerKeeps ==
    ASSUME KeyInv, NEW t \in Thread, ReadIssuer(t)
    PROVE  KeyInv'
<1> USE ThreadFacts
<1> DEFINE d == IF editor = None THEN drops ELSE editor.drops
           q(k) == Asking(k, issuer.url, d)
<1>1. PICK k \in Key : thread' = [thread EXCEPT ![t] = q(k)]
    BY DEF ReadIssuer, Asking
<1>2. q(k) \in ThreadType /\ q(k).at = "client" /\ q(k).token = k /\ q(k).url \in Url
      /\ q(k).client = None /\ q(k).drops <= drops /\ q(k).since = 0
    <2>1. issuer.url \in Url /\ d \in 0 .. MaxEdits /\ d <= drops
        BY DEF Issuer
    <2> QED
        BY <2>1, AskingFields
<1> HIDE DEF q
<1>3. GoodThread(q(k), heap')
    BY <1>2 DEF GoodThread
<1> QED
    BY <1>1, <1>2, <1>3, ThreadMoves DEF ReadIssuer, KeepClients

\* A request that finds no issuer touches no client.
LEMMA UnknownKeeps ==
    ASSUME KeyInv, NEW t \in Thread, Unknown(t)
    PROVE  KeyInv'
<1> USE ThreadFacts
<1> DEFINE q == [thread[t] EXCEPT !.at = "unknown"]
<1>1. q \in ThreadType /\ GoodThread(q, heap')
    BY DEF Unknown, KeepClients, At, ThreadType, GoodThread
<1>2. thread' = [thread EXCEPT ![t] = q]
    BY DEF Unknown
<1> HIDE DEF q
<1> QED
    BY <1>1, <1>2, ThreadMoves DEF Unknown, KeepClients

\* A thread whose request is answered is idle again.
LEMMA AnsweredKeeps ==
    ASSUME KeyInv, NEW t \in Thread, Answered(t)
    PROVE  KeyInv'
<1> USE ThreadFacts
<1>1. Idle \in ThreadType /\ GoodThread(Idle, heap')
    BY BoundsAreNumbers DEF Idle, ThreadType, GoodThread
<1> QED
    BY <1>1, ThreadMoves DEF Answered, KeepClients

\* The keys on their way are those published now, hence recent.
LEMMA ReplyKeeps ==
    ASSUME KeyInv, NEW t \in Thread, Reply(t)
    PROVE  KeyInv'
<1> USE ThreadFacts
<1> DEFINE u == heap[thread[t].client].url
           q == [thread[t] EXCEPT !.at = "put", !.keys = published[u]]
<1>1. thread[t].at = "fetch" /\ thread[t].client # None /\ u = thread[t].url /\ u \in Url
    BY DEF Reply, At, GoodThread
<1>2. published[u] \in KeySet
    BY <1>1, KeyTyped DEF KeyInv
<1>3. q \in ThreadType
    BY <1>2 DEF ThreadType
<1>4. GoodThread(q, heap')
    BY <1>1, <1>2 DEF Reply, KeepClients, ThreadType, GoodThread, Recent
<1>5. thread' = [thread EXCEPT ![t] = q]
    BY DEF Reply
<1> HIDE DEF q
<1> QED
    BY <1>3, <1>4, <1>5, ThreadMoves DEF Reply, KeepClients

\* What the clients become when nobody but t changes what it refers to.
LEMMA HeapCollected ==
    ASSUME KeyInv, NEW t \in Thread, NEW h \in [Client -> ClientType],
           \A c \in Client : GoodClient(h[c]),
           clients' \in Client \cup {None}, clients' # None => h[clients'].drops = drops,
           \A s \in Thread \ {t} : thread'[s].client = thread[s].client,
           \A s \in Thread \ {t} : thread[s].client # None =>
               h[thread[s].client].url = heap[thread[s].client].url
               /\ h[thread[s].client].drops = heap[thread[s].client].drops,
           heap' = Collect(h, clients', thread')
    PROVE  /\ heap' \in [Client -> ClientType]
           /\ clients' # None => heap'[clients'].drops = drops
           /\ \A c \in Client : GoodClient(heap'[c])
           /\ \A s \in Thread \ {t} : thread[s].client # None =>
                heap'[thread[s].client].url = heap[thread[s].client].url
                /\ heap'[thread[s].client].drops = heap[thread[s].client].drops
           /\ thread'[t].client \in Client => heap'[thread'[t].client] = h[thread'[t].client]
<1>1. /\ heap' \in [Client -> ClientType]
      /\ \A c \in Client :
           /\ heap'[c] \in {h[c], Blank}
           /\ c = clients' \/ (\E s \in Thread : thread'[s].client = c) => heap'[c] = h[c]
    <2>1. Blank \in ClientType
        BY BlankIsGood, ThreadFacts
    <2> QED
        BY <2>1 DEF Collect
<1>2. \A s \in Thread : thread[s].client \in Client \cup {None}
    BY ThreadFacts DEF ThreadType
<1>3. GoodClient(Blank)
    BY BlankIsGood, ThreadFacts
<1>4. \A c \in Client : GoodClient(heap'[c])
    BY <1>1, <1>3
<1>5. ASSUME NEW s \in Thread \ {t}, thread[s].client # None
      PROVE  heap'[thread[s].client] = h[thread[s].client]
    BY <1>1, <1>2, <1>5
<1>6. clients' # None => heap'[clients'] = h[clients']
    BY <1>1
<1>7. thread'[t].client \in Client => heap'[thread'[t].client] = h[thread'[t].client]
    BY <1>1
<1> QED
    BY <1>1, <1>4, <1>5, <1>6, <1>7

\* The records of a request that is answered, and of one that fetches.
Judged(q, at) == [q EXCEPT !.at = at, !.since = now, !.again = FALSE, !.client = None,
                           !.keys = None, !.drops = 0]

\* The fields of an answered request: it has let go of its client.
LEMMA JudgedFields ==
    ASSUME NEW q \in ThreadType, NEW at \in {"accepted", "refused"}, now \in 0 .. MaxClock
    PROVE  /\ Judged(q, at) \in ThreadType
           /\ Judged(q, at).at = at /\ Judged(q, at).since = now
           /\ Judged(q, at).client = None /\ Judged(q, at).token = q.token
           /\ Judged(q, at).url = q.url /\ Judged(q, at).steady = q.steady
           /\ Judged(q, at).drops = 0
<1> DEFINE r(n) == [q EXCEPT !.at = at, !.since = now, !.again = FALSE, !.client = None,
                             !.keys = None, !.drops = n]
<1>1. ASSUME NEW n \in 0 .. MaxEdits
      PROVE  /\ r(n) \in ThreadType /\ r(n).at = at /\ r(n).since = now
             /\ r(n).client = None /\ r(n).token = q.token /\ r(n).url = q.url
             /\ r(n).steady = q.steady /\ r(n).drops = n
    BY DEF ThreadType
<1>2. Judged(q, at) = r(0)
    BY DEF Judged
<1>3. 0 \in 0 .. MaxEdits
    BY BoundsAreNumbers
<1> HIDE DEF r
<1> QED
    BY <1>1, <1>2, <1>3

\* A request during which something failed or changed.
LEMMA UnsteadyFields ==
    ASSUME NEW q \in ThreadType
    PROVE  LET r == [q EXCEPT !.steady = FALSE] IN
           /\ r \in ThreadType /\ ~r.steady
           /\ \A f \in {"at", "token", "url", "client", "keys", "since", "again", "drops"} :
                r[f] = q[f]
    BY DEF ThreadType

\* A request is answered by a verdict that is right: the clients become whatever
\* good ones they may.
LEMMA VerdictKeeps ==
    ASSUME KeyInv, NEW t \in Thread, NEW at \in {"accepted", "refused"},
           thread[t].at \in {"keys", "fetch", "put"},
           NEW q, q = Judged(thread[t], at) \/ (at = "refused" /\ q = [Judged(thread[t], at) EXCEPT !.steady = FALSE]),
           thread' = [thread EXCEPT ![t] = q],
           at = "accepted" =>
               Recent(thread[t].url, thread[t].token, now, TimeToLive + FetchTime),
           at = "refused" /\ q.steady => thread[t].token \notin published[thread[t].url],
           NEW h \in [Client -> ClientType], \A c \in Client : GoodClient(h[c]),
           \A c \in Client : h[c].url = heap[c].url /\ h[c].drops = heap[c].drops,
           heap' = Collect(h, clients', thread'), UNCHANGED <<drops, clients>>, KeepIssuer
    PROVE  KeyInv'
<1> USE ThreadFacts
<1>1. /\ q \in ThreadType /\ q.at = at /\ q.since = now /\ q.client = None
      /\ q.token = thread[t].token /\ q.url = thread[t].url /\ q.drops = 0
    <2> DEFINE r == Judged(thread[t], at)
    <2>1. /\ r \in ThreadType /\ r.at = at /\ r.since = now /\ r.client = None
          /\ r.token = thread[t].token /\ r.url = thread[t].url /\ r.drops = 0
        BY JudgedFields
    <2>2. q = r \/ q = [r EXCEPT !.steady = FALSE]
        OBVIOUS
    <2> HIDE DEF r
    <2> HIDE ThreadFacts
    <2> QED
        BY <2>1, <2>2, UnsteadyFields
<1>2. \A s \in Thread \ {t} : thread'[s].client = thread[s].client
    OBVIOUS
<1>3. \A s \in Thread \ {t} : thread[s].client # None => thread[s].client \in Client
    BY DEF ThreadType
<1>4. /\ heap' \in [Client -> ClientType]
      /\ clients # None => heap'[clients].drops = drops
      /\ \A c \in Client : GoodClient(heap'[c])
      /\ \A s \in Thread \ {t} : thread[s].client # None =>
           heap'[thread[s].client].url = heap[thread[s].client].url
           /\ heap'[thread[s].client].drops = heap[thread[s].client].drops
    <2>1. clients' # None => h[clients'].drops = drops
        OBVIOUS
    <2>2. \A s \in Thread \ {t} : thread[s].client # None =>
             h[thread[s].client].url = heap[thread[s].client].url
             /\ h[thread[s].client].drops = heap[thread[s].client].drops
        BY <1>3
    <2>3. clients' \in Client \cup {None}
        OBVIOUS
    <2> QED
        BY <1>2, <2>1, <2>2, <2>3, HeapCollected
<1>5. GoodThread(q, heap')
    BY <1>1 DEF GoodThread
<1> QED
    BY <1>1, <1>4, <1>5, ThreadMoves

\* A request begins a fetch by its client, beside whatever good clients.
LEMMA FetchKeeps ==
    ASSUME KeyInv, NEW t \in Thread, NEW again \in BOOLEAN,
           thread[t].at \in {"keys", "put"}, thread' = Fetch(t, again),
           NEW h \in [Client -> ClientType], \A c \in Client : GoodClient(h[c]),
           \A c \in Client : h[c].url = heap[c].url /\ h[c].drops = heap[c].drops,
           heap' = Collect(h, clients', thread'), UNCHANGED <<drops, clients>>, KeepIssuer
    PROVE  KeyInv'
<1> USE ThreadFacts
<1> DEFINE q == [thread[t] EXCEPT !.at = "fetch", !.since = now, !.again = again,
                                  !.keys = None]
<1>1. /\ q \in ThreadType /\ q.at = "fetch" /\ q.since = now
      /\ q.client = thread[t].client /\ q.token = thread[t].token /\ q.url = thread[t].url
      /\ q.drops = thread[t].drops
    BY DEF ThreadType
<1>2. thread' = [thread EXCEPT ![t] = q]
    BY DEF Fetch
<1> HIDE DEF q
<1>3. \A s \in Thread \ {t} : thread'[s].client = thread[s].client
    BY <1>2
<1>4. \A s \in Thread : thread[s].client # None => thread[s].client \in Client
    BY DEF ThreadType
<1>5. thread[t].client # None /\ thread[t].client \in Client
    BY <1>4 DEF GoodThread
<1>6. /\ heap' \in [Client -> ClientType]
      /\ clients' # None => heap'[clients'].drops = drops
      /\ \A c \in Client : GoodClient(heap'[c])
      /\ \A s \in Thread \ {t} : thread[s].client # None =>
           heap'[thread[s].client].url = heap[thread[s].client].url
           /\ heap'[thread[s].client].drops = heap[thread[s].client].drops
      /\ thread'[t].client \in Client => heap'[thread'[t].client] = h[thread'[t].client]
    <2>1. clients' # None => h[clients'].drops = drops
        OBVIOUS
    <2>2. \A s \in Thread \ {t} : thread[s].client # None =>
             h[thread[s].client].url = heap[thread[s].client].url
             /\ h[thread[s].client].drops = heap[thread[s].client].drops
        BY <1>4
    <2>3. clients' \in Client \cup {None}
        OBVIOUS
    <2> QED
        BY <1>3, <2>1, <2>2, <2>3, HeapCollected
<1>7. heap'[q.client].url = q.url /\ heap'[q.client].drops >= q.drops
    <2>1. thread'[t] = q
        BY <1>2
    <2>2. heap'[q.client] = h[q.client]
        BY <1>1, <1>5, <1>6, <2>1
    <2>3. /\ h[q.client].url = heap[q.client].url /\ h[q.client].drops = heap[q.client].drops
          /\ heap[q.client].url = q.url /\ heap[q.client].drops >= q.drops
        BY <1>1, <1>5 DEF GoodThread
    <2> QED
        BY <2>2, <2>3
<1>8. GoodThread(q, heap')
    BY <1>1, <1>5, <1>7, BoundsAreNumbers DEF GoodThread
<1> QED
    BY <1>1, <1>2, <1>6, <1>8, ThreadMoves

\* What a request keeps when it reads its client's keys: accepted ones are recent.
LEMMA ReadKeysKeeps ==
    ASSUME KeyInv, NEW t \in Thread, ReadKeys(t)
    PROVE  KeyInv'
<1> USE ThreadFacts
<1> DEFINE c == heap[thread[t].client]
<1>1. /\ thread[t].at = "keys" /\ thread[t].client \in Client
      /\ c.url = thread[t].url /\ thread[t].url \in Url /\ thread[t].token \in Key
      /\ GoodClient(c) /\ c \in ClientType
    BY DEF ReadKeys, At, GoodThread, ThreadType
<1>2. heap' = Collect(heap, clients', thread') /\ UNCHANGED <<drops, clients>> /\ KeepIssuer
    BY DEF ReadKeys
<1>3. CASE thread' = Fetch(t, FALSE)
    BY <1>1, <1>2, <1>3, FetchKeeps
<1>4. CASE thread' = Miss(t)
    BY <1>1, <1>2, <1>4, FetchKeeps DEF Miss
<1>5. CASE Usable(c) /\ thread[t].token \in c.keys /\ thread' = Verdict(t, "accepted")
    <2> DEFINE q == Judged(thread[t], "accepted")
    <2>1. thread' = [thread EXCEPT ![t] = q]
        BY <1>5 DEF Verdict, Judged
    <2>2. Recent(c.url, thread[t].token, c.at, FetchTime) /\ now <= c.at + TimeToLive
        BY <1>1, <1>5 DEF Usable, GoodClient
    <2>3. gone[c.url][thread[t].token] \in 0 .. MaxClock \cup {None}
        BY <1>1 DEF KeyInv, KeyTypeOK
    <2>4. Recent(thread[t].url, thread[t].token, now, TimeToLive + FetchTime)
        BY <1>1, <2>2, <2>3, BoundsAreNumbers DEF Recent, ClientType
    <2> HIDE DEF q
    <2>5. q = Judged(thread[t], "accepted")
        BY DEF q
    <2> HIDE DEF c
    <2> QED
        BY <1>1, <1>2, <2>1, <2>4, <2>5, VerdictKeeps
<1> QED
    BY <1>3, <1>4, <1>5 DEF ReadKeys

\* A client that is given keys, or none, at a time: it stays who it was.
LEMMA ClientGiven ==
    ASSUME KeyInv, NEW c \in Client, NEW keys \in KeySet \cup {None}, NEW at \in 0 .. MaxClock,
           at <= now,
           keys # None => heap[c].url \in Url
                          /\ \A k \in keys : Recent(heap[c].url, k, at, FetchTime),
           NEW h, h = [heap EXCEPT ![c].keys = keys, ![c].at = at]
    PROVE  /\ h \in [Client -> ClientType]
           /\ \A d \in Client : GoodClient(h[d])
           /\ \A d \in Client : h[d].url = heap[d].url /\ h[d].drops = heap[d].drops
<1> DEFINE r == [heap[c] EXCEPT !.keys = keys, !.at = at]
<1>1. heap \in [Client -> ClientType] /\ \A d \in Client : GoodClient(heap[d])
    BY KeyTyped DEF KeyInv
<1>2. r \in ClientType /\ r.keys = keys /\ r.at = at /\ r.url = heap[c].url
      /\ r.drops = heap[c].drops
    BY <1>1 DEF ClientType
<1>3. h = [heap EXCEPT ![c] = r]
    BY <1>1
<1> HIDE DEF r
<1>4. GoodClient(r)
    BY <1>2 DEF GoodClient
<1> QED
    BY <1>1, <1>2, <1>3, <1>4

\* A failed fetch empties a client that stays good, and the request is not steady.
LEMMA FetchFailsKeeps ==
    ASSUME KeyInv, NEW t \in Thread, FetchFails(t)
    PROVE  KeyInv'
<1> USE ThreadFacts
<1> DEFINE h == [heap EXCEPT ![thread[t].client].keys = None, ![thread[t].client].at = 0]
           j == Judged(thread[t], "refused")
           q == [j EXCEPT !.steady = FALSE]
<1>1. thread[t].at = "fetch" /\ thread[t].client \in Client
    BY DEF FetchFails, At, GoodThread, ThreadType
<1>2. /\ h \in [Client -> ClientType] /\ \A c \in Client : GoodClient(h[c])
      /\ \A c \in Client : h[c].url = heap[c].url /\ h[c].drops = heap[c].drops
    <2>1. 0 \in 0 .. MaxClock /\ 0 <= now
        BY BoundsAreNumbers
    <2>2. h = [heap EXCEPT ![thread[t].client].keys = None, ![thread[t].client].at = 0]
        OBVIOUS
    <2> HIDE DEF h
    <2> QED
        BY <1>1, <2>1, <2>2, ClientGiven
<1>3. Verdict(t, "refused") = [thread EXCEPT ![t] = j]
    BY DEF Verdict, Judged
<1>4. j \in ThreadType
    BY JudgedFields
<1> HIDE DEF j
<1>5. thread' = [thread EXCEPT ![t] = q]
    BY <1>3, <1>4 DEF FetchFails
<1>6. \A s \in Thread : thread'[s].client = Verdict(t, "refused")[s].client
    BY <1>3, <1>4, <1>5 DEF ThreadType
<1>7. heap' = Collect(h, clients', thread')
    BY <1>6 DEF FetchFails, Collect
<1>8. UNCHANGED <<drops, clients>> /\ KeepIssuer
    BY DEF FetchFails
<1>9. ~q.steady
    BY <1>4 DEF ThreadType
<1>10. q = [Judged(thread[t], "refused") EXCEPT !.steady = FALSE]
    BY DEF j
<1> HIDE DEF q, h
<1> QED
    BY <1>1, <1>2, <1>5, <1>7, <1>8, <1>9, <1>10, VerdictKeeps

\* The keys that have come are recent as of the fetch's beginning, and so are the
\* client's as of now; a refusal follows only after a second look.
LEMMA PutKeeps ==
    ASSUME KeyInv, NEW t \in Thread, Put(t)
    PROVE  KeyInv'
<1> USE ThreadFacts
<1> DEFINE o == thread[t]
           h == [heap EXCEPT ![o.client].keys = o.keys, ![o.client].at = now]
<1>1. /\ o.at = "put" /\ o.client \in Client /\ o.keys \in KeySet
      /\ heap[o.client].url = o.url /\ o.url \in Url /\ o.token \in Key
      /\ \A k \in o.keys : Recent(o.url, k, o.since, 0)
      /\ o.since <= now /\ now <= o.since + FetchTime
      /\ o.steady => o.keys = published[o.url]
    BY DEF Put, At, GoodThread, ThreadType
<1>2. \A k \in o.keys : Recent(o.url, k, now, FetchTime)
    <2>1. ASSUME NEW k \in o.keys PROVE Recent(o.url, k, now, FetchTime)
        <3>1. k \in Key
            BY <1>1, BoundsAreNumbers
        <3>2. gone[o.url][k] \in 0 .. MaxClock \cup {None}
            BY <1>1, <3>1 DEF KeyInv, KeyTypeOK
        <3>3. Recent(o.url, k, o.since, 0) /\ o.since \in 0 .. MaxClock
            BY <1>1, <2>1 DEF ThreadType
        <3> QED
            BY <1>1, <3>2, <3>3, BoundsAreNumbers DEF Recent
    <2> QED
        BY <2>1
<1>3. /\ h \in [Client -> ClientType] /\ \A c \in Client : GoodClient(h[c])
      /\ \A c \in Client : h[c].url = heap[c].url /\ h[c].drops = heap[c].drops
    <2>1. now <= now /\ o.keys # None /\ now \in 0 .. MaxClock
        BY <1>1, BoundsAreNumbers
    <2>2. heap[o.client].url \in Url
          /\ \A k \in o.keys : Recent(heap[o.client].url, k, now, FetchTime)
        BY <1>1, <1>2
    <2>3. h = [heap EXCEPT ![o.client].keys = o.keys, ![o.client].at = now]
        OBVIOUS
    <2> HIDE DEF h, o
    <2> QED
        BY <1>1, <2>1, <2>2, <2>3, ClientGiven
<1>4. heap' = Collect(h, clients', thread') /\ UNCHANGED <<drops, clients>> /\ KeepIssuer
    BY DEF Put
<1>5. CASE o.token \in o.keys /\ thread' = Verdict(t, "accepted")
    <2>1. thread' = [thread EXCEPT ![t] = Judged(thread[t], "accepted")]
        BY <1>5 DEF Verdict, Judged
    <2>2. gone[o.url][o.token] \in 0 .. MaxClock \cup {None}
        BY <1>1 DEF KeyInv, KeyTypeOK
    <2>3. Recent(o.url, o.token, now, TimeToLive + FetchTime)
        BY <1>2, <1>5, <2>2, BoundsAreNumbers DEF Recent
    <2> HIDE DEF h
    <2> QED
        BY <1>1, <1>3, <1>4, <2>1, <2>3, VerdictKeeps
<1>6. CASE thread' = Miss(t)
    <2> HIDE DEF h
    <2> QED
        BY <1>1, <1>3, <1>4, <1>6, FetchKeeps DEF Miss
<1>7. CASE o.token \notin o.keys /\ thread' = Verdict(t, "refused")
    <2>1. thread' = [thread EXCEPT ![t] = Judged(thread[t], "refused")]
        BY <1>7 DEF Verdict, Judged
    <2>2. Judged(thread[t], "refused").steady => o.token \notin published[o.url]
        BY <1>1, <1>7, JudgedFields
    <2> HIDE DEF h
    <2> QED
        BY <1>1, <1>3, <1>4, <2>1, <2>2, VerdictKeeps
<1> QED
    BY <1>5, <1>6, <1>7 DEF Put

\* A request takes the entry that fits its URL, or a new client of that URL that
\* counts every drop there was.
LEMMA GetClientKeeps ==
    ASSUME KeyInv, NEW t \in Thread, GetClient(t)
    PROVE  KeyInv'
<1> USE ThreadFacts
<1> DEFINE free == CHOOSE c \in Client : c # clients /\ \A s \in Thread : thread[s].client # c
           c == IF Fits(t) THEN clients ELSE free
           made == [Blank EXCEPT !.url = thread[t].url, !.drops = drops]
           h == IF Fits(t) THEN heap ELSE [heap EXCEPT ![c] = made]
           q == [thread[t] EXCEPT !.at = "keys", !.client = c]
<1>1. thread[t].at = "client" /\ thread[t].client = None /\ thread[t].url \in Url
      /\ thread[t].token \in Key /\ thread[t].drops <= drops
    BY DEF GetClient, At, GoodThread, ThreadType
<1>2. ~Fits(t) => c \in Client /\ c # clients /\ \A s \in Thread : thread[s].client # c
    <2>1. \E x \in Client : x # clients /\ \A s \in Thread : thread[s].client # x
        BY <1>1, ThereIsAFreeClient
    <2> QED
        BY <2>1
<1>3. c \in Client
    BY <1>2 DEF Fits
<1>4. /\ made \in ClientType /\ made.url = thread[t].url /\ made.drops = drops
      /\ GoodClient(made)
    <2>1. Blank \in ClientType
        BY BlankIsGood
    <2>2. made \in ClientType /\ made.url = thread[t].url /\ made.drops = drops
        BY <1>1, <2>1 DEF ClientType
    <2>3. made.keys = None /\ made.at = 0
        BY DEF Blank
    <2> HIDE DEF made
    <2> QED
        BY <2>2, <2>3 DEF GoodClient
<1>5. clients' = c /\ thread' = [thread EXCEPT ![t] = q] /\ heap' = Collect(h, clients', thread')
      /\ drops' = drops /\ KeepIssuer
    <2> DEFINE them == [thread EXCEPT ![t].at = "keys", ![t].client = c]
    <2>1. clients' = c /\ thread' = them /\ heap' = Collect(h, c, them) /\ drops' = drops
          /\ KeepIssuer
        BY DEF GetClient
    <2> HIDE DEF c, h
    <2>2. them = [thread EXCEPT ![t] = q]
        OBVIOUS
    <2> QED
        BY <2>1, <2>2
<1> HIDE DEF made
<1>6. /\ h \in [Client -> ClientType] /\ \A d \in Client : GoodClient(h[d])
      /\ h[c].url = thread[t].url /\ h[c].drops = drops
    BY <1>3, <1>4 DEF Fits
<1>7. \A s \in Thread \ {t} : thread[s].client # None =>
           thread[s].client \in Client /\ h[thread[s].client] = heap[thread[s].client]
    <2> SUFFICES ASSUME NEW s \in Thread \ {t}, thread[s].client # None
                 PROVE  thread[s].client \in Client
                        /\ h[thread[s].client] = heap[thread[s].client]
        OBVIOUS
    <2>1. thread[s].client \in Client
        BY DEF ThreadType
    <2> HIDE DEF c
    <2>2. ~Fits(t) => thread[s].client # c
        BY <1>2
    <2> QED
        BY <1>3, <2>1, <2>2
<1> HIDE DEF free, c
<1>8. q \in ThreadType /\ q.at = "keys" /\ q.client = c /\ q.token = thread[t].token
      /\ q.url = thread[t].url /\ q.since = thread[t].since /\ q.drops = thread[t].drops
    BY <1>3 DEF ThreadType
<1> HIDE DEF h, q
<1>9. thread'[t] = q /\ \A s \in Thread \ {t} : thread'[s].client = thread[s].client
    BY <1>5
<1>10. /\ heap' \in [Client -> ClientType]
       /\ clients' # None => heap'[clients'].drops = drops
       /\ \A d \in Client : GoodClient(heap'[d])
       /\ \A s \in Thread \ {t} : thread[s].client # None =>
            heap'[thread[s].client].url = heap[thread[s].client].url
            /\ heap'[thread[s].client].drops = heap[thread[s].client].drops
       /\ thread'[t].client \in Client => heap'[thread'[t].client] = h[thread'[t].client]
    <2>1. clients' \in Client \cup {None} /\ (clients' # None => h[clients'].drops = drops)
        BY <1>3, <1>5, <1>6
    <2>2. \A s \in Thread \ {t} : thread[s].client # None =>
             h[thread[s].client].url = heap[thread[s].client].url
             /\ h[thread[s].client].drops = heap[thread[s].client].drops
        BY <1>7
    <2> QED
        BY <1>5, <1>6, <1>9, <2>1, <2>2, HeapCollected
<1>11. GoodThread(q, heap')
    <2>1. heap'[c].url = q.url /\ heap'[c].drops >= q.drops
        BY <1>1, <1>3, <1>6, <1>8, <1>9, <1>10 DEF ThreadType
    <2>2. q.since <= now
        BY <1>8 DEF GoodThread
    <2>3. c # None
        BY <1>3, ClientsAreNumbers
    <2> QED
        BY <1>1, <1>8, <2>1, <2>2, <2>3 DEF GoodThread
<1>12. clients' \in Client \cup {None}
    BY <1>3, <1>5
<1> QED
    BY <1>5, <1>8, <1>10, <1>11, <1>12, ThreadMoves

----------------------------------------------------------------------------
(* Administrators, the issuer and time *)

\* An edit begins: it leaves the client alone, or drops it and counts that or not.
LEMMA WriteKeeps ==
    ASSUME KeyInv, NEW to \in Issuer, Write(to),
           \/ KeepClients
           \/ /\ clients' = None /\ heap' = Collect(heap, None, thread)
              /\ drops' = drops + 1
    PROVE  KeyInv'
<1>1. KeyTypeOK /\ DropsCounted /\ \A t \in Thread : GoodThread(thread[t], heap)
    BY DEF KeyInv
<1>2. /\ edits \in 0 .. MaxEdits /\ edits < MaxEdits /\ edits' = edits + 1
      /\ drops \in 0 .. MaxEdits /\ drops <= edits /\ drops' \in {drops, drops + 1}
      /\ editor' = [to |-> to, drops |-> drops] /\ thread' = thread
      /\ UNCHANGED <<now, published, gone, rotations, issuer>>
    BY <1>1 DEF Write, KeyTypeOK, DropsCounted, KeepClients
<1>3. \A t \in Thread : thread[t].client # None => thread[t].client \in Client
    BY <1>1 DEF KeyTypeOK
<1>4. /\ heap' \in [Client -> ClientType]
      /\ \A c \in Client : GoodClient(heap'[c])
      /\ \A t \in Thread : thread[t].client # None => heap'[thread[t].client] = heap[thread[t].client]
    <2>1. heap \in [Client -> ClientType] /\ \A c \in Client : GoodClient(heap[c])
        BY <1>1, KeyTyped DEF KeyInv
    <2>2. Blank \in ClientType /\ GoodClient(Blank)
        BY <1>1, BlankIsGood, BoundsAreNumbers DEF KeyTypeOK
    <2>3. CASE KeepClients
        BY <2>1, <2>3 DEF KeepClients
    <2>4. CASE heap' = Collect(heap, None, thread)
        BY <1>3, <2>1, <2>2, <2>4 DEF Collect
    <2> QED
        BY <2>3, <2>4
<1>5. \A t \in Thread : GoodThread(thread[t], heap)'
    <2> SUFFICES ASSUME NEW t \in Thread PROVE GoodThread(thread[t], heap)'
        OBVIOUS
    <2>1. GoodThread(thread[t], heap) /\ thread[t] \in ThreadType
        BY <1>1, KeyTyped
    <2> QED
        BY <1>2, <1>4, <2>1 DEF GoodThread, Recent, ThreadType
<1>6. DropsCounted'
    BY <1>1, <1>2 DEF DropsCounted, KeepClients
<1>7. KeyTypeOK'
    <2>1. drops' \in 0 .. MaxEdits /\ edits' \in 0 .. MaxEdits
        BY <1>2, BoundsAreNumbers
    <2>2. editor' \in [to : Issuer, drops : 0 .. MaxEdits]
        BY <1>2
    <2>3. clients' \in Client \cup {None}
        BY <1>1 DEF KeyTypeOK, KeepClients
    <2> QED
        BY <1>1, <1>2, <1>4, <2>1, <2>2, <2>3 DEF KeyTypeOK, ClientType
<1>8. \A c \in Client : GoodClient(heap[c])'
    BY <1>2, <1>4 DEF GoodClient, Recent
<1> QED
    BY <1>5, <1>6, <1>7, <1>8 DEF KeyInv

\* A change of the URL is an edit that drops the client or not.
LEMMA WriteUrlKeeps ==
    ASSUME KeyInv, NEW u \in Url, NEW here \in BOOLEAN, WriteUrl(u, here)
    PROVE  KeyInv'
<1>1. [issuer EXCEPT !.url = u] \in Issuer
    BY DEF KeyInv, KeyTypeOK, Issuer
<1> QED
    BY <1>1, WriteKeeps DEF WriteUrl, Invalidate, KeepClients

\* Archiving is an edit that drops nothing.
LEMMA WriteActiveKeeps ==
    ASSUME KeyInv, WriteActive
    PROVE  KeyInv'
<1>1. [issuer EXCEPT !.state = IF @ = "active" THEN "archived" ELSE "active"] \in Issuer
    BY DEF KeyInv, KeyTypeOK, Issuer
<1> QED
    BY <1>1, WriteKeeps DEF WriteActive

\* A deletion is an edit that drops the client or not.
LEMMA UnlinkKeeps ==
    ASSUME KeyInv, NEW here \in BOOLEAN, Unlink(here)
    PROVE  KeyInv'
<1>1. [issuer EXCEPT !.state = "deleted"] \in Issuer
    BY DEF KeyInv, KeyTypeOK, Issuer
<1> QED
    BY <1>1, WriteKeeps DEF Unlink, Invalidate, KeepClients

\* The end of an edit lets later requests owe its drop, which the entry has seen.
LEMMA EndEditKeeps ==
    ASSUME KeyInv, EndEdit
    PROVE  KeyInv'
<1>1. issuer' \in Issuer
    BY DEF EndEdit, KeyInv, KeyTypeOK
<1>2. KeyTypeOK' /\ DropsCounted'
    BY <1>1 DEF KeyInv, KeyTypeOK, DropsCounted, EndEdit, KeepClients
<1>3. /\ \A c \in Client : GoodClient(heap[c])'
      /\ \A t \in Thread : GoodThread(thread[t], heap)'
    BY DEF KeyInv, EndEdit, KeepClients, GoodClient, GoodThread, Recent
<1> QED
    BY <1>2, <1>3 DEF KeyInv

\* What was recent stays so when keys are rotated, as of any time that has come.
LEMMA RecentStays ==
    ASSUME KeyInv, NEW u \in Url, Rotate(u), NEW v \in Url, NEW k \in Key, NEW when \in Nat,
           NEW slack \in Nat, when <= now, Recent(v, k, when, slack)
    PROVE  Recent(v, k, when, slack)'
<1>1. PICK keys \in KeySet \ {published[u]} :
        /\ published' = [published EXCEPT ![u] = keys]
        /\ gone' = [gone EXCEPT ![u] =
                      [x \in Key |-> IF x \in published[u] \ keys THEN now ELSE @[x]]]
    BY DEF Rotate
<1>2. /\ published \in [Url -> KeySet] /\ now \in Nat
      /\ gone \in [Url -> [Key -> 0 .. MaxClock \cup {None}]]
    BY BoundsAreNumbers DEF KeyInv, KeyTypeOK
<1>3. None # now
    BY <1>2, BoundsAreNumbers
<1>4. CASE v # u
    BY <1>1, <1>2, <1>4 DEF Recent
<1>5. CASE v = u
    <2>1. published'[u] = keys
          /\ gone'[u][k] = IF k \in published[u] \ keys THEN now ELSE gone[u][k]
        BY <1>1, <1>2
    <2> QED
        BY <1>2, <1>3, <1>5, <2>1 DEF Recent
<1> QED
    BY <1>4, <1>5

\* A rotation withdraws keys as of now, which leaves all of them recent.
LEMMA RotateKeeps ==
    ASSUME KeyInv, NEW u \in Url, Rotate(u)
    PROVE  KeyInv'
<1>1. KeyTypeOK /\ DropsCounted
    BY DEF KeyInv
<1>2. /\ heap' = heap /\ clients' = clients /\ drops' = drops
      /\ UNCHANGED <<now, issuer, edits, editor>>
    BY DEF Rotate, KeepClients
<1>3. published' \in [Url -> KeySet] /\ gone' \in [Url -> [Key -> 0 .. MaxClock \cup {None}]]
      /\ rotations' \in 0 .. MaxRotations
    BY <1>1, BoundsAreNumbers DEF Rotate, KeyTypeOK
<1>4. \A c \in Client : GoodClient(heap[c])'
    <2> SUFFICES ASSUME NEW c \in Client PROVE GoodClient(heap[c])'
        OBVIOUS
    <2>1. GoodClient(heap[c]) /\ heap[c] \in ClientType
        BY <1>1, KeyTyped DEF KeyInv
    <2>2. ASSUME heap[c].keys # None, NEW k \in heap[c].keys
          PROVE  Recent(heap[c].url, k, heap[c].at, FetchTime)'
        <3>1. /\ heap[c].url \in Url /\ heap[c].at <= now /\ heap[c].at \in Nat
              /\ Recent(heap[c].url, k, heap[c].at, FetchTime)
            BY <2>1, <2>2, BoundsAreNumbers DEF GoodClient, ClientType
        <3>2. k \in Key
            BY <2>1, <2>2, BoundsAreNumbers DEF ClientType
        <3>3. Recent(heap[c].url, k, heap[c].at, FetchTime)
              => (\A v, n : v = heap[c].url /\ n = heap[c].at =>
                     Recent(v, k, n, FetchTime)')
            BY <3>1, <3>2, RecentStays, BoundsAreNumbers
        <3> QED
            BY <1>2, <3>1, <3>3 DEF Recent
    <2> QED
        BY <1>2, <2>1, <2>2 DEF GoodClient
<1>5. \A t \in Thread :
        /\ thread[t] \in ThreadType /\ GoodThread(thread[t], heap)
        /\ \/ thread[t].at = "idle" /\ thread'[t] = Idle
           \/ thread[t].at # "idle" /\ thread'[t] = [thread[t] EXCEPT !.steady = FALSE]
    BY <1>1, KeyTyped DEF KeyInv, Rotate, At
<1>6. Idle \in ThreadType
    BY BoundsAreNumbers DEF Idle, ThreadType
<1>7. thread' \in [Thread -> ThreadType]
    <2>1. \A t \in Thread : thread'[t] \in ThreadType
        BY <1>5, <1>6, UnsteadyFields
    <2>2. thread' = [t \in Thread |-> thread'[t]]
        BY DEF Rotate
    <2> QED
        BY <2>1, <2>2
<1>11. now \in Nat /\ drops \in Nat
    BY <1>1, BoundsAreNumbers DEF KeyTypeOK
<1>8. ASSUME NEW t \in Thread PROVE GoodThread(thread[t], heap)'
    <2>1. CASE thread[t].at = "idle"
        <3>1. thread'[t] = Idle /\ now' \in Nat /\ drops' \in Nat
            BY <1>2, <1>5, <1>11, <2>1
        <3> QED
            BY <3>1 DEF GoodThread, Idle
    <2>2. CASE thread[t].at # "idle"
        <3> DEFINE q == thread[t]
        <3>1. /\ thread'[t] \in ThreadType /\ thread'[t].at = q.at /\ thread'[t].token = q.token
              /\ thread'[t].url = q.url /\ thread'[t].client = q.client
              /\ thread'[t].keys = q.keys /\ thread'[t].since = q.since
              /\ thread'[t].drops = q.drops /\ ~thread'[t].steady
            BY <1>5, <2>2, UnsteadyFields
        <3>2. GoodThread(q, heap) /\ q \in ThreadType /\ q.since \in Nat /\ now \in Nat
            <4>1. GoodThread(q, heap) /\ q \in ThreadType
                BY <1>5
            <4>2. q.since \in 0 .. MaxClock
                BY <4>1 DEF ThreadType
            <4> QED
                BY <1>11, <4>1, <4>2, BoundsAreNumbers
        <3>3. ASSUME q.at = "put", NEW k \in q.keys PROVE Recent(q.url, k, q.since, 0)'
            <4>1. /\ q.url \in Url /\ k \in Key /\ q.since <= now
                  /\ Recent(q.url, k, q.since, 0)
                BY <3>2, <3>3, BoundsAreNumbers DEF GoodThread
            <4>2. \A v, n : v = q.url /\ n = q.since => Recent(v, k, n, 0)'
                BY <3>2, <4>1, RecentStays
            <4> QED
                BY <3>1, <4>2 DEF Recent
        <3>4. ASSUME q.at = "accepted"
              PROVE  Recent(q.url, q.token, q.since, TimeToLive + FetchTime)'
            <4>1. /\ q.url \in Url /\ q.token \in Key /\ q.since <= now
                  /\ Recent(q.url, q.token, q.since, TimeToLive + FetchTime)
                BY <3>2, <3>4 DEF GoodThread
            <4>2. TimeToLive + FetchTime \in Nat
                BY BoundsAreNumbers
            <4>3. \A v, k, n : v = q.url /\ k = q.token /\ n = q.since =>
                      Recent(v, k, n, TimeToLive + FetchTime)'
                BY <3>2, <4>1, <4>2, RecentStays
            <4> QED
                BY <3>1, <4>3 DEF Recent
        <3>5. q.url = q.url' /\ q.token = q.token' /\ q.keys = q.keys'
            BY <3>1
        <3> HIDE DEF q
        <3> QED
            BY <1>2, <3>1, <3>2, <3>3, <3>4, <3>5 DEF GoodThread, q
    <2> QED
        BY <2>1, <2>2
<1>9. KeyTypeOK'
    <2>1. \A t \in Thread : thread'[t].client # None =>
              heap'[thread'[t].client].url = thread'[t].url
        BY <1>8 DEF GoodThread
    <2> QED
        BY <1>1, <1>2, <1>3, <1>7, <2>1 DEF KeyTypeOK, ThreadType
<1>10. DropsCounted'
    BY <1>1, <1>2 DEF DropsCounted
<1> QED
    BY <1>4, <1>8, <1>9, <1>10 DEF KeyInv

\* A tick leaves a fetch within its time, hence its keys recent when they come.
LEMMA TickKeeps ==
    ASSUME KeyInv, Tick
    PROVE  KeyInv'
<1>1. KeyTypeOK /\ DropsCounted
    BY DEF KeyInv
<1>2. /\ now \in 0 .. MaxClock /\ now < MaxClock /\ now' = now + 1
      /\ UNCHANGED <<published, gone, issuer, rotations, edits, editor, thread, heap, clients, drops>>
    BY <1>1 DEF Tick, KeepClients, KeyTypeOK
<1>3. now' \in 0 .. MaxClock
    BY <1>2, BoundsAreNumbers
<1>4. KeyTypeOK' /\ DropsCounted'
    BY <1>1, <1>2, <1>3 DEF KeyTypeOK, DropsCounted
<1>5. \A c \in Client : GoodClient(heap[c])'
    <2>1. \A c \in Client : heap[c] \in ClientType
        BY <1>1, KeyTyped
    <2> QED
        BY <1>2, <2>1 DEF KeyInv, GoodClient, Recent, ClientType
<1>6. ASSUME NEW t \in Thread PROVE GoodThread(thread[t], heap)'
    <2>1. thread[t] \in ThreadType /\ GoodThread(thread[t], heap)
        BY <1>1, KeyTyped DEF KeyInv
    <2>2. thread[t].at \in {"fetch", "put"} => now - thread[t].since < FetchTime
        BY DEF Tick, Fetching, At
    <2>3. /\ thread[t].since \in Nat
          /\ thread[t].at \in {"fetch", "put"} => now' <= thread[t].since + FetchTime
        BY <1>2, <2>1, <2>2, BoundsAreNumbers DEF ThreadType
    <2> QED
        BY <1>2, <2>1, <2>3 DEF GoodThread, Recent
<1> QED
    BY <1>4, <1>5, <1>6 DEF KeyInv

----------------------------------------------------------------------------
(* Results *)

\* Every step keeps the invariant.
LEMMA KeyInvNext == KeyInv /\ [KeyNext]_keyVars => KeyInv'
<1> SUFFICES ASSUME KeyInv, [KeyNext]_keyVars PROVE KeyInv'
    OBVIOUS
<1>1. ASSUME NEW t \in Thread,
             ReadIssuer(t) \/ Unknown(t) \/ GetClient(t) \/ ReadKeys(t) \/ Reply(t)
             \/ FetchFails(t) \/ Put(t) \/ Answered(t)
      PROVE  KeyInv'
    BY <1>1, ReadIssuerKeeps, UnknownKeeps, GetClientKeeps, ReadKeysKeeps, ReplyKeeps,
       FetchFailsKeeps, PutKeeps, AnsweredKeeps
<1>2. ASSUME NEW here \in BOOLEAN, Unlink(here) \/ \E u \in Url : WriteUrl(u, here)
      PROVE  KeyInv'
    BY <1>2, UnlinkKeeps, WriteUrlKeeps
<1>3. CASE WriteActive \/ EndEdit
    BY <1>3, WriteActiveKeeps, EndEditKeeps
<1>4. CASE (\E u \in Url : Rotate(u)) \/ Tick
    BY <1>4, RotateKeeps, TickKeeps
<1>5. CASE UNCHANGED keyVars
    BY <1>5 DEF keyVars, KeyInv, KeyTypeOK, DropsCounted, GoodClient, GoodThread, Recent
<1> QED
    BY <1>1, <1>2, <1>3, <1>4, <1>5 DEF KeyNext

\* The invariant is one.
LEMMA KeyInvAlways == KeySpec => []KeyInv
    BY KeyInvInit, KeyInvNext, PTL DEF KeySpec

\* Every state of an issuer's keys is typed, and a thread's client is of the URL that
\* its request read: get_client makes another one where the entry does not fit.
THEOREM KeyTypeCorrect == KeySpec => []KeyTypeOK
<1>1. KeyInv => KeyTypeOK
    BY DEF KeyInv
<1> QED
    BY <1>1, KeyInvAlways, PTL

\* However slow the fetches and however many threads share or replace clients: a
\* key that was withdrawn is accepted no longer than the time to live and a fetch.
THEOREM WithdrawnKeyDies == KeySpec => []AcceptedByRecentKey
<1>1. KeyInv => AcceptedByRecentKey
    <2> SUFFICES ASSUME KeyInv, NEW t \in Thread, At(t) = "accepted"
                 PROVE  LET withdrawn == gone[thread[t].url][thread[t].token] IN
                        \/ thread[t].token \in published[thread[t].url]
                        \/ withdrawn # None
                           /\ thread[t].since <= withdrawn + TimeToLive + FetchTime
        BY DEF AcceptedByRecentKey
    <2>1. /\ thread[t].url \in Url /\ thread[t].token \in Key
          /\ Recent(thread[t].url, thread[t].token, thread[t].since, TimeToLive + FetchTime)
        BY DEF KeyInv, GoodThread, At
    <2>2. gone[thread[t].url][thread[t].token] \in 0 .. MaxClock \cup {None}
        BY <2>1 DEF KeyInv, KeyTypeOK
    <2> QED
        BY <2>1, <2>2, BoundsAreNumbers DEF Recent
<1> QED
    BY <1>1, KeyInvAlways, PTL

\* A token whose key was served all the time is refused only if a fetch failed:
\* whatever the cached keys, the URL is asked again before a token is refused.
THEOREM NewKeyIsFound == KeySpec => []ServedKeyIsFound
<1>1. KeyInv => ServedKeyIsFound
    BY DEF KeyInv, GoodThread, ServedKeyIsFound, At
<1> QED
    BY <1>1, KeyInvAlways, PTL

\* Once this process has committed an edit of the URL or a deletion, no request that
\* begins later uses a client made before it.
THEOREM EditedIssuerDropsKeys == KeySpec => []EditDropsKeys
<1>1. KeyInv => EditDropsKeys
    BY DEF KeyInv, GoodThread, EditDropsKeys, At
<1> QED
    BY <1>1, KeyInvAlways, PTL

====
