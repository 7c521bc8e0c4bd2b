---- MODULE ApiKey ----
(***************************************************************************)
(* One row of ssi_rest_api_key: its generation, its use by requests that   *)
(* authenticate with it, the record of its last use, which is written in a *)
(* transaction of its own while the request's is open, and its management  *)
(* by its owner, through the user interface or through a request that the  *)
(* key itself authenticates. Transactions read the snapshot of their first *)
(* query; the first updater of the row wins and the others run again. What *)
(* a read-only route reads is the replica's, when there is one, which may  *)
(* lag; the record of the use is always written to the primary.            *)
(***************************************************************************)
EXTENDS Integers, FiniteSets, Sequences

CONSTANTS
    Request,    \* requests and button clicks, each made once
    Ops,        \* bound: what they ask for
    MaxTries,   \* attempts of one request
    MaxClock,   \* bound on the clock
    Never       \* no expiration, no use yet

\* A request to a read-only route and one that archives the key, both authenticated
\* with it; the generate button and the active field of the form.
Op == {"read", "archive", "generate", "toggle"}

ByKey == {"read", "archive"}

ASSUME ConstantsAssumption ==
    /\ Ops \subseteq Op
    /\ MaxTries \in Nat \ {0} /\ MaxClock \in Nat
    /\ Never \notin Nat

VARIABLES
    now,        \* the clock
    row,        \* the row as committed; raw keys are numbered
    behind,     \* the earlier rows that the replica has yet to leave, oldest first
    drawn,      \* raw keys drawn so far
    stored,     \* raw keys whose hash was ever committed
    pc, call, tries,
    snap,       \* the row in the request's snapshot
    beaten,     \* whether the row was written since
    draft,      \* the raw key the attempt generated, 0 for none
    stamp,      \* when the attempt's verification succeeded
    covered,    \* whether the key was usable when the attempt began, for all it could see
    answer,     \* what the caller was told
    shown       \* the raw key the user was shown, 0 for none

vars == <<now, row, behind, drawn, stored, pc, call, tries, snap, beaten, draft,
          stamp, covered, answer, shown>>

NoCall == [op |-> "none", key |-> 0]

NoSnapshot == [key |-> 0, active |-> FALSE, expires |-> Never, used |-> Never]

Init ==
    /\ now = 0
    /\ \E e \in {Never} \cup 0 .. MaxClock :
        row = [key |-> 1, active |-> TRUE, expires |-> e, used |-> Never]
    /\ behind = <<>>
    /\ drawn = 1 /\ stored = {1}
    /\ pc = [r \in Request |-> "idle"]
    /\ call = [r \in Request |-> NoCall]
    /\ tries = [r \in Request |-> 0]
    /\ snap = [r \in Request |-> NoSnapshot]
    /\ beaten = [r \in Request |-> FALSE]
    /\ draft = [r \in Request |-> 0]
    /\ stamp = [r \in Request |-> Never]
    /\ covered = [r \in Request |-> FALSE]
    /\ answer = [r \in Request |-> "none"]
    /\ shown = [r \in Request |-> 0]

----------------------------------------------------------------------------
(* Helpers *)

\* Faulty: an archived key still matches.
AuthenticateArchived(k, raw, time) ==
    /\ k.key = raw
    /\ k.expires = Never \/ k.expires > time

\* _authenticate: the row whose hash the raw key matches, active and unexpired.
Authenticate(k, raw, time) ==
    /\ k.key = raw
    /\ k.active
    /\ k.expires = Never \/ k.expires > time

\* What the replica shows.
Replica == IF behind = <<>> THEN row ELSE Head(behind)

\* What the first query of the request may read of the row: without a replica, or
\* when it cannot be reached, the primary's.
Shown(r) == IF call[r].op = "read" THEN {row, Replica} ELSE {row}

\* The rows that a request cannot know to be gone: the replica may be anywhere in
\* between.
Current(r) ==
    {row} \cup (IF call[r].op = "read" THEN {behind[i] : i \in DOMAIN behind} ELSE {})

\* What a usable key is.
Usable(k, raw) ==
    raw = k.key /\ k.active /\ (k.expires = Never \/ now < k.expires)

\* Whether k and l are the same to whoever authenticates.
SameKey(k, l) == k.key = l.key /\ k.active = l.active

\* Whether the request's own transaction writes the row.
Writes(r) == call[r].op # "read"

Holds(r) == pc[r] = "commit" /\ Writes(r)

LockFree(r) == \A s \in Request \ {r} : ~Holds(s)

\* The row is written: every open transaction that will write it too has lost.
Beat == [r \in Request |->
            beaten[r] \/ (Writes(r) /\ pc[r] \in {"handle", "touch", "serve", "flush"})]

\* k is committed, and the replica has yet to hear of it, unless the time of the
\* last use, which nobody reads, is all that is new.
Store(k) ==
    /\ row' = k
    /\ behind' = IF SameKey(k, row) THEN behind ELSE Append(behind, row)
    /\ stored' = stored \cup {k.key}

Goto(r, label) == pc' = [pc EXCEPT ![r] = label]

\* The transaction ends and the attempt is forgotten.
Close(r, to) ==
    /\ Goto(r, to)
    /\ draft' = [draft EXCEPT ![r] = 0]
    /\ snap' = [snap EXCEPT ![r] = NoSnapshot]
    /\ stamp' = [stamp EXCEPT ![r] = Never]

----------------------------------------------------------------------------
(* One request, attempt by attempt *)

Arrive(r) ==
    /\ pc[r] = "idle"
    /\ Goto(r, "begin")
    /\ \E op \in Ops, key \in 1 .. drawn :
        /\ op \notin ByKey => key = 1
        /\ call' = [call EXCEPT ![r] = [op |-> op, key |-> key]]
    /\ UNCHANGED <<now, row, behind, drawn, stored, tries, snap, beaten, draft, stamp,
                   covered, answer, shown>>

Begin(r) ==
    /\ pc[r] = "begin"
    /\ Goto(r, IF call[r].op \in ByKey THEN "handle" ELSE "serve")
    /\ tries' = [tries EXCEPT ![r] = @ + 1]
    /\ \E k \in Shown(r) : snap' = [snap EXCEPT ![r] = k]
    /\ covered' = [covered EXCEPT ![r] = \E k \in Current(r) : Usable(k, call[r].key)]
    /\ UNCHANGED <<now, row, behind, drawn, stored, call, beaten, draft, stamp,
                   answer, shown>>

\* _rest_auth_verify: an unknown, archived or expired key is refused; otherwise
\* the time of use is taken and about to be recorded.
Verify(r) ==
    /\ pc[r] = "handle"
    /\ IF Authenticate(snap[r], call[r].key, now)
       THEN /\ Goto(r, "touch")
            /\ stamp' = [stamp EXCEPT ![r] = now]
            /\ UNCHANGED <<snap, beaten, draft, answer>>
       ELSE /\ Close(r, "done")
            /\ beaten' = [beaten EXCEPT ![r] = FALSE]
            /\ answer' = [answer EXCEPT ![r] = "refused"]
    /\ UNCHANGED <<now, row, behind, drawn, stored, call, tries, covered, shown>>

\* Faulty: the row is written back as the request saw it.
TouchWithStaleRow(r) ==
    /\ pc[r] = "touch" /\ LockFree(r)
    /\ Goto(r, "serve")
    /\ \E t \in stamp[r] .. now : Store([snap[r] EXCEPT !.used = t])
    /\ beaten' = Beat
    /\ UNCHANGED <<now, drawn, call, tries, snap, draft, stamp, covered, answer,
                   shown>>

\* _touch_last_used_date, in its own transaction: it takes the time, waits for the
\* row's lock and commits, past the request's snapshot.
Touch(r) ==
    /\ pc[r] = "touch" /\ LockFree(r)
    /\ Goto(r, "serve")
    /\ \E t \in stamp[r] .. now : Store([row EXCEPT !.used = t])
    /\ beaten' = Beat
    /\ UNCHANGED <<now, drawn, call, tries, snap, draft, stamp, covered, answer,
                   shown>>

\* It failed, on a conflict or for want of a connection: logged and swallowed.
TouchFailed(r) ==
    /\ pc[r] = "touch"
    /\ Goto(r, "serve")
    /\ UNCHANGED <<now, row, behind, drawn, stored, call, tries, snap, beaten, draft,
                   stamp, covered, answer, shown>>

\* The endpoint, or the button: a new raw key is drawn by _generate_new_key.
Serve(r) ==
    /\ pc[r] = "serve"
    /\ Goto(r, "flush")
    /\ IF call[r].op = "generate"
       THEN drawn' = drawn + 1 /\ draft' = [draft EXCEPT ![r] = drawn']
       ELSE UNCHANGED <<drawn, draft>>
    /\ UNCHANGED <<now, row, behind, stored, call, tries, snap, beaten, stamp,
                   covered, answer, shown>>

\* Faulty: the raw key is shown although the row went to another one.
FlushIgnoringConflict(r) ==
    /\ pc[r] = "flush"
    /\ Writes(r) => LockFree(r)
    /\ Goto(r, "commit")
    /\ UNCHANGED <<now, row, behind, drawn, stored, call, tries, snap, beaten, draft,
                   stamp, covered, answer, shown>>

Flush(r) ==
    /\ pc[r] = "flush"
    /\ Writes(r) => LockFree(r) /\ ~beaten[r]
    /\ Goto(r, "commit")
    /\ UNCHANGED <<now, row, behind, drawn, stored, call, tries, snap, beaten, draft,
                   stamp, covered, answer, shown>>

\* Faulty: one attempt too many.
MayRetryOnceMore(r) == tries[r] <= MaxTries

MayRetry(r) == tries[r] < MaxTries

\* A concurrency failure: roll back and run again, or give up.
Conflict(r) ==
    /\ pc[r] = "flush" /\ Writes(r) /\ LockFree(r) /\ beaten[r]
    /\ beaten' = [beaten EXCEPT ![r] = FALSE]
    /\ IF MayRetry(r)
       THEN Close(r, "begin") /\ UNCHANGED answer
       ELSE Close(r, "done") /\ answer' = [answer EXCEPT ![r] = "error"]
    /\ UNCHANGED <<now, row, behind, drawn, stored, call, tries, covered, shown>>

\* The row as the attempt's UPDATE leaves it.
Written(r) ==
    CASE call[r].op = "archive" -> [row EXCEPT !.active = FALSE]
      [] call[r].op = "generate" -> [row EXCEPT !.key = draft[r]]
      [] call[r].op = "toggle" -> [row EXCEPT !.active = ~snap[r].active]
      [] OTHER -> row

\* Committed and answered, unless the worker dies in between.
Commit(r) ==
    /\ pc[r] = "commit"
    /\ Store(Written(r))
    /\ beaten' = IF Writes(r) THEN [Beat EXCEPT ![r] = FALSE] ELSE beaten
    /\ \/ /\ Close(r, "done")
          /\ answer' = [answer EXCEPT ![r] = "ok"]
          /\ shown' = [shown EXCEPT ![r] = draft[r]]
       \/ Close(r, "lost") /\ UNCHANGED <<answer, shown>>
    /\ UNCHANGED <<now, drawn, call, tries, covered>>

Crash(r) ==
    /\ pc[r] \notin {"idle", "done", "lost"}
    /\ Close(r, "lost")
    /\ beaten' = [beaten EXCEPT ![r] = FALSE]
    /\ UNCHANGED <<now, row, behind, drawn, stored, call, tries, covered, answer,
                   shown>>

Tick ==
    /\ now < MaxClock
    /\ now' = now + 1
    /\ UNCHANGED <<row, behind, drawn, stored, pc, call, tries, snap, beaten, draft,
                   stamp, covered, answer, shown>>

\* The replica applies the next commit.
Replicate ==
    /\ behind # <<>>
    /\ behind' = Tail(behind)
    /\ UNCHANGED <<now, row, drawn, stored, pc, call, tries, snap, beaten, draft,
                   stamp, covered, answer, shown>>

Idle ==
    /\ \A r \in Request : pc[r] \in {"done", "lost"}
    /\ UNCHANGED vars

Next ==
    \/ \E r \in Request :
        \/ Arrive(r) \/ Begin(r) \/ Verify(r) \/ Touch(r) \/ TouchFailed(r) \/ Serve(r)
        \/ Flush(r) \/ Conflict(r) \/ Commit(r) \/ Crash(r)
    \/ Tick \/ Replicate \/ Idle

Spec == Init /\ [][Next]_vars

----------------------------------------------------------------------------
(* Properties *)

TypeOK ==
    /\ now \in 0 .. MaxClock
    /\ row \in [key : Nat, active : BOOLEAN, expires : Nat \cup {Never},
                used : Nat \cup {Never}]
    /\ behind \in Seq([key : Nat, active : BOOLEAN, expires : Nat \cup {Never},
                       used : Nat \cup {Never}])
    /\ drawn \in Nat /\ stored \subseteq 1 .. drawn
    /\ pc \in [Request -> {"idle", "begin", "handle", "touch", "serve", "flush",
                           "commit", "done", "lost"}]
    /\ call \in [Request -> [op : Op \cup {"none"}, key : 0 .. drawn]]
    /\ tries \in [Request -> 0 .. MaxTries]
    /\ snap \in [Request -> [key : Nat, active : BOOLEAN, expires : Nat \cup {Never},
                             used : Nat \cup {Never}]]
    /\ {beaten, covered} \subseteq [Request -> BOOLEAN]
    /\ {draft, shown} \subseteq [Request -> 0 .. drawn]
    /\ stamp \in [Request -> Nat \cup {Never}]
    /\ answer \in [Request -> {"none", "ok", "refused", "error"}]

\* A request is served on the strength of a key only if the key was the row's,
\* active and unexpired when its last attempt began, whatever it was before: on
\* the row as committed, or, for a request to a read-only route, on a row that the
\* replica had yet to leave.
DeadKeyIsRefused ==
    \A r \in Request : answer[r] = "ok" /\ call[r].op \in ByKey => covered[r]

\* A raw key shown to its user is stored, and no key it replaced ever works again,
\* however generations, retries and uses overlap.
ShownKeyReplacesAll ==
    /\ \A r \in Request : shown[r] # 0 => shown[r] \in stored
    /\ \A k \in stored : k <= row.key

\* A generation, an archival or a restoration is never undone but by another that
\* saw it: the key or its active field changes only when a request of that kind
\* commits, whose transaction read them as they are. The record of a use, which is
\* written past the request's snapshot, changes neither.
NoManagementIsLost ==
    [][~SameKey(row', row) =>
         \E r \in Request :
            /\ Holds(r) /\ pc'[r] # "commit"
            /\ SameKey(snap[r], row)
            /\ row'.key # row.key => call[r].op = "generate" /\ row'.key = draft[r]
            /\ row'.active # row.active => call[r].op \in {"archive", "toggle"}]_vars

\* "a plain user must be able to create and manage their OWN keys" (the comment of
\* the model's access rights): a request that archives the key it authenticates
\* with does not end in an error when nobody else touches the key.
OwnKeyIsManageable ==
    \A r \in Request : call[r].op = "archive" => answer[r] # "error"

====
