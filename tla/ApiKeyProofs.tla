---- MODULE ApiKeyProofs ----
(***************************************************************************)
(* Proofs about ApiKey, for any requests and clicks, attempts and clock: a *)
(* dead key is refused, the key that was shown last is the row's, and what *)
(* a manager did to the key is undone only by one that saw it.             *)
(***************************************************************************)
EXTENDS ApiKey, TLAPS

KeyRow == [key : Nat, active : BOOLEAN, expires : Nat \cup {Never}, used : Nat \cup {Never}]

Label == {"idle", "begin", "handle", "touch", "serve", "flush", "commit", "done", "lost"}

Open == {"handle", "touch", "serve", "flush"}

----------------------------------------------------------------------------
(* The inductive invariant *)

\* An attempt is begun while one is left, and a use is recorded after it was verified.
Sound(r) ==
    /\ pc[r] \in {"idle", "begin"} => tries[r] < MaxTries
    /\ pc[r] = "touch" => stamp[r] \in Nat
    /\ pc[r] # "done" => answer[r] = "none"

\* A key that still verifies was usable when the attempt began, and whoever is past
\* the verification was covered.
Covered(r) ==
    /\ pc[r] = "handle" /\ Authenticate(snap[r], call[r].key, now) => covered[r]
    /\ pc[r] \in {"touch", "serve", "flush", "commit"} /\ call[r].op \in ByKey => covered[r]
    /\ answer[r] = "ok" /\ call[r].op \in ByKey => covered[r]

\* A generation that nobody has beaten to the row will replace every key before.
Newer(r) ==
    /\ call[r].op = "generate" =>
         /\ pc[r] \in {"flush", "commit"} => draft[r] > 0
         /\ pc[r] = "flush" /\ ~beaten[r] => draft[r] > row.key
         /\ pc[r] = "commit" => draft[r] > row.key
    /\ call[r].op # "generate" \/ pc[r] \notin {"flush", "commit"} => draft[r] = 0
    /\ shown[r] # 0 => shown[r] \in stored

\* A transaction that will write the row, and that nobody has beaten to it, sees the
\* key as it is.
Fresh(r) ==
    Writes(r) /\ (pc[r] = "commit" \/ (pc[r] \in Open /\ ~beaten[r])) => SameKey(snap[r], row)

KeysInOrder ==
    /\ row.key \in 1 .. drawn /\ row.key \in stored
    /\ \A k \in stored : k <= row.key

OneHolder == \A r, s \in Request : Holds(r) /\ Holds(s) => r = s

KInv ==
    /\ TypeOK
    /\ \A r \in Request : Sound(r) /\ Covered(r) /\ Newer(r) /\ Fresh(r)
    /\ KeysInOrder
    /\ OneHolder

\* TypeOK, its parts named.
Types ==
    /\ now \in 0 .. MaxClock /\ row \in KeyRow /\ behind \in Seq(KeyRow)
    /\ drawn \in Nat /\ stored \subseteq 1 .. drawn
    /\ pc \in [Request -> Label]
    /\ call \in [Request -> [op : Op \cup {"none"}, key : 0 .. drawn]]
    /\ tries \in [Request -> 0 .. MaxTries]
    /\ snap \in [Request -> KeyRow]
    /\ beaten \in [Request -> BOOLEAN] /\ covered \in [Request -> BOOLEAN]
    /\ draft \in [Request -> 0 .. drawn] /\ shown \in [Request -> 0 .. drawn]
    /\ stamp \in [Request -> Nat \cup {Never}]
    /\ answer \in [Request -> {"none", "ok", "refused", "error"}]

\* The type invariant, part by part,
LEMMA TypesHold == TypeOK => Types
    BY DEF TypeOK, Types, KeyRow, Label

\* and put together again after a step.
LEMMA TypesHoldNext == Types' => TypeOK'
    BY DEF TypeOK, Types, KeyRow, Label

\* The first state satisfies the invariant.
LEMMA KInvInit == Init => KInv
<1> SUFFICES ASSUME Init PROVE KInv
    OBVIOUS
<1>1. row \in KeyRow /\ row.key = 1 /\ NoSnapshot \in KeyRow
    BY DEF Init, KeyRow, NoSnapshot
<1>2. TypeOK
    BY <1>1, ConstantsAssumption DEF Init, TypeOK, KeyRow, NoCall, Op
<1>3. ASSUME NEW r \in Request PROVE Sound(r) /\ Covered(r) /\ Newer(r) /\ Fresh(r)
    BY ConstantsAssumption DEF Init, Sound, Covered, Newer, Fresh, NoCall, ByKey, Open
<1> QED
    BY <1>1, <1>2, <1>3 DEF Init, KInv, KeysInOrder, OneHolder, Holds

----------------------------------------------------------------------------
(* A request beside which another step is taken *)

\* Its own state stays, and its flag can only rise, as it does when the key changes.
Bystander(r) ==
    /\ pc'[r] = pc[r] /\ call'[r] = call[r] /\ tries'[r] = tries[r] /\ snap'[r] = snap[r]
    /\ draft'[r] = draft[r] /\ stamp'[r] = stamp[r] /\ covered'[r] = covered[r]
    /\ answer'[r] = answer[r] /\ shown'[r] = shown[r]
    /\ beaten[r] => beaten'[r]

\* Whose transaction the change of the key does not beat is not about to change it.
Spared(r) ==
    ~SameKey(row', row) /\ Writes(r) =>
        pc[r] # "commit" /\ (pc[r] \in Open => beaten'[r])

\* Its steps keep what holds of the request.
LEMMA BystanderKeeps ==
    ASSUME KInv, NEW r \in Request, Bystander(r), Spared(r),
           now' \in Nat, now <= now', stored \subseteq stored'
    PROVE  Sound(r)' /\ Covered(r)' /\ Newer(r)' /\ Fresh(r)'
<1> USE TypesHold DEF KInv
<1>1. Sound(r)'
    BY DEF Sound, Bystander
<1>2. Covered(r)'
    <2>1. Authenticate(snap[r], call[r].key, now') => Authenticate(snap[r], call[r].key, now)
        BY ConstantsAssumption DEF Authenticate, Types, KeyRow
    <2> QED
        BY <2>1 DEF Covered, Bystander
<1>3. Newer(r)'
    BY DEF Newer, Bystander, Spared, Writes, SameKey, Open, Types, KeyRow
<1>4. Fresh(r)'
    BY DEF Fresh, Bystander, Spared, Writes, SameKey, Types
<1> QED
    BY <1>1, <1>2, <1>3, <1>4


----------------------------------------------------------------------------
(* The steps *)

\* A step that leaves the row leaves the order of its keys.
LEMMA RowStays ==
    ASSUME KInv, row' = row, stored' = stored, drawn \in Nat, drawn' \in Nat, drawn <= drawn'
    PROVE  KeysInOrder'
    BY DEF KInv, KeysInOrder

\* Nobody comes to hold the row by a step that does not end in a commit.
LEMMA HoldersStay ==
    ASSUME KInv, call' = call, \A r \in Request : pc'[r] = "commit" => pc[r] = "commit"
    PROVE  OneHolder'
    BY DEF KInv, OneHolder, Holds, Writes

\* Steps of one request that write no row: the others are beside it.
Private(r) ==
    /\ UNCHANGED <<now, row, stored>>
    /\ \A s \in Request \ {r} : Bystander(s)

\* What holds of the others still does.
LEMMA PrivateKeeps ==
    ASSUME KInv, NEW r \in Request, Private(r), NEW s \in Request \ {r}
    PROVE  Sound(s)' /\ Covered(s)' /\ Newer(s)' /\ Fresh(s)'
<1>1. now \in Nat
    BY DEF KInv, TypeOK
<1> QED
    BY <1>1, BystanderKeeps DEF Private, Spared, SameKey

\* A call is made.
LEMMA ArriveKeeps == ASSUME KInv, NEW r \in Request, Arrive(r) PROVE KInv'
<1> USE TypesHold DEF KInv
<1>1. PICK q \in [op : Op, key : 1 .. drawn] :
        call' = [call EXCEPT ![r] = q]
    BY ConstantsAssumption DEF Arrive
<1>2. /\ pc[r] = "idle" /\ pc' = [pc EXCEPT ![r] = "begin"] /\ call'[r] = q
      /\ UNCHANGED <<now, row, behind, drawn, stored, tries, snap, beaten, draft, stamp, covered, answer, shown>>
    BY <1>1 DEF Arrive, Goto, Types
<1>3. TypeOK'
    BY <1>1, <1>2, TypesHoldNext DEF Types, Label
<1>4. Private(r)
    BY <1>1, <1>2 DEF Private, Bystander, Types
<1>5. Sound(r)' /\ Covered(r)' /\ Newer(r)' /\ Fresh(r)'
    BY <1>2 DEF Sound, Covered, Newer, Fresh, Writes, Open, Types
<1>6. KeysInOrder' /\ OneHolder'
    <2>1. KeysInOrder'
        BY <1>2, RowStays DEF Types
    <2>2. \A s \in Request : pc'[s] = "commit" => pc[s] = "commit" /\ call'[s] = call[s]
        BY <1>1, <1>2 DEF Types
    <2> QED
        BY <2>1, <2>2 DEF OneHolder, Holds, Writes
<1> QED
    BY <1>3, <1>4, <1>5, <1>6, PrivateKeeps

\* What a request may see is a row, and one that it cannot know to be gone.
LEMMA ShownIsCurrent ==
    ASSUME KInv, NEW r \in Request, NEW k \in Shown(r)
    PROVE  k \in KeyRow /\ k \in Current(r)
<1> USE TypesHold DEF KInv
<1>1. CASE k = row
    BY <1>1 DEF Current, Types
<1>2. CASE k # row
    <2>1. call[r].op = "read" /\ k = Replica /\ behind # <<>>
        BY <1>2 DEF Shown, Replica
    <2>2. 1 \in DOMAIN behind /\ k = behind[1] /\ behind[1] \in KeyRow
        BY <2>1 DEF Replica, Types
    <2> QED
        BY <2>1, <2>2 DEF Current
<1> QED
    BY <1>1, <1>2

\* An attempt begins; it is covered if a row that it cannot know to be gone would
\* let the key in now.
LEMMA BeginKeeps == ASSUME KInv, NEW r \in Request, Begin(r) PROVE KInv'
<1> USE TypesHold DEF KInv
<1>1. /\ pc[r] = "begin" /\ pc'[r] = IF call[r].op \in ByKey THEN "handle" ELSE "serve"
      /\ pc' = [pc EXCEPT ![r] = IF call[r].op \in ByKey THEN "handle" ELSE "serve"]
      /\ tries' = [tries EXCEPT ![r] = @ + 1]
      /\ covered' = [covered EXCEPT ![r] = \E k \in Current(r) : Usable(k, call[r].key)]
      /\ UNCHANGED <<now, row, behind, drawn, stored, call, beaten, draft, stamp, answer, shown>>
    BY DEF Begin, Goto, Types
<1>2. tries[r] + 1 \in 0 .. MaxTries
    BY <1>1, ConstantsAssumption DEF Sound, Types
<1>3. (\E k \in Current(r) : Usable(k, call[r].key)) \in BOOLEAN
    OBVIOUS
<1>4. PICK k \in Shown(r) : snap' = [snap EXCEPT ![r] = k]
    BY DEF Begin
<1>5. k \in KeyRow /\ k \in Current(r) /\ (call[r].op # "read" => k = row)
    BY <1>4, ShownIsCurrent DEF Shown
<1>6. TypeOK'
    BY <1>1, <1>2, <1>3, <1>4, <1>5, TypesHoldNext DEF Types, Label
<1>7. Private(r)
    BY <1>1, <1>4 DEF Private, Bystander, Types
<1>8. Covered(r)'
    <2>1. Authenticate(k, call[r].key, now) => \E l \in Current(r) : Usable(l, call[r].key)
        BY <1>5, ConstantsAssumption DEF Authenticate, Usable, Types, KeyRow
    <2> QED
        BY <1>1, <1>4, <2>1 DEF Covered, Sound, Types
<1>9. Sound(r)' /\ Newer(r)'
    BY <1>1 DEF Sound, Newer, Types
<1>10. Fresh(r)'
    BY <1>1, <1>4, <1>5 DEF Fresh, Writes, SameKey, Types
<1>11. KeysInOrder' /\ OneHolder'
    BY <1>1, RowStays, HoldersStay DEF Types
<1> QED
    BY <1>6, <1>7, <1>8, <1>9, <1>10, <1>11, PrivateKeeps

\* A key that verifies covers the request; any other ends it.
LEMMA VerifyKeeps == ASSUME KInv, NEW r \in Request, Verify(r) PROVE KInv'
<1> USE TypesHold DEF KInv
<1>1. CASE Authenticate(snap[r], call[r].key, now)
    <2>1. /\ pc[r] = "handle" /\ pc' = [pc EXCEPT ![r] = "touch"]
          /\ stamp' = [stamp EXCEPT ![r] = now]
          /\ UNCHANGED <<now, row, behind, drawn, stored, call, tries, snap, beaten, draft, covered, answer, shown>>
        BY <1>1 DEF Verify, Goto
    <2>2. TypeOK'
        BY <2>1, TypesHoldNext DEF Types, Label
    <2>3. Private(r)
        BY <2>1 DEF Private, Bystander, Types
    <2>4. Sound(r)' /\ Covered(r)' /\ Newer(r)'
        <3>1. Sound(r)'
            BY <2>1 DEF Sound, Types
        <3>2. Covered(r)'
            BY <1>1, <2>1 DEF Covered, Sound, Types
        <3>3. Newer(r)'
            BY <2>1 DEF Newer, Types
        <3> QED
            BY <3>1, <3>2, <3>3
    <2>5. Fresh(r)'
        BY <2>1 DEF Fresh, Writes, Open, Types
    <2>6. KeysInOrder' /\ OneHolder'
        BY <2>1, RowStays, HoldersStay DEF Types
    <2> QED
        BY <2>2, <2>3, <2>4, <2>5, <2>6, PrivateKeeps
<1>2. CASE ~Authenticate(snap[r], call[r].key, now)
    <2>1. /\ pc[r] = "handle" /\ Close(r, "done")
          /\ beaten' = [beaten EXCEPT ![r] = FALSE] /\ answer' = [answer EXCEPT ![r] = "refused"]
          /\ UNCHANGED <<now, row, behind, drawn, stored, call, tries, covered, shown>>
        BY <1>2 DEF Verify
    <2>2. NoSnapshot \in KeyRow
        BY DEF NoSnapshot, KeyRow
    <2>3. TypeOK'
        BY <2>1, <2>2, TypesHoldNext DEF Close, Goto, Types, Label
    <2>4. Private(r)
        BY <2>1 DEF Close, Goto, Private, Bystander, Types
    <2>5. Sound(r)' /\ Covered(r)' /\ Newer(r)' /\ Fresh(r)'
        BY <2>1 DEF Close, Goto, Sound, Covered, Newer, Fresh, Open, Types
    <2>6. KeysInOrder' /\ OneHolder'
        BY <2>1, RowStays, HoldersStay DEF Close, Goto, Types
    <2> QED
        BY <2>3, <2>4, <2>5, <2>6, PrivateKeeps
<1> QED
    BY <1>1, <1>2

\* A use is recorded: the key and its state stay, whoever saw the row has lost.
LEMMA TouchKeeps == ASSUME KInv, NEW r \in Request, Touch(r) PROVE KInv'
<1> USE TypesHold DEF KInv
<1>1. PICK t \in stamp[r] .. now : Store([row EXCEPT !.used = t])
    BY DEF Touch
<1>2. /\ pc[r] = "touch" /\ pc' = [pc EXCEPT ![r] = "serve"] /\ beaten' = Beat
      /\ UNCHANGED <<now, drawn, call, tries, snap, draft, stamp, covered, answer, shown>>
    BY DEF Touch, Goto
<1>3. t \in Nat
    BY <1>2 DEF Sound, Types
<1>4. row' \in KeyRow /\ row'.key = row.key /\ SameKey(row', row)
    BY <1>1, <1>3 DEF Store, SameKey, Types, KeyRow
<1>5. stored' = stored /\ behind' = behind
    BY <1>1, <1>4 DEF Store, KeysInOrder
<1>6. beaten' \in [Request -> BOOLEAN] /\ \A s \in Request : beaten[s] => beaten'[s]
    BY <1>2 DEF Beat, Types
<1>7. TypeOK'
    BY <1>2, <1>4, <1>5, <1>6, TypesHoldNext DEF Types, Label
<1>8. ASSUME NEW s \in Request \ {r} PROVE Sound(s)' /\ Covered(s)' /\ Newer(s)' /\ Fresh(s)'
    <2>1. Bystander(s) /\ Spared(s)
        BY <1>2, <1>4, <1>6 DEF Bystander, Spared, Types
    <2> QED
        BY <1>2, <1>5, <2>1, BystanderKeeps DEF Types
<1>9. Sound(r)' /\ Covered(r)' /\ Newer(r)'
    BY <1>2, <1>5 DEF Sound, Covered, Newer, Types
<1>12. Fresh(r)'
    <2>1. Writes(r) => beaten'[r]
        BY <1>2 DEF Beat
    <2> QED
        BY <1>2, <2>1 DEF Fresh, Writes, Types
<1>10. KeysInOrder'
    BY <1>2, <1>4, <1>5 DEF KeysInOrder
<1>11. OneHolder'
    BY <1>2, HoldersStay DEF Types
<1> QED
    BY <1>7, <1>8, <1>9, <1>10, <1>11, <1>12

\* It could not be recorded.
LEMMA TouchFailedKeeps == ASSUME KInv, NEW r \in Request, TouchFailed(r) PROVE KInv'
<1> USE TypesHold DEF KInv
<1>1. /\ pc[r] = "touch" /\ pc' = [pc EXCEPT ![r] = "serve"]
      /\ UNCHANGED <<now, row, behind, drawn, stored, call, tries, snap, beaten, draft, stamp,
                     covered, answer, shown>>
    BY DEF TouchFailed, Goto
<1>2. TypeOK'
    BY <1>1, TypesHoldNext DEF Types, Label
<1>3. Private(r)
    BY <1>1 DEF Private, Bystander, Types
<1>4. Sound(r)' /\ Covered(r)' /\ Newer(r)' /\ Fresh(r)'
    BY <1>1 DEF Sound, Covered, Newer, Fresh, Writes, Open, Types
<1>5. KeysInOrder' /\ OneHolder'
    BY <1>1, RowStays, HoldersStay DEF Types
<1> QED
    BY <1>2, <1>3, <1>4, <1>5, PrivateKeeps

\* A raw key that is drawn is greater than every one before.
LEMMA ServeKeeps == ASSUME KInv, NEW r \in Request, Serve(r) PROVE KInv'
<1> USE TypesHold DEF KInv
<1>1. /\ pc[r] = "serve" /\ pc' = [pc EXCEPT ![r] = "flush"]
      /\ UNCHANGED <<now, row, behind, stored, call, tries, snap, beaten, stamp, covered, answer, shown>>
      /\ \A s \in Request \ {r} : draft'[s] = draft[s]
    BY DEF Serve, Goto, Types
<1>2. /\ drawn' \in Nat /\ drawn <= drawn' /\ draft' \in [Request -> 0 .. drawn']
      /\ call[r].op = "generate" => draft'[r] = drawn + 1
      /\ call[r].op # "generate" => draft'[r] = 0
    <2>1. CASE call[r].op = "generate"
        <3>1. drawn' = drawn + 1 /\ draft' = [draft EXCEPT ![r] = drawn + 1]
            BY <2>1 DEF Serve
        <3>2. drawn + 1 \in 0 .. drawn + 1 /\ 0 .. drawn \subseteq 0 .. drawn + 1
            BY DEF Types
        <3> QED
            BY <2>1, <3>1, <3>2 DEF Types
    <2>2. CASE call[r].op # "generate"
        BY <1>1, <2>2 DEF Serve, Types, Newer
    <2> QED
        BY <2>1, <2>2
<1>3. 0 .. drawn \subseteq 0 .. drawn' /\ 1 .. drawn \subseteq 1 .. drawn'
    BY <1>2 DEF Types
<1>4. /\ call \in [Request -> [op : Op \cup {"none"}, key : 0 .. drawn']]
      /\ shown \in [Request -> 0 .. drawn']
    BY <1>3 DEF Types
<1>5. TypeOK'
    BY <1>1, <1>2, <1>3, <1>4, TypesHoldNext DEF Types, Label
<1>6. Private(r)
    BY <1>1 DEF Private, Bystander, Types
<1>7. Newer(r)'
    BY <1>1, <1>2 DEF Newer, KeysInOrder, Types, KeyRow
<1>8. Sound(r)' /\ Covered(r)' /\ Fresh(r)'
    BY <1>1 DEF Sound, Covered, Fresh, Writes, Open, Types
<1>9. KeysInOrder' /\ OneHolder'
    BY <1>1, <1>2, RowStays, HoldersStay DEF Types
<1> QED
    BY <1>5, <1>6, <1>7, <1>8, <1>9, PrivateKeeps

\* The row is locked by one transaction at a time.
LEMMA FlushKeeps == ASSUME KInv, NEW r \in Request, Flush(r) PROVE KInv'
<1> USE TypesHold DEF KInv
<1>1. /\ pc[r] = "flush" /\ pc' = [pc EXCEPT ![r] = "commit"]
      /\ Writes(r) => LockFree(r) /\ ~beaten[r]
      /\ UNCHANGED <<now, row, behind, drawn, stored, call, tries, snap, beaten, draft, stamp,
                     covered, answer, shown>>
    BY DEF Flush, Goto
<1>2. TypeOK'
    BY <1>1, TypesHoldNext DEF Types, Label
<1>3. Private(r)
    BY <1>1 DEF Private, Bystander, Types
<1>4. Sound(r)' /\ Covered(r)' /\ Fresh(r)'
    BY <1>1 DEF Sound, Covered, Fresh, Writes, Open, Types
<1>5. Newer(r)'
    BY <1>1 DEF Newer, Types, Writes
<1>6. KeysInOrder'
    BY <1>1, RowStays DEF Types
<1>7. OneHolder'
    BY <1>1 DEF OneHolder, Holds, Writes, LockFree, Types
<1> QED
    BY <1>2, <1>3, <1>4, <1>5, <1>6, <1>7, PrivateKeeps

\* An attempt that was beaten is forgotten, to be made again or given up.
LEMMA ConflictKeeps == ASSUME KInv, NEW r \in Request, Conflict(r) PROVE KInv'
<1> USE TypesHold DEF KInv
<1>1. PICK to \in {"begin", "done"} :
        /\ Close(r, to)
        /\ to = "begin" => MayRetry(r) /\ answer' = answer
        /\ to = "done" => answer' = [answer EXCEPT ![r] = "error"]
    BY DEF Conflict
<1>2. /\ pc[r] = "flush" /\ beaten' = [beaten EXCEPT ![r] = FALSE]
      /\ UNCHANGED <<now, row, behind, drawn, stored, call, tries, covered, shown>>
    BY DEF Conflict
<1>3. NoSnapshot \in KeyRow
    BY DEF NoSnapshot, KeyRow
<1>4. answer' \in [Request -> {"none", "ok", "refused", "error"}]
    BY <1>1 DEF Types
<1>5. TypeOK'
    <2>1. pc' \in [Request -> Label]
        BY <1>1 DEF Close, Goto, Types, Label
    <2>2. /\ draft' \in [Request -> 0 .. drawn] /\ snap' \in [Request -> KeyRow]
          /\ stamp' \in [Request -> Nat \cup {Never}]
        BY <1>1, <1>3 DEF Close, Types
    <2>3. beaten' \in [Request -> BOOLEAN]
        BY <1>2 DEF Types
    <2> QED
        BY <1>2, <1>4, <2>1, <2>2, <2>3, TypesHoldNext DEF Types
<1>6. Private(r)
    BY <1>1, <1>2 DEF Close, Goto, Private, Bystander, Types
<1>7. Sound(r)'
    BY <1>1, <1>2 DEF Close, Goto, Sound, MayRetry, Types
<1>8. Covered(r)' /\ Newer(r)' /\ Fresh(r)'
    BY <1>1, <1>2 DEF Close, Goto, Covered, Newer, Fresh, Open, Sound, Types
<1>9. KeysInOrder' /\ OneHolder'
    BY <1>1, <1>2, RowStays, HoldersStay DEF Close, Goto, Types
<1> QED
    BY <1>5, <1>6, <1>7, <1>8, <1>9, PrivateKeeps

\* What is written is a row, under the key that was generated or the same one.
LEMMA WrittenIsRow ==
    ASSUME KInv, NEW r \in Request, pc[r] = "commit"
    PROVE  /\ Written(r) \in KeyRow
           /\ call[r].op = "generate" => Written(r).key = draft[r]
           /\ call[r].op # "generate" => Written(r).key = row.key
<1> USE TypesHold DEF KInv
<1>1. CASE call[r].op = "archive"
    BY <1>1 DEF Written, Types, KeyRow
<1>2. CASE call[r].op = "generate"
    <2>1. Written(r) = [row EXCEPT !.key = draft[r]]
        BY <1>2 DEF Written
    <2>2. draft[r] \in Nat
        BY DEF Types
    <2> QED
        BY <1>2, <2>1, <2>2 DEF Types, KeyRow
<1>3. CASE call[r].op = "toggle"
    BY <1>3 DEF Written, Types, KeyRow
<1>4. CASE call[r].op \notin {"archive", "generate", "toggle"}
    BY <1>4 DEF Written, Types
<1> QED
    BY <1>1, <1>2, <1>3, <1>4

\* A commit writes the row by its only holder; every other writer loses.
LEMMA CommitKeeps == ASSUME KInv, NEW r \in Request, Commit(r) PROVE KInv'
<1> USE TypesHold DEF KInv
<1>1. /\ pc[r] = "commit" /\ row' = Written(r) /\ stored' = stored \cup {Written(r).key}
      /\ behind' = IF SameKey(Written(r), row) THEN behind ELSE Append(behind, row)
      /\ beaten' = IF Writes(r) THEN [Beat EXCEPT ![r] = FALSE] ELSE beaten
      /\ UNCHANGED <<now, drawn, call, tries, covered>>
    BY DEF Commit, Store
<1>2. PICK to \in {"done", "lost"} :
        /\ Close(r, to)
        /\ to = "done" => /\ answer' = [answer EXCEPT ![r] = "ok"]
                          /\ shown' = [shown EXCEPT ![r] = draft[r]]
        /\ to = "lost" => answer' = answer /\ shown' = shown
    BY DEF Commit
<1>3. row' \in KeyRow /\ NoSnapshot \in KeyRow /\ behind' \in Seq(KeyRow)
    <2>1. row' \in KeyRow /\ NoSnapshot \in KeyRow
        BY <1>1, WrittenIsRow DEF NoSnapshot, KeyRow
    <2>2. Append(behind, row) \in Seq(KeyRow)
        BY DEF Types
    <2> QED
        BY <1>1, <2>1, <2>2 DEF Types
<1>4. /\ row'.key \in 1 .. drawn /\ row.key <= row'.key
      /\ call[r].op = "generate" => row'.key = draft[r]
      /\ call[r].op # "generate" => row'.key = row.key /\ draft[r] = 0
    BY <1>1, WrittenIsRow DEF KeysInOrder, Newer, Types, KeyRow
<1>5. KeysInOrder' /\ stored' \subseteq 1 .. drawn
    BY <1>1, <1>4 DEF KeysInOrder, Types, KeyRow
<1>6. beaten' \in [Request -> BOOLEAN] /\ \A s \in Request \ {r} : beaten[s] => beaten'[s]
    <2>1. Beat \in [Request -> BOOLEAN] /\ \A s \in Request : beaten[s] => Beat[s]
        BY DEF Beat, Types
    <2> HIDE DEF KInv
    <2>2. CASE Writes(r)
        BY <1>1, <2>1, <2>2
    <2>3. CASE ~Writes(r)
        <3>1. beaten' = beaten
            BY <1>1, <2>3
        <3>2. beaten \in [Request -> BOOLEAN]
            BY DEF KInv, Types
        <3> QED
            BY <3>1, <3>2, Zenon
    <2> QED
        BY <2>2, <2>3
<1>7. /\ answer' \in [Request -> {"none", "ok", "refused", "error"}]
      /\ shown' \in [Request -> 0 .. drawn]
    <2>1. CASE to = "done"
        <3>1. draft[r] \in 0 .. drawn
            BY DEF Types
        <3> QED
            BY <1>2, <2>1, <3>1 DEF Types
    <2>2. CASE to = "lost"
        BY <1>2, <2>2 DEF Types
    <2> QED
        BY <2>1, <2>2
<1>8. TypeOK'
    <2>1. pc' \in [Request -> Label]
        BY <1>2 DEF Close, Goto, Types, Label
    <2>2. /\ draft' \in [Request -> 0 .. drawn] /\ snap' \in [Request -> KeyRow]
          /\ stamp' \in [Request -> Nat \cup {Never}]
        BY <1>2, <1>3 DEF Close, Types
    <2> QED
        BY <1>1, <1>3, <1>5, <1>6, <1>7, <2>1, <2>2, TypesHoldNext DEF Types
<1>9. ASSUME NEW s \in Request \ {r} PROVE Sound(s)' /\ Covered(s)' /\ Newer(s)' /\ Fresh(s)'
    <2>1. Bystander(s)
        <3>1. answer'[s] = answer[s] /\ shown'[s] = shown[s]
            BY <1>2 DEF Types
        <3> QED
            BY <1>1, <1>2, <1>6, <3>1 DEF Close, Goto, Bystander, Types
    <2>2. ASSUME ~SameKey(row', row), Writes(s)
          PROVE  pc[s] # "commit" /\ (pc[s] \in Open => beaten'[s])
        <3>1. Writes(r)
            BY <1>1, <2>2 DEF Writes, Written, SameKey
        <3>2. pc[s] # "commit"
            BY <1>1, <2>2, <3>1 DEF OneHolder, Holds
        <3>3. pc[s] \in Open => beaten'[s]
            BY <1>1, <2>2, <3>1 DEF Beat, Open, Types
        <3> QED
            BY <3>2, <3>3
    <2>3. Spared(s)
        BY <2>2 DEF Spared
    <2> QED
        BY <1>1, <2>1, <2>3, BystanderKeeps DEF Types
<1>10. Sound(r)'
    BY <1>1, <1>2 DEF Close, Goto, Sound, Types
<1>11. Covered(r)'
    BY <1>1, <1>2 DEF Close, Goto, Covered, Sound, Types
<1>12. Newer(r)'
    <2>1. shown'[r] # 0 => shown'[r] \in stored'
        <3>1. CASE to = "done"
            <4>1. shown'[r] = draft[r]
                BY <1>2, <3>1 DEF Types
            <4>2. draft[r] # 0 => draft[r] = Written(r).key
                BY <1>1, <1>4
            <4> QED
                BY <1>1, <4>1, <4>2
        <3>2. CASE to = "lost"
            BY <1>1, <1>2, <3>2 DEF Newer
        <3> QED
            BY <3>1, <3>2
    <2> QED
        BY <1>2, <2>1 DEF Close, Goto, Newer, Types
<1>14. Fresh(r)'
    BY <1>1, <1>2 DEF Close, Goto, Fresh, Open, Types
<1>13. OneHolder'
    BY <1>1, <1>2, HoldersStay DEF Close, Goto, Types
<1> QED
    BY <1>5, <1>8, <1>9, <1>10, <1>11, <1>12, <1>13, <1>14

\* A request whose worker dies holds nothing any more.
LEMMA CrashKeeps == ASSUME KInv, NEW r \in Request, Crash(r) PROVE KInv'
<1> USE TypesHold DEF KInv
<1>1. /\ Close(r, "lost") /\ pc[r] # "done"
      /\ beaten' = [beaten EXCEPT ![r] = FALSE]
      /\ UNCHANGED <<now, row, behind, drawn, stored, call, tries, covered, answer, shown>>
    BY DEF Crash
<1>2. NoSnapshot \in KeyRow
    BY DEF NoSnapshot, KeyRow
<1>3. TypeOK'
    BY <1>1, <1>2, TypesHoldNext DEF Close, Goto, Types, Label
<1>4. Private(r)
    BY <1>1 DEF Close, Goto, Private, Bystander, Types
<1>5. Sound(r)' /\ Covered(r)' /\ Newer(r)' /\ Fresh(r)'
    BY <1>1 DEF Close, Goto, Sound, Covered, Newer, Fresh, Open, Types
<1>6. KeysInOrder' /\ OneHolder'
    BY <1>1, RowStays, HoldersStay DEF Close, Goto, Types
<1> QED
    BY <1>3, <1>4, <1>5, <1>6, PrivateKeeps

\* Time passes: a key that verifies later was usable before.
LEMMA TickKeeps == ASSUME KInv, Tick PROVE KInv'
<1> USE TypesHold DEF KInv
<1>1. /\ now' = now + 1 /\ now' \in 0 .. MaxClock
      /\ UNCHANGED <<row, behind, drawn, stored, pc, call, tries, snap, beaten, draft, stamp,
                     covered, answer, shown>>
    BY ConstantsAssumption DEF Tick, Types
<1>2. TypeOK'
    BY <1>1, TypesHoldNext DEF Types
<1>3. ASSUME NEW r \in Request PROVE Sound(r)' /\ Covered(r)' /\ Newer(r)' /\ Fresh(r)'
    <2>1. Bystander(r) /\ Spared(r)
        BY <1>1 DEF Bystander, Spared, SameKey
    <2> QED
        BY <1>1, <2>1, BystanderKeeps DEF Types
<1>4. KeysInOrder' /\ OneHolder'
    BY <1>1, RowStays, HoldersStay DEF Types
<1> QED
    BY <1>2, <1>3, <1>4

\* The replica catches up: nothing of it is on the primary.
LEMMA ReplicateKeeps == ASSUME KInv, Replicate PROVE KInv'
<1> USE TypesHold DEF KInv
<1>1. /\ behind # <<>> /\ behind' = Tail(behind)
      /\ UNCHANGED <<now, row, drawn, stored, pc, call, tries, snap, beaten, draft, stamp,
                     covered, answer, shown>>
    BY DEF Replicate
<1>2. behind' \in Seq(KeyRow)
    BY <1>1 DEF Types
<1>3. TypeOK'
    BY <1>1, <1>2, TypesHoldNext DEF Types
<1>4. ASSUME NEW r \in Request PROVE Sound(r)' /\ Covered(r)' /\ Newer(r)' /\ Fresh(r)'
    <2>1. Bystander(r) /\ Spared(r)
        BY <1>1 DEF Bystander, Spared, SameKey
    <2> QED
        BY <1>1, <2>1, BystanderKeeps DEF Types
<1>5. KeysInOrder' /\ OneHolder'
    BY <1>1, RowStays, HoldersStay DEF Types
<1> QED
    BY <1>3, <1>4, <1>5

\* Nothing happens.
LEMMA StutterKeeps == ASSUME KInv, UNCHANGED vars PROVE KInv'
<1>1. TypeOK'
    BY DEF vars, KInv, TypeOK
<1>2. ASSUME NEW r \in Request PROVE Sound(r)' /\ Covered(r)' /\ Newer(r)' /\ Fresh(r)'
    BY DEF vars, KInv, Sound, Covered, Newer, Fresh, Writes, SameKey, Authenticate
<1>3. KeysInOrder' /\ OneHolder'
    BY DEF vars, KInv, KeysInOrder, OneHolder, Holds, Writes
<1> QED
    BY <1>1, <1>2, <1>3 DEF KInv

\* The invariant is kept by every step.
LEMMA KInvNext == ASSUME KInv, [Next]_vars PROVE KInv'
<1>1. ASSUME NEW r \in Request,
             \/ Arrive(r) \/ Begin(r) \/ Verify(r) \/ Touch(r) \/ TouchFailed(r) \/ Serve(r)
             \/ Flush(r) \/ Conflict(r) \/ Commit(r) \/ Crash(r)
      PROVE  KInv'
    BY <1>1, ArriveKeeps, BeginKeeps, VerifyKeeps, TouchKeeps, TouchFailedKeeps, ServeKeeps,
       FlushKeeps, ConflictKeeps, CommitKeeps, CrashKeeps
<1>2. CASE Tick \/ Replicate
    BY <1>2, TickKeeps, ReplicateKeeps
<1>3. CASE Idle \/ UNCHANGED vars
    BY <1>3, StutterKeeps DEF Idle
<1> QED
    BY <1>1, <1>2, <1>3 DEF Next

\* KInv holds of every state of every behaviour.
LEMMA KInvAlways == Spec => []KInv
    BY KInvInit, KInvNext, PTL DEF Spec

----------------------------------------------------------------------------
(* What the invariant gives *)

\* Every row, snapshot and answer has its type, and no request is attempted more
\* often than the dispatcher's retries allow.
THEOREM TypeCorrect == Spec => []TypeOK
<1>1. KInv => TypeOK
    BY DEF KInv
<1> QED
    BY <1>1, KInvAlways, PTL

\* Whoever is served on the strength of a key presented the row's own, active and
\* unexpired one when the last attempt began, unless a replica could not know better.
THEOREM DeadKeyRefused == Spec => []DeadKeyIsRefused
<1>1. KInv => DeadKeyIsRefused
    BY DEF KInv, Covered, DeadKeyIsRefused
<1> QED
    BY <1>1, KInvAlways, PTL

\* The raw key that a user was shown is stored, and every key it replaced is dead
\* for good, whichever generations, uses and retries overlap.
THEOREM ShownKeyIsTheRows == Spec => []ShownKeyReplacesAll
<1>1. KInv => ShownKeyReplacesAll
    BY DEF KInv, Newer, KeysInOrder, ShownKeyReplacesAll
<1> QED
    BY <1>1, KInvAlways, PTL

\* What a manager did to the key stands until another, who saw it, does otherwise:
\* the first updater of the row wins, and the record of a use, written past the
\* request's snapshot, leaves the key and its active field alone.
THEOREM ManagementStands == Spec => NoManagementIsLost
<1> DEFINE Seen ==
        \E r \in Request :
            /\ Holds(r) /\ pc'[r] # "commit"
            /\ SameKey(snap[r], row)
            /\ row'.key # row.key => call[r].op = "generate" /\ row'.key = draft[r]
            /\ row'.active # row.active => call[r].op \in {"archive", "toggle"}
<1>1. ASSUME KInv, [Next]_vars PROVE ~SameKey(row', row) => Seen
    <2> USE TypesHold DEF KInv
    <2> SUFFICES ASSUME ~SameKey(row', row) PROVE Seen
        OBVIOUS
    <2>1. ASSUME NEW r \in Request, Touch(r) PROVE FALSE
        BY <2>1 DEF Touch, Store, SameKey, Types, KeyRow
    <2>2. ASSUME NEW r \in Request, Commit(r) PROVE Seen
        <3>1. PICK to \in {"done", "lost"} : pc' = [pc EXCEPT ![r] = to]
            BY <2>2 DEF Commit, Close, Goto
        <3>2. pc[r] = "commit" /\ row' = Written(r)
            BY <2>2 DEF Commit, Store
        <3>3. Writes(r)
            BY <1>1, <2>2, <3>2 DEF Writes, Written, SameKey
        <3>4. SameKey(snap[r], row)
            BY <1>1, <3>2, <3>3 DEF Fresh
        <3>5. row'.key # row.key => call[r].op = "generate" /\ row'.key = draft[r]
            BY <1>1, <3>2, WrittenIsRow
        <3>6. row'.active # row.active => call[r].op \in {"archive", "toggle"}
            BY <1>1, <3>2 DEF Written, Types, KeyRow
        <3> QED
            BY <1>1, <3>1, <3>2, <3>3, <3>4, <3>5, <3>6 DEF Holds, Types
    <2>3. ASSUME NEW r \in Request,
                 \/ Arrive(r) \/ Begin(r) \/ Verify(r) \/ TouchFailed(r) \/ Serve(r)
                 \/ Flush(r) \/ Conflict(r) \/ Crash(r)
          PROVE  FALSE
        BY <2>3 DEF Arrive, Begin, Verify, TouchFailed, Serve, Flush, Conflict, Crash, SameKey
    <2>4. CASE Tick \/ Replicate \/ Idle \/ UNCHANGED vars
        BY <2>4 DEF Tick, Replicate, Idle, vars, SameKey
    <2>5. CASE \E r \in Request :
                  \/ Arrive(r) \/ Begin(r) \/ Verify(r) \/ Touch(r) \/ TouchFailed(r)
                  \/ Serve(r) \/ Flush(r) \/ Conflict(r) \/ Commit(r) \/ Crash(r)
        BY <2>1, <2>2, <2>3, <2>5
    <2> QED
        BY <1>1, <2>4, <2>5 DEF Next
<1>2. KInv /\ [Next]_vars => (~SameKey(row', row) => Seen)
    BY <1>1
<1> QED
    BY <1>2, KInvAlways, PTL DEF Spec, NoManagementIsLost

====
