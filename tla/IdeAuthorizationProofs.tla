----------------------- MODULE IdeAuthorizationProofs -----------------------
(***************************************************************************)
(* Type correctness of IdeAuthorization, and that no tokens come to be     *)
(* without an approval, for any number of logins, slots and pairs, under   *)
(* every overlap of calls and every failure.  The inductive invariant says *)
(* of each call what the copy it works on still tells of the database.     *)
(*                                                                         *)
(* The second half is about calls that follow one another (TurnInv).       *)
(***************************************************************************)
EXTENDS IdeAuthorization, TLAPS

\* Row i was made for a login whose approval was saved.
Approved(i) == owner[i] # NoLogin /\ "authorized" \in decisions[owner[i]]

\* The call is about to store a pair it made.
Pending(c) == c.op \in {"poll", "refresh"} /\ c.pc = "save"

\* The call has stored a pair and is about to hand it out.
HandsOut(c) == (c.op = "poll" /\ c.pc = "delete" /\ c.new # None) \/ c.answer = "tokens"

\* What each kind of call works on.
SubjectOK(c) ==
  /\ c.op \in Decided \cup {"poll"} => c.login \in Logins
  /\ c.op \in {"refresh", "validate"} => c.old \in Pairs
  /\ c.op = "revoke" => c.row \in Pairs
  /\ c.pc = "read" => c.new = None

\* The pair about to be stored is new, and its row that of an approved login.
StoreOK(c) == Pending(c) =>
  /\ c.new \in Pairs /\ c.new <= made /\ home[c.new] = None
  /\ c.op = "poll" => c.row = c.new /\ "authorized" \in decisions[c.login]
  /\ c.op = "refresh" => c.row \in Pairs /\ Approved(c.row)

\* The copy a validation writes back belongs to its row.
CopyOK(c) == c.op = "validate" /\ c.pc = "save" =>
  c.row \in Pairs /\ home[c.old] = c.row /\ Approved(c.row)

HandOutOK(c) == HandsOut(c) =>
  c.new \in Pairs /\ home[c.new] \in Pairs /\ Approved(home[c.new])

CallOK(c) == SubjectOK(c) /\ StoreOK(c) /\ CopyOK(c) /\ HandOutOK(c)

CodesOK == \A f \in Logins : code[f] = "authorized" => "authorized" \in decisions[f]
RowsOK  == \A i \in Pairs : row[i] # None => home[row[i]] = i /\ Approved(i)
HeldOK  == held # None => home[held] \in Pairs /\ Approved(home[held])
FreshOK == \A p \in Pairs : p > made => home[p] = None
CallsOK == \A s \in Slots : CallOK(call[s])

\* No two calls store the same pair.
Distinct == \A s, t \in Slots :
  s # t /\ Pending(call[s]) /\ Pending(call[t]) => call[s].new # call[t].new

\* Only a login that runs has an interval or a prompt: an invariant by itself.
TimerOK ==
  /\ current \in Logins \cup {NoLogin} /\ timer \in {"off", "prompt", "on"}
  /\ timer # "off" => current \in Logins

Inv == TypeOK /\ CodesOK /\ RowsOK /\ HeldOK /\ FreshOK /\ CallsOK /\ Distinct

USE NoLoginAssumption, BoundAssumption DEF Pairs, None

LEMMA FreeOK == Free \in Calls /\ CallOK(Free)
  BY DEF Free, Calls, Ops, Steps, Answers, Decided, CallOK, SubjectOK, StoreOK, CopyOK, HandOutOK, Pending, HandsOut

LEMMA InitInv == Init => Inv
<1> SUFFICES ASSUME Init PROVE Inv
  OBVIOUS
<1>1. TypeOK
  BY FreeOK DEF Init, TypeOK, CodeStates, Decided
<1>2. CallsOK
  BY FreeOK DEF Init, CallsOK
<1>3. Distinct
  BY DEF Init, Distinct, Pending, Free
<1> QED
  BY <1>1, <1>2, <1>3 DEF Init, Inv, CodesOK, RowsOK, HeldOK, FreshOK

-----------------------------------------------------------------------------
(* Steps that only move a call on. *)

\* What a call becomes by Reply and by Move.
LEMMA ReplyCall ==
  ASSUME TypeOK, NEW s \in Slots, NEW a \in Answers, Reply(s, a)
  PROVE  /\ [call[s] EXCEPT !.pc = "answer", !.answer = a] \in Calls
         /\ call' = [call EXCEPT ![s] = [call[s] EXCEPT !.pc = "answer", !.answer = a]]
<1> DEFINE c == [call[s] EXCEPT !.pc = "answer", !.answer = a]
<1>1. call \in [Slots -> Calls] /\ call[s] \in Calls
  BY DEF TypeOK
<1>2. c \in Calls
  BY <1>1 DEF Calls, Steps
<1>3. call' = [t \in Slots |-> IF t = s THEN c ELSE call[t]]
  BY <1>1 DEF Reply, Calls
<1>4. [call EXCEPT ![s] = c] = [t \in Slots |-> IF t = s THEN c ELSE call[t]]
  BY <1>1
<1> QED  BY <1>2, <1>3, <1>4

LEMMA ReplyTypes ==
  ASSUME TypeOK, NEW s \in Slots, NEW a \in Answers, Reply(s, a)
  PROVE  call' \in [Slots -> Calls]
  BY ReplyCall DEF TypeOK

LEMMA MoveCall ==
  ASSUME TypeOK, NEW s \in Slots, NEW pc \in Steps, Move(s, pc)
  PROVE  /\ [call[s] EXCEPT !.pc = pc] \in Calls
         /\ call' = [call EXCEPT ![s] = [call[s] EXCEPT !.pc = pc]]
<1>1. call \in [Slots -> Calls] /\ call[s] \in Calls
  BY DEF TypeOK
<1>2. [call[s] EXCEPT !.pc = pc] \in Calls
  BY <1>1 DEF Calls
<1>3. call' = [call EXCEPT ![s] = [call[s] EXCEPT !.pc = pc]]
  BY <1>1 DEF Move
<1> QED  BY <1>2, <1>3

LEMMA MoveTypes ==
  ASSUME TypeOK, NEW s \in Slots, NEW pc \in Steps, Move(s, pc)
  PROVE  call' \in [Slots -> Calls]
  BY MoveCall DEF TypeOK

LEMMA MakeTypes ==
  ASSUME TypeOK, NEW s \in Slots, NEW i \in Pairs, made < MaxPairs,
         call' = [call EXCEPT ![s].pc = "save", ![s].row = i, ![s].new = made + 1]
  PROVE  call' \in [Slots -> Calls]
<1> DEFINE c == [call[s] EXCEPT !.pc = "save", !.row = i, !.new = made + 1]
<1>1. call \in [Slots -> Calls] /\ call[s] \in Calls
      /\ i \in 0 .. MaxPairs /\ made + 1 \in 0 .. MaxPairs
  BY DEF TypeOK
<1>2. [call[s] EXCEPT !.pc = "save"] \in Calls
  BY <1>1 DEF Calls, Steps
<1>3. c \in Calls
  BY <1>1, <1>2 DEF Calls
<1>4. call' = [t \in Slots |-> IF t = s THEN c ELSE call[t]]
  BY <1>1 DEF Calls
<1> QED  BY <1>1, <1>3, <1>4

\* A step that gives one slot a call that is right and stores no pair, and takes back
\* no decision, keeps what is said of calls.
LEMMA QuietStep ==
  ASSUME Inv, NEW s \in Slots, NEW c \in Calls, CallOK(c), ~Pending(c),
         call' = [call EXCEPT ![s] = c],
         UNCHANGED <<home, owner, made>>,
         \A f \in Logins : decisions[f] \subseteq decisions'[f],
         TypeOK', CodesOK', RowsOK', HeldOK'
  PROVE  Inv'
<1>1. FreshOK'
  BY DEF Inv, FreshOK
<1>2. \A t \in Slots : call'[t] = IF t = s THEN c ELSE call[t]
  BY DEF Inv, TypeOK
<1>3. \A i \in Pairs : Approved(i) => Approved(i)'
  BY DEF Inv, TypeOK, Approved
<1>4. ASSUME NEW t \in Slots PROVE CallOK(call[t])'
  <2>1. call'[t] \in Calls /\ CallOK(call'[t])
    BY <1>2 DEF Inv, TypeOK, CallsOK
  <2> QED  BY <2>1, <1>3 DEF CallOK, SubjectOK, StoreOK, CopyOK, HandOutOK, Approved, Pending, HandsOut
<1>5. Distinct'
  BY <1>2 DEF Inv, Distinct, Pending
<1> QED  BY <1>1, <1>4, <1>5 DEF Inv, CallsOK

\* The same for a slot that has made a pair and is about to store it.
LEMMA MakeStep ==
  ASSUME Inv, NEW s \in Slots, NEW i \in Pairs, made < MaxPairs,
         made' = made + 1,
         call' = [call EXCEPT ![s].pc = "save", ![s].row = i, ![s].new = made + 1],
         call[s].answer # "tokens",
         \/ call[s].op = "poll" /\ i = made + 1 /\ "authorized" \in decisions[call[s].login]
         \/ call[s].op = "refresh" /\ Approved(i),
         UNCHANGED <<code, row, home, owner, decisions, held>>,
         TypeOK'
  PROVE  Inv'
<1> DEFINE c == [call[s] EXCEPT !.pc = "save", !.row = i, !.new = made + 1]
<1>1. call \in [Slots -> Calls] /\ call[s] \in Calls /\ made \in Nat /\ made + 1 \in Pairs
  BY DEF Inv, TypeOK
<1>2. c \in Calls
  <2>1. [call[s] EXCEPT !.pc = "save"] \in Calls
    BY <1>1 DEF Calls, Steps
  <2>2. i \in 0 .. MaxPairs /\ made + 1 \in 0 .. MaxPairs
    BY <1>1
  <2> QED  BY <2>1, <2>2 DEF Calls
<1>a. c.new = made + 1 /\ c.row = i /\ c.pc = "save" /\ c.op = call[s].op
      /\ c.login = call[s].login /\ c.old = call[s].old /\ c.answer = call[s].answer
  BY <1>1 DEF Calls
<1>3. \A t \in Slots : call'[t] = IF t = s THEN c ELSE call[t]
  BY <1>1 DEF Calls
<1>4. CodesOK' /\ RowsOK' /\ HeldOK' /\ FreshOK' /\ home[made + 1] = None
  BY <1>1 DEF Inv, CodesOK, RowsOK, HeldOK, FreshOK, Approved
<1>5. ASSUME NEW t \in Slots PROVE CallOK(call[t])'
  <2>1. CASE t = s
    <3>1. CallOK(call[s])
      BY DEF Inv, CallsOK
    <3> HIDE DEF c
    <3>2. call'[t] = c
      BY <2>1, <1>3
    <3>3. SubjectOK(call[t])' /\ CopyOK(call[t])' /\ HandOutOK(call[t])'
      BY <3>1, <3>2, <1>a DEF CallOK, SubjectOK, CopyOK, HandOutOK, HandsOut, Decided
    <3>4. StoreOK(call[t])'
      BY <3>2, <1>1, <1>a, <1>4 DEF StoreOK, Approved
    <3> QED  BY <3>3, <3>4 DEF CallOK
  <2>2. CASE t # s
    <3>1. call'[t] = call[t] /\ call[t] \in Calls /\ CallOK(call[t])
      BY <2>2, <1>1, <1>3 DEF Inv, CallsOK
    <3>2. StoreOK(call[t])'
      <4>1. \A n \in Pairs : n <= made => n <= made'
        BY <1>1
      <4>2. Pending(call[t])' => Pending(call[t])
        BY <3>1 DEF Pending
      <4> QED  BY <3>1, <4>1, <4>2 DEF CallOK, StoreOK, Approved
    <3>3. SubjectOK(call[t])' /\ CopyOK(call[t])' /\ HandOutOK(call[t])'
      BY <3>1 DEF CallOK, SubjectOK, CopyOK, HandOutOK, HandsOut, Approved
    <3> QED  BY <3>2, <3>3 DEF CallOK
  <2> QED  BY <2>1, <2>2
<1>6. Distinct'
  <2> SUFFICES ASSUME NEW t \in Slots, NEW u \in Slots, t # u,
                      Pending(call[t])', Pending(call[u])'
               PROVE  call'[t].new # call'[u].new
    BY DEF Distinct
  <2>1. \A v \in Slots : v # s /\ Pending(call[v])' =>
          call'[v] = call[v] /\ Pending(call[v]) /\ call[v].new \in Pairs /\ call[v].new <= made
    BY ZenonT(20), <1>3 DEF Inv, CallsOK, CallOK, SubjectOK, StoreOK, Pending
  <2> HIDE DEF c
  <2> QED  BY <2>1, <1>1, <1>a, <1>3 DEF Inv, Distinct
<1> QED  BY <1>4, <1>5, <1>6 DEF Inv, CallsOK

\* The same for a slot that stores the pair it made, in its row: it hands it out next.
LEMMA StoreStep ==
  ASSUME Inv, NEW s \in Slots, Pending(call[s]), NEW c \in Calls,
         NEW n, NEW i, n = call[s].new, i = call[s].row,
         call' = [call EXCEPT ![s] = c],
         c.new = n, c.row = i, c.op = call[s].op, c.login = call[s].login,
         c.old = call[s].old, c.pc \in {"delete", "answer"},
         row' = [row EXCEPT ![i] = n], home' = [home EXCEPT ![n] = i],
         \/ call[s].op = "refresh" /\ owner' = owner
         \/ call[s].op = "poll" /\ owner' = [owner EXCEPT ![i] = call[s].login],
         UNCHANGED <<code, decisions, made, held>>,
         TypeOK'
  PROVE  Inv'
<1>1. /\ n \in Pairs /\ n <= made /\ home[n] = None /\ i \in Pairs
      /\ call[s].op = "poll" => call[s].login \in Logins
                                  /\ "authorized" \in decisions[call[s].login]
      /\ call[s].op = "refresh" => Approved(i)
  BY DEF Inv, CallsOK, CallOK, SubjectOK, StoreOK, Pending
<1>2. Approved(i)'
  BY <1>1 DEF Inv, TypeOK, Approved
<1>3. \A j \in Pairs : Approved(j) => Approved(j)'
  <2> SUFFICES ASSUME NEW j \in Pairs, Approved(j) PROVE Approved(j)'
    OBVIOUS
  <2>1. CASE j = i
    BY <2>1, <1>2
  <2>2. CASE j # i
    BY <2>2, <1>1 DEF Inv, TypeOK, Approved
  <2> QED  BY <2>1, <2>2
<1>4. /\ \A p \in Pairs : home'[p] = IF p = n THEN i ELSE home[p]
      /\ \A j \in Pairs : row'[j] = IF j = i THEN n ELSE row[j]
      /\ \A t \in Slots : call'[t] = IF t = s THEN c ELSE call[t]
      /\ row \in [Pairs -> 0 .. MaxPairs]
  BY DEF Inv, TypeOK
<1>5. RowsOK'
  <2> SUFFICES ASSUME NEW j \in Pairs, row'[j] # None
               PROVE  home'[row'[j]] = j /\ Approved(j)'
    BY DEF RowsOK, Approved
  <2>1. CASE j = i
    BY <2>1, <1>1, <1>2, <1>4
  <2>2. CASE j # i
    <3>1. row'[j] = row[j] /\ row[j] \in Pairs /\ home[row[j]] = j /\ Approved(j)
      BY <2>2, <1>4 DEF Inv, RowsOK
    <3> QED  BY <3>1, <1>1, <1>3, <1>4
  <2> QED  BY <2>1, <2>2
<1>6. HeldOK'
  <2>1. held # None => held \in Pairs /\ home[held] \in Pairs /\ Approved(home[held])
    BY DEF Inv, HeldOK, TypeOK
  <2>2. held # None => home'[held] = home[held]
    BY <2>1, <1>1, <1>4
  <2> QED  BY <2>1, <2>2, <1>3 DEF HeldOK, Approved
<1>7. CodesOK' /\ FreshOK'
  <2>1. made \in Nat /\ made' = made
    BY DEF Inv, TypeOK
  <2>2. FreshOK'
    BY <1>1, <1>4, <2>1 DEF Inv, FreshOK
  <2>3. CodesOK'
    BY DEF Inv, CodesOK
  <2> QED  BY <2>2, <2>3
<1>8. ASSUME NEW t \in Slots PROVE CallOK(call[t])'
  <2>1. CASE t = s
    <3>1. call'[t] = c /\ CallOK(call[s])
      BY <2>1, <1>4 DEF Inv, CallsOK
    <3>2. HandOutOK(call[t])'
      <4>1. call'[t].new = n /\ n \in Pairs /\ home'[n] = i /\ i \in Pairs
        BY <3>1, <1>1, <1>4
      <4> QED  BY <4>1, <1>2 DEF HandOutOK, Approved
    <3>3. SubjectOK(call[t])' /\ StoreOK(call[t])' /\ CopyOK(call[t])'
      BY <3>1, <1>1 DEF CallOK, SubjectOK, StoreOK, CopyOK, Pending
    <3> QED  BY <3>2, <3>3 DEF CallOK
  <2>2. CASE t # s
    <3>1. call'[t] = call[t] /\ call[t] \in Calls /\ CallOK(call[t])
      BY <2>2, <1>4 DEF Inv, CallsOK, TypeOK
    <3>2. Pending(call[t]) => call[t].new # n
      BY <2>2 DEF Inv, Distinct
    <3>3. StoreOK(call[t])'
      <4>1. Pending(call[t])' <=> Pending(call[t])
        BY <3>1 DEF Pending
      <4>2. Pending(call[t]) =>
              /\ call[t].new \in Pairs /\ call[t].new <= made /\ home[call[t].new] = None
              /\ call[t].op = "poll" => call[t].row = call[t].new
                                          /\ "authorized" \in decisions[call[t].login]
              /\ call[t].op = "refresh" => call[t].row \in Pairs /\ Approved(call[t].row)
        BY <3>1 DEF CallOK, StoreOK
      <4>3. Pending(call[t]) => home'[call[t].new] = None
        BY <4>2, <3>2, <1>4
      <4>4. Pending(call[t]) /\ call[t].op = "refresh" => Approved(call[t].row)'
        BY <4>2, <3>1, <1>3 DEF Approved
      <4> QED  BY <3>1, <4>1, <4>2, <4>3, <4>4 DEF StoreOK
    <3>4. CopyOK(call[t])'
      <4> DEFINE copies == call[t].op = "validate" /\ call[t].pc = "save"
      <4>1. copies => /\ call[t].old \in Pairs /\ call[t].row \in Pairs
                      /\ home[call[t].old] = call[t].row /\ Approved(call[t].row)
        BY <3>1 DEF CallOK, SubjectOK, CopyOK
      <4>2. copies => home'[call[t].old] = call[t].row
        BY SMTT(20), <4>1, <1>1, <1>4
      <4>3. copies => Approved(call[t].row)'
        BY <4>1, <3>1, <1>3 DEF Approved
      <4> QED  BY <3>1, <4>1, <4>2, <4>3 DEF CopyOK
    <3>5. HandOutOK(call[t])'
      <4>1. HandsOut(call[t])' => HandsOut(call[t])
        BY <3>1 DEF HandsOut
      <4>2. HandsOut(call[t]) => /\ call[t].new \in Pairs /\ home[call[t].new] \in Pairs
                                 /\ Approved(home[call[t].new])
        BY <3>1 DEF CallOK, HandOutOK
      <4>3. HandsOut(call[t]) => home'[call[t].new] = home[call[t].new]
        BY <4>2, <1>1, <1>4
      <4> QED  BY <3>1, <4>1, <4>2, <4>3, <1>3 DEF HandOutOK, Approved
    <3>6. SubjectOK(call[t])'
      BY <3>1 DEF CallOK, SubjectOK
    <3> QED  BY <3>3, <3>4, <3>5, <3>6 DEF CallOK
  <2> QED  BY <2>1, <2>2
<1>9. Distinct'
  BY <1>4 DEF Inv, Distinct, Pending
<1> QED  BY <1>5, <1>6, <1>7, <1>8, <1>9 DEF Inv, CallsOK

-----------------------------------------------------------------------------
(* Those lemmas, for the ways in which calls move on. *)

\* Nothing that rows, pairs, decisions and the extension say has changed.
DataUnchanged == UNCHANGED <<row, home, owner, decisions, held, code>>

LEMMA DataStep ==
  ASSUME Inv, DataUnchanged
  PROVE  /\ CodesOK' /\ RowsOK' /\ HeldOK'
         /\ \A f \in Logins : decisions[f] \subseteq decisions'[f]
  BY DEF Inv, DataUnchanged, CodesOK, RowsOK, HeldOK, Approved

LEMMA ReplyStep ==
  ASSUME Inv, NEW s \in Slots, NEW a \in Answers \ {"tokens"}, Reply(s, a),
         UNCHANGED <<home, owner, made>>,
         \A f \in Logins : decisions[f] \subseteq decisions'[f],
         TypeOK', CodesOK', RowsOK', HeldOK'
  PROVE  Inv'
<1> DEFINE c == [call[s] EXCEPT !.pc = "answer", !.answer = a]
<1>1. c \in Calls /\ call' = [call EXCEPT ![s] = c] /\ call[s] \in Calls /\ CallOK(call[s])
  BY ReplyCall DEF Inv, TypeOK, CallsOK
<1>2. c.pc = "answer" /\ c.answer = a /\ c.op = call[s].op /\ c.login = call[s].login
      /\ c.old = call[s].old /\ c.row = call[s].row
  BY <1>1 DEF Calls
<1> HIDE DEF c
<1>3. CallOK(c) /\ ~Pending(c)
  BY <1>1, <1>2 DEF CallOK, SubjectOK, StoreOK, CopyOK, HandOutOK, Pending, HandsOut
<1> QED  BY <1>1, <1>3, QuietStep

LEMMA MoveStep ==
  ASSUME Inv, NEW s \in Slots, NEW pc \in {"expire", "delete", "save"}, Move(s, pc),
         pc = "save" => call[s].op \in Decided,
         pc = "delete" /\ call[s].op = "poll" => call[s].new = None,
         UNCHANGED <<home, owner, made>>,
         \A f \in Logins : decisions[f] \subseteq decisions'[f],
         TypeOK', CodesOK', RowsOK', HeldOK'
  PROVE  Inv'
<1> DEFINE c == [call[s] EXCEPT !.pc = pc]
<1>1. c \in Calls /\ call' = [call EXCEPT ![s] = c] /\ call[s] \in Calls /\ CallOK(call[s])
  <2>1. pc \in Steps
    BY DEF Steps
  <2>2. TypeOK /\ call[s] \in Calls /\ CallOK(call[s])
    BY DEF Inv, TypeOK, CallsOK
  <2> QED  BY <2>1, <2>2, MoveCall
<1>2. c.pc = pc /\ c.answer = call[s].answer /\ c.op = call[s].op /\ c.login = call[s].login
      /\ c.old = call[s].old /\ c.row = call[s].row /\ c.new = call[s].new
  BY <1>1 DEF Calls
<1> HIDE DEF c
<1>3. SubjectOK(c)
  BY <1>1, <1>2 DEF CallOK, SubjectOK
<1>4. ~Pending(c) /\ CopyOK(c)
  BY <1>2 DEF Pending, CopyOK, Decided
<1>5. HandOutOK(c)
  BY <1>1, <1>2 DEF CallOK, HandOutOK, HandsOut
<1> QED  BY <1>1, <1>3, <1>4, <1>5, QuietStep DEF CallOK, StoreOK

\* A slot that is freed, or given a request that has yet to be read.
LEMMA NewCallStep ==
  ASSUME Inv, NEW s \in Slots, NEW c \in Calls, SubjectOK(c), c.pc \in {"idle", "read"},
         c.answer = "none",
         call' = [call EXCEPT ![s] = c],
         UNCHANGED <<row, code, home, owner, made, decisions>>, TypeOK', HeldOK'
  PROVE  Inv'
<1>1. CodesOK' /\ RowsOK'
  BY DEF Inv, CodesOK, RowsOK, Approved
<1>2. CallOK(c) /\ ~Pending(c)
  BY DEF CallOK, StoreOK, CopyOK, HandOutOK, Pending, HandsOut
<1> QED  BY <1>1, <1>2, QuietStep

\* A slot that keeps its call while the calls of others do: steps of no slot.
LEMMA NoCallStep ==
  ASSUME Inv, UNCHANGED <<call, row, home, owner, made, decisions, held>>, TypeOK', CodesOK'
  PROVE  Inv'
<1>1. RowsOK' /\ HeldOK' /\ FreshOK' /\ Distinct'
  BY DEF Inv, RowsOK, HeldOK, FreshOK, Distinct, Approved, Pending
<1>2. CallsOK'
  BY DEF Inv, CallsOK, CallOK, SubjectOK, StoreOK, CopyOK, HandOutOK,
         Approved, Pending, HandsOut
<1> QED  BY <1>1, <1>2 DEF Inv

-----------------------------------------------------------------------------
(* The actions. *)

USE DEF dbVars, clockVars, clientVars, historyVars

LEMMA FailInv ==
  ASSUME Inv, NEW s \in Slots, Fail(s)
  PROVE  Inv'
<1>1. Reply(s, "error") /\ "error" \in Answers \ {"tokens"} /\ DataUnchanged
  BY DEF Fail, Answers, DataUnchanged
<1>2. TypeOK'
  <2>1. call' \in [Slots -> Calls]
    BY <1>1, ReplyTypes DEF Inv
  <2> QED  BY <2>1 DEF Inv, TypeOK, Fail
<1> QED  BY <1>1, <1>2, DataStep, ReplyStep DEF Fail

LEMMA IgnoredErrorInv ==
  ASSUME Inv, NEW s \in Slots, IgnoredError(s)
  PROVE  Inv'
<1>1. DataUnchanged /\ UNCHANGED <<home, owner, made>>
  BY DEF IgnoredError, DataUnchanged
<1>2. ASSUME NEW a \in Answers \ {"tokens"}, Reply(s, a) PROVE Inv'
  <2>1. TypeOK'
    <3>1. call' \in [Slots -> Calls]
      BY <1>2, ReplyTypes DEF Inv
    <3> QED  BY <3>1 DEF Inv, TypeOK, IgnoredError
  <2> QED  BY <1>1, <1>2, <2>1, DataStep, ReplyStep
<1>3. ASSUME call[s].op \in Decided, Move(s, "delete") PROVE Inv'
  <2>1. TypeOK'
    <3>1. call' \in [Slots -> Calls]
      BY <1>3, MoveTypes DEF Inv, Steps
    <3> QED  BY <3>1 DEF Inv, TypeOK, IgnoredError
  <2> QED  BY <1>1, <1>3, <2>1, DataStep, MoveStep DEF Decided
<1> QED  BY <1>2, <1>3 DEF IgnoredError, Answers

LEMMA LoginInv ==
  ASSUME Inv, NEW f \in Logins, Login(f)
  PROVE  Inv'
<1>1. TypeOK'
  BY DEF Inv, TypeOK, Login, Overlap, CodeStates
<1>2. CodesOK'
  BY DEF Inv, TypeOK, CodesOK, Login
<1> QED  BY <1>1, <1>2, NoCallStep DEF Login

LEMMA QuietInv ==
  ASSUME Inv,
         \/ StartPolling \/ Deactivate \/ AccessLapses \/ RefreshLapses
         \/ \E f \in Logins : CodeLapses(f)
         \/ UNCHANGED vars
  PROVE  Inv'
<1>1. TypeOK'
  <2>1. CASE StartPolling \/ Deactivate
    BY <2>1 DEF Inv, TypeOK, StartPolling, Deactivate
  <2>2. CASE AccessLapses
    BY <2>2 DEF Inv, TypeOK, AccessLapses
  <2>3. CASE RefreshLapses
    BY <2>3 DEF Inv, TypeOK, RefreshLapses
  <2>4. CASE \E f \in Logins : CodeLapses(f)
    BY <2>4 DEF Inv, TypeOK, CodeLapses
  <2>5. CASE UNCHANGED vars
    BY <2>5 DEF Inv, TypeOK, vars
  <2> QED  BY <2>1, <2>2, <2>3, <2>4, <2>5
<1>2. UNCHANGED <<call, row, home, owner, made, decisions, held, code>>
  BY DEF StartPolling, Deactivate, AccessLapses, RefreshLapses, CodeLapses, vars
<1>3. CodesOK'
  BY <1>2 DEF Inv, CodesOK
<1> QED  BY <1>1, <1>2, <1>3, NoCallStep

\* Every call starts from Free, about to read.
LEMMA StartInv ==
  ASSUME Inv, NEW s \in Slots, NEW c \in Calls, Start(s, c),
         SubjectOK(c), c.pc = "read", c.answer = "none",
         UNCHANGED <<dbVars, clockVars, clientVars, historyVars, made>>
  PROVE  Inv'
<1>1. TypeOK'
  BY DEF Inv, TypeOK, Start, Overlap
<1>2. HeldOK'
  BY DEF Inv, HeldOK, Approved
<1> QED  BY <1>1, <1>2, NewCallStep DEF Start

LEMMA FreeFields ==
  /\ Free \in Calls /\ Free.pc = "idle" /\ Free.answer = "none" /\ Free.op = "none"
  BY FreeOK DEF Free

LEMMA CallersInv ==
  ASSUME Inv, TimerOK, NEW s \in Slots,
         \/ Tick(s) \/ Sync(s)
         \/ \E f \in Logins, decision \in Decided : Confirm(s, f, decision)
         \/ \E i \in Pairs : Revoke(s, i)
  PROVE  Inv'
<1> USE FreeFields DEF Calls, Ops, Steps, SubjectOK, Decided
<1>1. CASE Tick(s)
  <2> DEFINE c == [Free EXCEPT !.op = "poll", !.pc = "read", !.login = current]
  <2>1. current \in Logins
    BY <1>1 DEF Tick, TimerOK
  <2>2. c \in Calls /\ SubjectOK(c) /\ c.pc = "read" /\ c.answer = "none"
    BY <2>1 DEF Free, Answers
  <2> QED  BY <1>1, <2>2, StartInv DEF Tick
<1>2. CASE Sync(s)
  <2> DEFINE o == IF held > stale THEN "validate" ELSE "refresh"
             c == [Free EXCEPT !.op = o, !.pc = "read", !.old = held]
  <2>1. held \in Pairs /\ o \in {"validate", "refresh"}
    BY <1>2 DEF Inv, TypeOK, Sync
  <2>2. Start(s, c) /\ UNCHANGED <<dbVars, clockVars, clientVars, historyVars, made>>
    BY <1>2 DEF Sync
  <2> HIDE DEF o
  <2>3. c.op = o /\ c.pc = "read" /\ c.answer = "none" /\ c.old = held /\ c.new = None
    BY DEF Free
  <2>4. o \in Ops /\ "read" \in Steps /\ held \in 0 .. MaxPairs
    BY <2>1
  <2>5. c \in Calls
    BY <2>4 DEF Free, Answers
  <2>6. SubjectOK(c)
    BY <2>1, <2>3
  <2> QED  BY <2>2, <2>3, <2>5, <2>6, StartInv
<1>3. ASSUME NEW f \in Logins, NEW decision \in Decided, Confirm(s, f, decision) PROVE Inv'
  <2> DEFINE c == [Free EXCEPT !.op = decision, !.pc = "read", !.login = f]
  <2>1. c.op = decision /\ c.pc = "read" /\ c.answer = "none" /\ c.login = f /\ c.new = None
    BY DEF Free
  <2>2. decision \in Ops /\ "read" \in Steps
    OBVIOUS
  <2>3. c \in Calls
    BY <2>2 DEF Free, Answers
  <2>4. SubjectOK(c)
    BY <2>1
  <2> QED  BY <1>3, <2>1, <2>3, <2>4, StartInv DEF Confirm
<1>4. ASSUME NEW i \in Pairs, Revoke(s, i) PROVE Inv'
  <2> DEFINE c == [Free EXCEPT !.op = "revoke", !.pc = "read", !.row = i]
  <2>1. c.op = "revoke" /\ c.pc = "read" /\ c.answer = "none" /\ c.row = i /\ c.new = None
    BY DEF Free
  <2>2. i \in 0 .. MaxPairs
    OBVIOUS
  <2>3. c \in Calls
    BY <2>2 DEF Free, Answers
  <2>4. SubjectOK(c)
    BY <2>1
  <2> QED  BY <1>4, <2>1, <2>3, <2>4, StartInv DEF Revoke
<1> QED  BY <1>1, <1>2, <1>3, <1>4

-----------------------------------------------------------------------------
(* Handlers that read. *)

\* A handler whose read ends its call, or sends it to write, and changes nothing else.
LEMMA ReadInv ==
  ASSUME Inv, NEW s \in Slots, DataUnchanged, UNCHANGED <<clockVars, clientVars, historyVars, trouble>>,
         made' = made,
         \/ Reply(s, "error") \/ Reply(s, "pending")
         \/ call[s].new = None /\ Move(s, "delete")
         \/ call[s].op \in Decided /\ (Move(s, "expire") \/ Move(s, "save"))
  PROVE  Inv'
<1>1. ASSUME NEW a \in {"error", "pending"}, Reply(s, a) PROVE Inv'
  <2>1. a \in Answers \ {"tokens"}
    BY DEF Answers
  <2>2. call' \in [Slots -> Calls]
    BY <1>1, <2>1, ReplyTypes DEF Inv
  <2>3. TypeOK'
    BY <2>2 DEF Inv, TypeOK, DataUnchanged
  <2> QED  BY <1>1, <2>1, <2>3, DataStep, ReplyStep
<1>2. ASSUME NEW pc \in {"expire", "delete", "save"}, Move(s, pc),
             pc = "save" => call[s].op \in Decided,
             pc = "delete" => call[s].new = None
      PROVE  Inv'
  <2>1. call' \in [Slots -> Calls]
    BY <1>2, MoveTypes DEF Inv, Steps
  <2>2. TypeOK'
    BY <2>1 DEF Inv, TypeOK, DataUnchanged
  <2> QED  BY <1>2, <2>2, DataStep, MoveStep
<1> QED  BY <1>1, <1>2

\* MakePair, for a poll of an authorized code and for a refresh of a row that is there.
LEMMA MakePairInv ==
  ASSUME Inv, NEW s \in Slots, NEW i, MakePair(s, i), call[s].answer # "tokens",
         \/ call[s].op = "poll" /\ i = made + 1 /\ "authorized" \in decisions[call[s].login]
         \/ call[s].op = "refresh" /\ i \in Pairs /\ Approved(i),
         UNCHANGED <<dbVars, clockVars, clientVars, historyVars, trouble>>
  PROVE  Inv'
<1>1. CASE made < MaxPairs
  <2>1. i \in Pairs /\ made \in Nat
    BY <1>1 DEF Inv, TypeOK
  <2>2. call' = [call EXCEPT ![s].pc = "save", ![s].row = i, ![s].new = made + 1]
        /\ made' = made + 1
    BY <1>1 DEF MakePair
  <2>3. call' \in [Slots -> Calls]
    BY <1>1, <2>1, <2>2, MakeTypes DEF Inv
  <2>4. TypeOK'
    BY SMTT(20), <1>1, <2>1, <2>2, <2>3 DEF Inv, TypeOK
  <2> QED  BY <1>1, <2>1, <2>2, <2>4, MakeStep
<1>2. CASE ~(made < MaxPairs)
  BY <1>2, ReadInv DEF MakePair, DataUnchanged
<1> QED  BY <1>1, <1>2

\* No call that has yet to read has an answer.
LEMMA ReadsHaveNoAnswer ==
  ASSUME Inv, NEW s \in Slots, call[s].pc = "read"
  PROVE  call[s].answer # "tokens" /\ call[s].new = None
  BY DEF Inv, CallsOK, CallOK, SubjectOK, HandOutOK, HandsOut

LEMMA PollReadsInv ==
  ASSUME Inv, NEW s \in Slots, PollReads(s)
  PROVE  Inv'
<1>1. /\ call[s].op = "poll" /\ call[s].login \in Logins
      /\ call[s].answer # "tokens" /\ call[s].new = None
  BY ReadsHaveNoAnswer DEF PollReads, At, Inv, CallsOK, CallOK, SubjectOK
<1>2. CASE code[call[s].login] = "authorized" /\ MakePair(s, made + 1)
  <2>1. "authorized" \in decisions[call[s].login]
    BY <1>1, <1>2 DEF Inv, CodesOK
  <2>2. UNCHANGED <<dbVars, clockVars, clientVars, historyVars, trouble>>
    BY DEF PollReads
  <2> QED  BY <1>1, <1>2, <2>1, <2>2, MakePairInv
<1>3. CASE made' = made /\ (Reply(s, "error") \/ Reply(s, "pending") \/ Move(s, "delete"))
  <2>1. DataUnchanged /\ UNCHANGED <<clockVars, clientVars, historyVars, trouble>>
    BY DEF PollReads, DataUnchanged
  <2> QED  BY <1>1, <1>3, <2>1, ReadInv
<1> QED  BY <1>2, <1>3 DEF PollReads

LEMMA ConfirmReadsInv ==
  ASSUME Inv, NEW s \in Slots, ConfirmReads(s)
  PROVE  Inv'
<1>1. DataUnchanged /\ UNCHANGED <<clockVars, clientVars, historyVars, trouble, made>>
      /\ call[s].op \in Decided
  BY DEF ConfirmReads, DataUnchanged
<1> QED  BY <1>1, ReadInv DEF ConfirmReads

LEMMA RefreshReadsInv ==
  ASSUME Inv, NEW s \in Slots, RefreshReads(s)
  PROVE  Inv'
<1>1. /\ call[s].op = "refresh" /\ call[s].pc = "read" /\ call[s].old \in Pairs
      /\ call[s].answer # "tokens" /\ call[s].new = None
      /\ call[s] \in Calls /\ call \in [Slots -> Calls]
  BY ReadsHaveNoAnswer DEF RefreshReads, At, Inv, CallsOK, CallOK, SubjectOK, TypeOK
<1>2. /\ DataUnchanged
      /\ UNCHANGED <<dbVars, clockVars, clientVars, historyVars, trouble>>
  BY DEF RefreshReads, DataUnchanged
<1>3. CASE Reply(s, "error") /\ made' = made
  BY <1>2, <1>3, ReadInv
<1>4. ASSUME NEW i \in RowsOf(call[s].old), MakePair(s, i)
      PROVE  Inv'
  <2>1. i \in Pairs /\ Approved(i)
    BY <1>1 DEF RowsOf, Inv, RowsOK
  <2> QED  BY <1>1, <1>2, <1>4, <2>1, MakePairInv
<1>5. ASSUME NEW i \in RowsOf(call[s].old), made' = made,
             call' = [call EXCEPT ![s].pc = "delete", ![s].row = i]
      PROVE  Inv'
  <2> DEFINE c == [call[s] EXCEPT !.pc = "delete", !.row = i]
  <2>1. i \in 0 .. MaxPairs
    BY DEF RowsOf
  <2>2. c \in Calls /\ call' = [call EXCEPT ![s] = c]
    BY <1>1, <1>5, <2>1 DEF Calls, Steps
  <2>3. /\ c.pc = "delete" /\ c.op = "refresh" /\ c.old = call[s].old
        /\ c.answer = call[s].answer
    BY <1>1 DEF Calls
  <2>4. TypeOK'
    BY SMTT(20), <1>1, <1>2, <1>5, <2>2 DEF Inv, TypeOK
  <2> HIDE DEF c
  <2>5. CallOK(c) /\ ~Pending(c)
    BY <1>1, <2>3 DEF CallOK, SubjectOK, StoreOK, CopyOK, HandOutOK, Pending, HandsOut, Decided
  <2> QED  BY <1>2, <1>5, <2>2, <2>4, <2>5, DataStep, QuietStep
<1> QED  BY <1>3, <1>4, <1>5 DEF RefreshReads

LEMMA ValidateReadsInv ==
  ASSUME Inv, NEW s \in Slots, ValidateReads(s)
  PROVE  Inv'
<1>1. /\ call[s].op = "validate" /\ call[s].old \in Pairs /\ call[s].answer # "tokens"
      /\ call[s] \in Calls /\ call \in [Slots -> Calls]
  BY ReadsHaveNoAnswer DEF ValidateReads, At, Inv, CallsOK, CallOK, SubjectOK, TypeOK
<1>2. DataUnchanged /\ UNCHANGED <<clockVars, clientVars, historyVars, made, trouble>>
  BY DEF ValidateReads, DataUnchanged
<1>3. CASE Reply(s, "error")
  BY <1>2, <1>3, ReadInv
<1>4. ASSUME NEW i \in RowsOf(call[s].old),
             call' = [call EXCEPT ![s].pc = "save", ![s].row = i]
      PROVE  Inv'
  <2> DEFINE c == [call[s] EXCEPT !.pc = "save", !.row = i]
  <2>1. i \in Pairs /\ i \in 0 .. MaxPairs /\ home[call[s].old] = i /\ Approved(i)
    BY <1>1 DEF RowsOf, Inv, RowsOK
  <2>2. c \in Calls /\ call' = [call EXCEPT ![s] = c]
    BY <1>1, <1>4, <2>1 DEF Calls, Steps
  <2>3. /\ c.pc = "save" /\ c.op = "validate" /\ c.old = call[s].old /\ c.row = i
        /\ c.answer = call[s].answer
    BY <1>1 DEF Calls
  <2>4. TypeOK'
    <3>1. call' \in [Slots -> Calls]
      BY <1>1, <2>2
    <3> QED  BY <1>2, <3>1 DEF DataUnchanged, Inv, TypeOK
  <2> HIDE DEF c
  <2>5. CallOK(c) /\ ~Pending(c)
    BY <1>1, <2>1, <2>3
    DEF CallOK, SubjectOK, StoreOK, CopyOK, HandOutOK, Pending, HandsOut, Decided
  <2> QED  BY <1>2, <1>4, <2>2, <2>4, <2>5, DataStep, QuietStep
<1> QED  BY <1>3, <1>4 DEF ValidateReads

LEMMA RevokeReadsInv ==
  ASSUME Inv, NEW s \in Slots, RevokeReads(s)
  PROVE  Inv'
<1>1. DataUnchanged /\ UNCHANGED <<clockVars, clientVars, historyVars, made, trouble>>
  BY DEF RevokeReads, DataUnchanged
<1>2. call[s].new = None
  BY ReadsHaveNoAnswer DEF RevokeReads, At
<1> QED  BY <1>1, <1>2, ReadInv DEF RevokeReads

-----------------------------------------------------------------------------
(* Handlers that write. *)

LEMMA PollCreatesInv ==
  ASSUME Inv, NEW s \in Slots, PollCreates(s)
  PROVE  Inv'
<1> DEFINE d == [call[s] EXCEPT !.pc = "delete"]
<1>1. call[s].op = "poll" /\ call[s].pc = "save" /\ Pending(call[s])
      /\ call[s] \in Calls /\ CallOK(call[s])
  BY DEF PollCreates, At, Pending, Inv, CallsOK, TypeOK
<1>2. PICK n \in Pairs : n = call[s].new
  BY <1>1 DEF CallOK, StoreOK
<1>3. PICK i \in Pairs : i = call[s].row
  BY <1>1, <1>2 DEF CallOK, StoreOK
<1>4. d \in Calls /\ call' = [call EXCEPT ![s] = d] /\ call' \in [Slots -> Calls]
  BY MoveCall, MoveTypes DEF PollCreates, Inv, Steps
<1>5. /\ d.pc = "delete" /\ d.op = "poll" /\ d.login = call[s].login
      /\ d.old = call[s].old /\ d.new = n /\ d.row = i
  BY <1>1, <1>2, <1>3 DEF Calls
<1>6. call[s].login \in Logins
  BY <1>1 DEF CallOK, SubjectOK
<1>7. TypeOK'
  <2>1. row' = [row EXCEPT ![i] = n] /\ home' = [home EXCEPT ![n] = i]
        /\ owner' = [owner EXCEPT ![i] = call[s].login]
    BY <1>2, <1>3 DEF PollCreates
  <2>2. row' \in [Pairs -> 0 .. MaxPairs] /\ home' \in [Pairs -> 0 .. MaxPairs]
    BY <2>1 DEF Inv, TypeOK
  <2>3. owner' \in [Pairs -> Logins \cup {NoLogin}]
    BY <2>1, <1>6 DEF Inv, TypeOK
  <2> QED  BY <1>4, <2>2, <2>3 DEF PollCreates, Inv, TypeOK
<1> HIDE DEF d
<1> QED  BY <1>1, <1>2, <1>3, <1>4, <1>5, <1>7, StoreStep DEF PollCreates

LEMMA RefreshSavesInv ==
  ASSUME Inv, NEW s \in Slots, RefreshSaves(s)
  PROVE  Inv'
<1> DEFINE d == [call[s] EXCEPT !.pc = "answer", !.answer = "tokens"]
<1>1. call[s].op = "refresh" /\ call[s].pc = "save" /\ Pending(call[s])
      /\ call[s] \in Calls /\ CallOK(call[s])
  BY DEF RefreshSaves, At, Pending, Inv, CallsOK, TypeOK
<1>2. PICK n \in Pairs : n = call[s].new
  BY <1>1 DEF CallOK, StoreOK
<1>3. PICK i \in Pairs : i = call[s].row
  BY <1>1, <1>2 DEF CallOK, StoreOK
<1>4. d \in Calls /\ call' = [call EXCEPT ![s] = d] /\ call' \in [Slots -> Calls]
  BY ReplyCall, ReplyTypes DEF RefreshSaves, Inv, Answers
<1>5. /\ d.pc = "answer" /\ d.op = "refresh" /\ d.login = call[s].login
      /\ d.old = call[s].old /\ d.new = n /\ d.row = i
  BY <1>1, <1>2, <1>3 DEF Calls
<1>6. spent' \in [Pairs -> 0 .. 2]
  <2>1. spent \in [Pairs -> 0 .. 2] /\ call[s].old \in Pairs
    BY <1>1 DEF Inv, TypeOK, CallOK, SubjectOK
  <2>2. spent[call[s].old] < 2 => spent[call[s].old] + 1 \in 0 .. 2
    BY <2>1
  <2> QED  BY <2>1, <2>2 DEF RefreshSaves
<1>7. TypeOK'
  <2>1. row' = [row EXCEPT ![i] = n] /\ home' = [home EXCEPT ![n] = i]
    BY <1>2, <1>3 DEF RefreshSaves
  <2>2. row' \in [Pairs -> 0 .. MaxPairs] /\ home' \in [Pairs -> 0 .. MaxPairs]
    BY <2>1 DEF Inv, TypeOK
  <2> QED  BY <1>4, <1>6, <2>2 DEF RefreshSaves, Inv, TypeOK
<1> HIDE DEF d
<1> QED  BY <1>1, <1>2, <1>3, <1>4, <1>5, <1>7, StoreStep DEF RefreshSaves

LEMMA PollDeletesInv ==
  ASSUME Inv, NEW s \in Slots, PollDeletes(s)
  PROVE  Inv'
<1> DEFINE a == IF call[s].new = None THEN "over" ELSE "tokens"
           c == [call[s] EXCEPT !.pc = "answer", !.answer = a]
<1>1. /\ call[s].op = "poll" /\ call[s].pc = "delete"
      /\ call[s] \in Calls /\ CallOK(call[s])
  BY DEF PollDeletes, At, Inv, CallsOK, TypeOK
<1>2. a \in Answers /\ a \in {"over", "tokens"} /\ (a = "tokens" => call[s].new # None)
  BY DEF Answers
<1>3. Reply(s, a)
  BY DEF PollDeletes
<1> HIDE DEF a
<1>4. c \in Calls /\ call' = [call EXCEPT ![s] = c] /\ call' \in [Slots -> Calls]
  BY <1>2, <1>3, ReplyCall, ReplyTypes DEF Inv
<1>5. /\ c.pc = "answer" /\ c.answer = a /\ c.op = "poll" /\ c.login = call[s].login
      /\ c.new = call[s].new
  BY <1>1 DEF Calls
<1> HIDE DEF c
<1>6. CallOK(c) /\ ~Pending(c)
  BY <1>1, <1>2, <1>5
  DEF CallOK, SubjectOK, StoreOK, CopyOK, HandOutOK, Pending, HandsOut, Decided
<1>7. TypeOK'
  BY <1>4 DEF PollDeletes, Inv, TypeOK, CodeStates
<1>8. CodesOK' /\ RowsOK' /\ HeldOK'
  BY DEF PollDeletes, Inv, TypeOK, CodesOK, RowsOK, HeldOK, Approved
<1> QED  BY <1>4, <1>6, <1>7, <1>8, QuietStep DEF PollDeletes

LEMMA ConfirmSavesInv ==
  ASSUME Inv, NEW s \in Slots, ConfirmSaves(s)
  PROVE  Inv'
<1>1. /\ call[s].op \in Decided /\ call[s].login \in Logins
      /\ Reply(s, "ok") /\ "ok" \in Answers \ {"tokens"}
  BY DEF ConfirmSaves, Inv, CallsOK, CallOK, SubjectOK, Answers
<1>2. call' \in [Slots -> Calls]
  BY <1>1, ReplyTypes DEF Inv
<1>3. PICK o \in Decided, f \in Logins : o = call[s].op /\ f = call[s].login
  BY <1>1
<1>4. code' = [code EXCEPT ![f] = o] /\ decisions' = [decisions EXCEPT ![f] = @ \cup {o}]
  BY <1>3 DEF ConfirmSaves
<1>5. \A g \in Logins : decisions'[g] = IF g = f THEN decisions[g] \cup {o} ELSE decisions[g]
  BY <1>4 DEF Inv, TypeOK
<1>6. TypeOK'
  <2>1. code' \in [Logins -> CodeStates]
    BY <1>4 DEF Inv, TypeOK, CodeStates, Decided
  <2>2. decisions \in [Logins -> SUBSET Decided] /\ decisions[f] \cup {o} \subseteq Decided
    BY DEF Inv, TypeOK
  <2>3. decisions' \in [Logins -> SUBSET Decided]
    BY <1>4, <2>2
  <2> QED  BY <1>2, <2>1, <2>3 DEF ConfirmSaves, Inv, TypeOK
<1>7. CodesOK'
  BY <1>4, <1>5 DEF Inv, TypeOK, CodesOK
<1>8. RowsOK' /\ HeldOK'
  BY <1>5 DEF ConfirmSaves, Inv, TypeOK, RowsOK, HeldOK, Approved
<1> QED  BY <1>1, <1>5, <1>6, <1>7, <1>8, ReplyStep DEF ConfirmSaves

LEMMA ConfirmEndsInv ==
  ASSUME Inv, NEW s \in Slots, ConfirmExpires(s) \/ ConfirmDeletes(s)
  PROVE  Inv'
<1>1. call[s].op \in Decided /\ \A f \in Logins : decisions[f] \subseteq decisions'[f]
  BY DEF ConfirmExpires, ConfirmDeletes
<1>2. CodesOK' /\ RowsOK' /\ HeldOK'
  BY DEF ConfirmExpires, ConfirmDeletes, Inv, TypeOK, CodesOK, RowsOK, HeldOK, Approved
<1>3. CASE ConfirmExpires(s)
  <2>1. call' \in [Slots -> Calls]
    BY <1>3, MoveTypes DEF ConfirmExpires, Inv, Steps
  <2>2. TypeOK'
    BY <1>3, <2>1 DEF ConfirmExpires, Inv, TypeOK, CodeStates
  <2> QED  BY <1>1, <1>2, <1>3, <2>2, MoveStep DEF ConfirmExpires, Decided
<1>4. CASE ConfirmDeletes(s)
  <2>1. Reply(s, "error") /\ "error" \in Answers \ {"tokens"}
    BY <1>4 DEF ConfirmDeletes, Answers
  <2>2. call' \in [Slots -> Calls]
    BY <2>1, ReplyTypes DEF Inv
  <2>3. TypeOK'
    BY <1>4, <2>2 DEF ConfirmDeletes, Inv, TypeOK, CodeStates
  <2> QED  BY <1>1, <1>2, <1>4, <2>1, <2>3, ReplyStep DEF ConfirmDeletes
<1> QED  BY <1>3, <1>4

\* A handler that empties a row, or writes back the copy of it that a validation made.
LEMMA RowWritesInv ==
  ASSUME Inv, NEW s \in Slots, RefreshDeletes(s) \/ RevokeDeletes(s) \/ ValidateSaves(s)
  PROVE  Inv'
<1>1. PICK a \in {"error", "ok"} : Reply(s, a)
  BY DEF RefreshDeletes, RevokeDeletes, ValidateSaves
<1>2. a \in Answers \ {"tokens"} /\ call' \in [Slots -> Calls]
  <2>1. a \in Answers \ {"tokens"}
    BY DEF Answers
  <2> QED  BY <1>1, <2>1, ReplyTypes DEF Inv
<1>3. call[s] \in Calls /\ CallOK(call[s])
  BY DEF Inv, TypeOK, CallsOK
<1>4. PICK i, p \in 0 .. MaxPairs :
        row' = [row EXCEPT ![i] = p] /\ i = call[s].row
        /\ (p # None => i \in Pairs /\ home[p] = i /\ Approved(i))
  <2>1. CASE RefreshDeletes(s) \/ RevokeDeletes(s)
    BY <1>3, <2>1 DEF RefreshDeletes, RevokeDeletes, Calls
  <2>2. CASE ValidateSaves(s)
    BY <1>3, <2>2 DEF ValidateSaves, At, CallOK, CopyOK, Calls
  <2> QED  BY <2>1, <2>2
<1>5. UNCHANGED <<code, lapsed, made, stale, dead, current, timer, held, owner, home,
                  decisions, answered, spent, trouble>>
  BY DEF RefreshDeletes, RevokeDeletes, ValidateSaves
<1>6. revoked' \subseteq Pairs
  BY <1>3 DEF RefreshDeletes, RevokeDeletes, ValidateSaves, At, Inv, TypeOK, CallOK, SubjectOK
<1>7. TypeOK'
  BY <1>2, <1>4, <1>5, <1>6 DEF Inv, TypeOK
<1>8. CodesOK' /\ HeldOK' /\ \A j \in Pairs : Approved(j) => Approved(j)'
  BY <1>5 DEF Inv, CodesOK, HeldOK, Approved
<1>9. RowsOK'
  BY <1>4, <1>5 DEF Inv, TypeOK, RowsOK, Approved
<1> QED  BY <1>1, <1>2, <1>5, <1>7, <1>8, <1>9, ReplyStep

-----------------------------------------------------------------------------
(* Callers that have their answer. *)

LEMMA AnsweredInv ==
  ASSUME Inv, NEW s \in Slots, PollAnswered(s) \/ Answered(s)
  PROVE  Inv'
<1>1. call[s] \in Calls /\ CallOK(call[s]) /\ Free \in Calls /\ SubjectOK(Free)
      /\ Free.pc = "idle" /\ Free.answer = "none"
  BY FreeOK, FreeFields DEF Inv, TypeOK, CallsOK, CallOK
<1>2. held' = held \/ (call[s].answer = "tokens" /\ held' = call[s].new)
  BY DEF PollAnswered, Answered
<1>3. UNCHANGED <<row, code, home, owner, made, decisions>> /\ call' = [call EXCEPT ![s] = Free]
  BY DEF PollAnswered, Answered
<1>4. HeldOK'
  BY <1>1, <1>2, <1>3 DEF Inv, HeldOK, CallOK, HandOutOK, HandsOut, Approved
<1>5. held' \in 0 .. MaxPairs
  BY <1>1, <1>2 DEF Inv, TypeOK, Calls
<1>6. TypeOK'
  <2>1. CASE PollAnswered(s)
    <3>1. answered' \subseteq Logins /\ timer' \in {"off", "prompt", "on"}
      BY <1>1, <2>1 DEF PollAnswered, At, ClearTimer, Inv, TypeOK, CallOK, SubjectOK
    <3> QED  BY <1>1, <1>3, <1>5, <2>1, <3>1 DEF PollAnswered, Inv, TypeOK
  <2>2. CASE Answered(s)
    BY <1>1, <1>3, <2>2 DEF Answered, Inv, TypeOK
  <2> QED  BY <2>1, <2>2
<1> QED  BY <1>1, <1>3, <1>4, <1>6, NewCallStep

LEMMA RefreshAnsweredInv ==
  ASSUME Inv, NEW s \in Slots, RefreshAnswered(s)
  PROVE  Inv'
<1>1. call[s] \in Calls /\ CallOK(call[s]) /\ Free \in Calls /\ SubjectOK(Free)
      /\ Free.pc = "idle" /\ Free.answer = "none"
  BY FreeOK, FreeFields DEF Inv, TypeOK, CallsOK, CallOK
<1>2. UNCHANGED <<row, code, home, owner, made, decisions>>
  BY DEF RefreshAnswered
<1>3. CASE call[s].answer # "tokens"
  <2>1. held' = held /\ call' = [call EXCEPT ![s] = Free]
    BY <1>3 DEF RefreshAnswered
  <2>2. TypeOK' /\ HeldOK'
    BY <1>1, <2>1 DEF RefreshAnswered, Inv, TypeOK, HeldOK, Approved
  <2> QED  BY <1>1, <1>2, <2>1, <2>2, NewCallStep
<1>4. CASE call[s].answer = "tokens"
  <2> DEFINE n == call[s].new
             c == [Free EXCEPT !.op = "validate", !.pc = "read", !.old = n]
  <2>1. held' = n /\ call' = [call EXCEPT ![s] = c]
    BY <1>4 DEF RefreshAnswered
  <2>2. n \in Pairs /\ n \in 0 .. MaxPairs /\ home[n] \in Pairs /\ Approved(home[n])
    BY <1>1, <1>4 DEF CallOK, HandOutOK, HandsOut
  <2>3. c.op = "validate" /\ c.pc = "read" /\ c.answer = "none" /\ c.old = n /\ c.new = None
    BY DEF Free
  <2> HIDE DEF n
  <2>4. c \in Calls
    BY <2>2, FreeFields DEF Calls, Ops, Steps
  <2>5. SubjectOK(c)
    BY <2>2, <2>3 DEF SubjectOK, Decided
  <2>6. HeldOK'
    BY <1>2, <2>1, <2>2 DEF HeldOK, Approved
  <2> HIDE DEF c
  <2>7. TypeOK'
    BY <2>1, <2>2, <2>4 DEF RefreshAnswered, Inv, TypeOK
  <2> QED  BY <1>2, <2>1, <2>3, <2>4, <2>5, <2>6, <2>7, NewCallStep
<1> QED  BY <1>3, <1>4

-----------------------------------------------------------------------------
LEMMA TimerStep == TimerOK /\ [Next]_vars => TimerOK'
<1> SUFFICES ASSUME TimerOK, [Next]_vars PROVE TimerOK'
  OBVIOUS
<1>1. ASSUME NEW f \in Logins, Login(f) PROVE TimerOK'
  BY <1>1 DEF Login, TimerOK
<1>2. CASE StartPolling \/ Deactivate
  BY <1>2 DEF StartPolling, Deactivate, TimerOK
<1>3. ASSUME NEW s \in Slots, PollAnswered(s) PROVE TimerOK'
  BY <1>3 DEF PollAnswered, ClearTimer, TimerOK
<1>4. CASE UNCHANGED <<current, timer>>
  BY <1>4 DEF TimerOK
<1>5. ASSUME NEW s \in Slots, HandlerStep(s) PROVE UNCHANGED <<current, timer>>
  BY <1>5 DEF HandlerStep, PollReads, PollCreates, PollDeletes, ConfirmReads, ConfirmSaves,
     ConfirmExpires, ConfirmDeletes, RefreshReads, RefreshDeletes, RefreshSaves,
     ValidateReads, ValidateSaves, RevokeReads, RevokeDeletes
<1>6. ASSUME NEW s \in Slots,
             \/ Tick(s) \/ Sync(s) \/ RefreshAnswered(s) \/ Answered(s)
             \/ Fail(s) \/ IgnoredError(s)
             \/ \E f \in Logins, decision \in Decided : Confirm(s, f, decision)
             \/ \E i \in Pairs : Revoke(s, i)
      PROVE  UNCHANGED <<current, timer>>
  BY <1>6 DEF Tick, Sync, RefreshAnswered, Answered, Fail, IgnoredError, Confirm, Revoke
<1>7. CASE (\E f \in Logins : CodeLapses(f)) \/ AccessLapses \/ RefreshLapses \/ UNCHANGED vars
  BY <1>7, <1>4 DEF CodeLapses, AccessLapses, RefreshLapses, vars
<1> QED  BY <1>1, <1>2, <1>3, <1>4, <1>5, <1>6, <1>7 DEF Next, AnswerStep

LEMMA NextInv == Inv /\ TimerOK /\ [Next]_vars => Inv'
<1> SUFFICES ASSUME Inv, TimerOK, [Next]_vars PROVE Inv'
  OBVIOUS
<1>1. ASSUME NEW f \in Logins, Login(f) PROVE Inv'
  BY <1>1, LoginInv
<1>2. ASSUME NEW f \in Logins, CodeLapses(f) PROVE Inv'
  BY <1>2, QuietInv
<1>3. CASE StartPolling \/ Deactivate \/ AccessLapses \/ RefreshLapses \/ UNCHANGED vars
  BY <1>3, QuietInv
<1>4. ASSUME NEW s \in Slots, Tick(s) \/ Sync(s) PROVE Inv'
  BY <1>4, CallersInv
<1>5. ASSUME NEW s \in Slots, NEW f \in Logins, NEW decision \in Decided, Confirm(s, f, decision)
      PROVE  Inv'
  BY <1>5, CallersInv
<1>6. ASSUME NEW s \in Slots, NEW i \in Pairs, Revoke(s, i) PROVE Inv'
  BY <1>6, CallersInv
<1>7. ASSUME NEW s \in Slots, HandlerStep(s) PROVE Inv'
  BY <1>7, PollReadsInv, PollCreatesInv, PollDeletesInv, ConfirmReadsInv, ConfirmSavesInv,
     ConfirmEndsInv, RefreshReadsInv, RowWritesInv, RefreshSavesInv, ValidateReadsInv,
     RevokeReadsInv
  DEF HandlerStep
<1>8. ASSUME NEW s \in Slots, AnswerStep(s) PROVE Inv'
  BY <1>8, AnsweredInv, RefreshAnsweredInv DEF AnswerStep
<1>9. ASSUME NEW s \in Slots, Fail(s) \/ IgnoredError(s) PROVE Inv'
  BY <1>9, FailInv, IgnoredErrorInv
<1> QED  BY <1>1, <1>2, <1>3, <1>4, <1>5, <1>6, <1>7, <1>8, <1>9 DEF Next

LEMMA InvHolds == Spec => []Inv
<1>1. Init => TimerOK
  BY DEF Init, TimerOK
<1> QED  BY <1>1, InitInv, TimerStep, NextInv, PTL DEF Spec

\* Every variable of the sign-in keeps its type, and only pairs that were made lapse.
THEOREM IdeTypeCorrect == Spec => []TypeOK
<1>1. Inv => TypeOK
  BY DEF Inv
<1> QED  BY <1>1, InvHolds, PTL

\* However many polls, confirmations, refreshes, validations and revocations overlap, and
\* whichever of them fail: a client row, and the pair an extension holds, go back to a
\* login its user approved, and no pair moves to another row.
THEOREM TokensAreApproved == Spec => []TokensNeedApproval
<1>1. Inv => TokensNeedApproval
  BY DEF Inv, RowsOK, HeldOK, Approved, TokensNeedApproval
<1> QED  BY <1>1, InvHolds, PTL

-----------------------------------------------------------------------------
(* One call at a time, whichever calls fail and wherever: one row for a     *)
(* login, one decision, each refresh token taken once, no revoked row back, *)
(* and an extension that polls until it is answered.  A call in turn is     *)
(* alone, so the copy it works on is still what the database says; the      *)
(* invariant states that of every kind of call, and what is left behind     *)
(* when a call fails half way.                                              *)

\* A call alone: every other slot is free.
Alone == \A s, t \in Slots : Busy(s) /\ Busy(t) => s = t

IdleFree == \A s \in Slots : Busy(s) \/ call[s] = Free

\* A row was made for login f.
Polled(f) == \E i \in Pairs : owner[i] = f

\* A poll that has stored no pair, or was told to come again.
Unserved(c) == c.op = "poll" /\ (c.pc \in {"read", "save"} \/ (c.pc = "answer" /\ c.answer = "pending"))

\* What a confirmation or a poll under way knows of its code.
LoginCallOK(c) ==
  /\ c.op \in Decided /\ c.pc = "save" => code[c.login] = "pending"
  /\ c.op \in Decided /\ c.pc = "expire" => code[c.login] # "gone"
  /\ c.op = "poll" => timer # "prompt" /\ current \in {c.login, NoLogin}
  /\ c.op = "poll" /\ c.pc = "save" => code[c.login] = "authorized"
  /\ Unserved(c) => ~Polled(c.login) \/ code[c.login] = "gone"

\* A code that was decided, or has a row, is past that; the extension asks no more for the
\* tokens of a row that was made, unless the poll that made it is still under way.
LoginOK(f) ==
  /\ decisions[f] # {} => code[f] \notin {"new", "pending"}
  /\ decisions[f] # Decided
  /\ Polled(f) => code[f] # "new"
  /\ Polled(f) /\ code[f] # "gone" /\ current = f /\ timer # "off" =>
       \E s \in Slots : call[s].op = "poll"

SignInTurn ==
  /\ \A s \in Slots : LoginCallOK(call[s])
  /\ \A f \in Logins : LoginOK(f)
  /\ \A i, j \in Pairs : owner[i] = owner[j] /\ owner[i] # NoLogin => i = j
  /\ PollsUntilAnswered

\* A pair the extension may hold: its row stores it, or is gone for a reason.
Kept(p) == LET i == home[p] IN
  row[i] = p \/ (row[i] = None /\ (i \in revoked \/ p <= dead))

\* What a refresh, a validation and a revocation know of their row.
RowCallOK(c) ==
  /\ c.op = "refresh" /\ c.pc \in {"save", "delete"} => c.row \in Pairs /\ row[c.row] = c.old
  /\ c.op = "refresh" /\ c.pc = "delete" => c.old <= dead /\ c.answer # "tokens"
  /\ c.op = "validate" /\ c.pc = "save" => row[c.row] = c.old
  /\ c.op = "revoke" => home[c.row] # None
  /\ HandsOut(c) /\ trouble = {} => Kept(c.new)

\* A pair that was taken, and a row that was made or revoked, are no longer new.
PairOK(p) ==
  /\ spent[p] # 0 => home[p] # None /\ \A i \in Pairs : row[i] # p
  /\ spent[p] <= 1
  /\ p \in revoked => home[p] # None /\ row[p] = None
  /\ owner[p] # NoLogin => home[p] # None

RowTurn ==
  /\ \A s \in Slots : RowCallOK(call[s])
  /\ \A p \in Pairs : PairOK(p)
  /\ \/ trouble # {} \/ held = None \/ Kept(held)
     \/ \E s \in Slots : call[s].op = "refresh" /\ call[s].answer = "tokens"

TurnInv == IdleFree /\ (InTurn => Alone /\ SignInTurn /\ RowTurn)

\* What Reply and Move leave of a call, and of the other calls.
LEMMA ReplyFields ==
  ASSUME TypeOK, NEW s \in Slots, NEW a \in Answers, Reply(s, a)
  PROVE  /\ call'[s].pc = "answer" /\ call'[s].answer = a /\ call'[s].op = call[s].op
         /\ call'[s].login = call[s].login /\ call'[s].row = call[s].row
         /\ call'[s].old = call[s].old /\ call'[s].new = call[s].new
         /\ \A t \in Slots \ {s} : call'[t] = call[t]
<1>1. call \in [Slots -> Calls] /\ call[s] \in Calls
  BY DEF TypeOK
<1> DEFINE c == [call[s] EXCEPT !.pc = "answer", !.answer = a]
<1>3. call' = [call EXCEPT ![s] = c]
  BY ReplyCall
<1>2. call'[s] = c /\ \A t \in Slots \ {s} : call'[t] = call[t]
  BY <1>1, <1>3
<1> QED  BY <1>1, <1>2 DEF Calls

LEMMA MoveFields ==
  ASSUME TypeOK, NEW s \in Slots, NEW pc \in Steps, Move(s, pc)
  PROVE  /\ call'[s].pc = pc /\ call'[s].answer = call[s].answer /\ call'[s].op = call[s].op
         /\ call'[s].login = call[s].login /\ call'[s].row = call[s].row
         /\ call'[s].old = call[s].old /\ call'[s].new = call[s].new
         /\ \A t \in Slots \ {s} : call'[t] = call[t]
<1>1. call \in [Slots -> Calls] /\ call[s] \in Calls
  BY DEF TypeOK
<1>2. call'[s] = [call[s] EXCEPT !.pc = pc] /\ \A t \in Slots \ {s} : call'[t] = call[t]
  BY <1>1, MoveCall
<1> QED  BY <1>1, <1>2 DEF Calls

\* The same where the handler has found its row, and where it has made a pair.
LEMMA FoundFields ==
  ASSUME TypeOK, NEW s \in Slots, NEW pc \in Steps, NEW i \in Pairs,
         call' = [call EXCEPT ![s].pc = pc, ![s].row = i]
  PROVE  /\ call'[s].pc = pc /\ call'[s].row = i /\ call'[s].op = call[s].op
         /\ call'[s].login = call[s].login /\ call'[s].answer = call[s].answer
         /\ call'[s].old = call[s].old /\ call'[s].new = call[s].new
         /\ \A t \in Slots \ {s} : call'[t] = call[t]
  BY DEF TypeOK, Calls

LEMMA MadeFields ==
  ASSUME TypeOK, NEW s \in Slots, NEW i, MakePair(s, i)
  PROVE  /\ call'[s].op = call[s].op /\ call'[s].login = call[s].login
         /\ call'[s].old = call[s].old
         /\ \/ call'[s].pc = "answer" /\ call'[s].answer = "error" /\ call'[s].row = call[s].row
            \/ call'[s].pc = "save" /\ call'[s].answer = call[s].answer /\ call'[s].row = i
         /\ \A t \in Slots \ {s} : call'[t] = call[t]
<1>1. CASE made < MaxPairs
  <2>1. call' = [call EXCEPT ![s].pc = "save", ![s].row = i, ![s].new = made + 1]
    BY <1>1 DEF MakePair
  <2> QED  BY <2>1 DEF TypeOK, Calls
<1>2. CASE ~(made < MaxPairs)
  <2>1. Reply(s, "error") /\ "error" \in Answers
    BY <1>2 DEF MakePair, Answers
  <2> QED  BY <2>1, ReplyFields
<1> QED  BY <1>1, <1>2

\* Slot s is the only one whose call is not free, before the step and after it.
Lone(s) == \A t \in Slots \ {s} : call[t] = Free /\ call'[t] = Free

SlotStep(s) ==
  \/ Tick(s) \/ Sync(s) \/ HandlerStep(s) \/ AnswerStep(s) \/ Fail(s) \/ IgnoredError(s)
  \/ \E f \in Logins, decision \in Decided : Confirm(s, f, decision)
  \/ \E i \in Pairs : Revoke(s, i)

\* What the steps of a slot do to its own call and to those of others.
LEMMA SlotCall ==
  ASSUME Inv, NEW s \in Slots, SlotStep(s)
  PROVE  /\ \A t \in Slots \ {s} : call'[t] = call[t]
         /\ \/ Busy(s) /\ (call'[s].pc # "idle" \/ call'[s] = Free)
            \/ call[s] = Free /\ call'[s].pc = "read" /\ Overlap(Slots \ {s})
<1> USE DEF Busy
<1>1. call \in [Slots -> Calls] /\ TypeOK
  BY DEF Inv, TypeOK
<1>2. ASSUME NEW c, Start(s, c), c.pc = "read"
      PROVE  /\ \A t \in Slots \ {s} : call'[t] = call[t]
             /\ call[s] = Free /\ call'[s].pc = "read" /\ Overlap(Slots \ {s})
  BY <1>1, <1>2 DEF Start
<1>3. CASE Tick(s) \/ Sync(s) \/ (\E f \in Logins, decision \in Decided : Confirm(s, f, decision))
           \/ \E i \in Pairs : Revoke(s, i)
  <2>1. ASSUME NEW o, NEW f, Start(s, [Free EXCEPT !.op = o, !.pc = "read", !.login = f])
        PROVE  /\ \A t \in Slots \ {s} : call'[t] = call[t]
               /\ call[s] = Free /\ call'[s].pc = "read" /\ Overlap(Slots \ {s})
    <3> DEFINE c == [Free EXCEPT !.op = o, !.pc = "read", !.login = f]
    <3>1. Start(s, c) /\ c.pc = "read"
      BY <2>1 DEF Free
    <3> HIDE DEF c
    <3> QED  BY <1>2, <3>1
  <2>2. ASSUME NEW o, NEW p, Start(s, [Free EXCEPT !.op = o, !.pc = "read", !.old = p])
        PROVE  /\ \A t \in Slots \ {s} : call'[t] = call[t]
               /\ call[s] = Free /\ call'[s].pc = "read" /\ Overlap(Slots \ {s})
    <3> DEFINE c == [Free EXCEPT !.op = o, !.pc = "read", !.old = p]
    <3>1. Start(s, c) /\ c.pc = "read"
      BY <2>2 DEF Free
    <3> HIDE DEF c
    <3> QED  BY <1>2, <3>1
  <2>3. ASSUME NEW o, NEW i, Start(s, [Free EXCEPT !.op = o, !.pc = "read", !.row = i])
        PROVE  /\ \A t \in Slots \ {s} : call'[t] = call[t]
               /\ call[s] = Free /\ call'[s].pc = "read" /\ Overlap(Slots \ {s})
    <3> DEFINE c == [Free EXCEPT !.op = o, !.pc = "read", !.row = i]
    <3>1. Start(s, c) /\ c.pc = "read"
      BY <2>3 DEF Free
    <3> HIDE DEF c
    <3> QED  BY <1>2, <3>1
  <2> QED  BY <1>3, <2>1, <2>2, <2>3 DEF Tick, Sync, Confirm, Revoke
<1>4. ASSUME NEW a \in Answers, Reply(s, a)
      PROVE  call'[s].pc # "idle" /\ \A t \in Slots \ {s} : call'[t] = call[t]
  BY <1>1, <1>4, ReplyFields
<1>5. ASSUME NEW pc \in Steps \ {"idle"}, Move(s, pc)
      PROVE  call'[s].pc # "idle" /\ \A t \in Slots \ {s} : call'[t] = call[t]
  BY <1>1, <1>5, MoveFields
<1>6. ASSUME NEW pc \in Steps \ {"idle"}, NEW i \in Pairs,
             call' = [call EXCEPT ![s].pc = pc, ![s].row = i]
      PROVE  call'[s].pc # "idle" /\ \A t \in Slots \ {s} : call'[t] = call[t]
  BY <1>1, <1>6, FoundFields
<1>7. ASSUME NEW i, MakePair(s, i)
      PROVE  call'[s].pc # "idle" /\ \A t \in Slots \ {s} : call'[t] = call[t]
  BY <1>1, <1>7, MadeFields
<1>8. CASE Fail(s)
  BY <1>4, <1>8 DEF Fail, Answers
<1>9. CASE IgnoredError(s)
  BY <1>4, <1>5, <1>9 DEF IgnoredError, At, Answers, Steps, Decided
<1>10. CASE PollReads(s)
  BY <1>4, <1>5, <1>7, <1>10 DEF PollReads, At, Answers, Steps
<1>11. CASE PollCreates(s) \/ PollDeletes(s)
  BY <1>4, <1>5, <1>11 DEF PollCreates, PollDeletes, At, Answers, Steps
<1>12. CASE ConfirmReads(s) \/ ConfirmSaves(s) \/ ConfirmExpires(s) \/ ConfirmDeletes(s)
  BY <1>4, <1>5, <1>12 DEF ConfirmReads, ConfirmSaves, ConfirmExpires, ConfirmDeletes, Answers, Steps
<1>13. CASE RefreshReads(s)
  BY <1>4, <1>6, <1>7, <1>13 DEF RefreshReads, RowsOf, At, Answers, Steps
<1>14. CASE RefreshDeletes(s) \/ RefreshSaves(s) \/ ValidateSaves(s) \/ RevokeDeletes(s)
  BY <1>4, <1>14 DEF RefreshDeletes, RefreshSaves, ValidateSaves, RevokeDeletes, At, Answers
<1>15. CASE ValidateReads(s)
  BY <1>4, <1>6, <1>15 DEF ValidateReads, RowsOf, At, Answers, Steps
<1>16. CASE RevokeReads(s)
  BY <1>4, <1>5, <1>16 DEF RevokeReads, At, Answers, Steps
<1>17. CASE PollAnswered(s) \/ Answered(s) \/ RefreshAnswered(s)
  <2>1. call[s].pc = "answer"
    BY <1>17 DEF PollAnswered, Answered, RefreshAnswered, At
  <2>2. PICK c : call' = [call EXCEPT ![s] = c] /\ (c = Free \/ c.pc = "read")
    BY <1>17 DEF PollAnswered, Answered, RefreshAnswered, Free
  <2> QED  BY <1>1, <2>1, <2>2
<1> QED  BY <1>3, <1>8, <1>9, <1>10, <1>11, <1>12, <1>13, <1>14, <1>15, <1>16, <1>17
         DEF SlotStep, HandlerStep, AnswerStep

\* What was in turn is in turn no longer after a call that overlaps another, for ever.
LEMMA TroubleGrows == [Next]_vars => trouble \subseteq trouble'
<1> USE DEF Start, Overlap
<1>1. ASSUME NEW s \in Slots, SlotStep(s) PROVE trouble \subseteq trouble'
  BY <1>1 DEF SlotStep, HandlerStep, AnswerStep, Tick, Sync, Confirm, Revoke, Fail, IgnoredError,
     PollReads, PollCreates, PollDeletes, ConfirmReads, ConfirmSaves, ConfirmExpires,
     ConfirmDeletes, RefreshReads, RefreshDeletes, RefreshSaves, ValidateReads, ValidateSaves,
     RevokeReads, RevokeDeletes, PollAnswered, RefreshAnswered, Answered
<1>2. ASSUME NEW f \in Logins, Login(f) \/ CodeLapses(f) PROVE trouble \subseteq trouble'
  BY <1>2 DEF Login, CodeLapses
<1>3. CASE StartPolling \/ Deactivate \/ AccessLapses \/ RefreshLapses \/ UNCHANGED vars
  BY <1>3 DEF StartPolling, Deactivate, AccessLapses, RefreshLapses, vars
<1> QED  BY <1>1, <1>2, <1>3 DEF Next, SlotStep

\* A slot that moves in turn moves alone.
LEMMA LoneStep ==
  ASSUME Inv, IdleFree, Alone, NEW s \in Slots, SlotStep(s), InTurn'
  PROVE  Lone(s) /\ IdleFree' /\ Alone'
<1> USE DEF Busy
<1>1. ASSUME NEW t \in Slots \ {s} PROVE ~Busy(t) /\ call[t] = Free
  <2>1. CASE Busy(s)
    BY <2>1 DEF Alone, IdleFree
  <2>2. CASE Overlap(Slots \ {s})
    BY <2>2 DEF Overlap, InTurn, IdleFree
  <2> QED  BY <2>1, <2>2, SlotCall
<1>2. Lone(s)
  BY <1>1, SlotCall DEF Lone
<1>3. Free.pc = "idle"
  BY DEF Free
<1>4. \A t \in Slots \ {s} : call'[t] = Free
  BY <1>2 DEF Lone
<1>5. Alone'
  BY <1>3, <1>4 DEF Alone
<1>6. call'[s].pc # "idle" \/ call'[s] = Free
  BY SlotCall
<1>7. IdleFree'
  BY <1>4, <1>6 DEF IdleFree
<1> QED  BY <1>2, <1>5, <1>7

-----------------------------------------------------------------------------
(* The login, in turn *)

LEMMA StartFields ==
  ASSUME TypeOK, NEW s \in Slots
  PROVE  /\ Tick(s) => /\ call'[s].op = "poll" /\ call'[s].pc = "read"
                       /\ call'[s].login = current /\ call'[s].answer = "none"
         /\ Sync(s) => /\ call'[s].op \in {"refresh", "validate"} /\ call'[s].pc = "read"
                       /\ call'[s].answer = "none"
         /\ \A f \in Logins, decision \in Decided : Confirm(s, f, decision) =>
              /\ call'[s].op = decision /\ call'[s].pc = "read" /\ call'[s].answer = "none"
         /\ \A i \in Pairs : Revoke(s, i) =>
              /\ call'[s].op = "revoke" /\ call'[s].pc = "read" /\ call'[s].row = i
              /\ call'[s].answer = "none"
<1>1. ASSUME NEW c, Start(s, c) PROVE call'[s] = c
  BY <1>1 DEF Start, TypeOK
<1>2. ASSUME Tick(s)
      PROVE  /\ call'[s].op = "poll" /\ call'[s].pc = "read"
             /\ call'[s].login = current /\ call'[s].answer = "none"
  <2> DEFINE c == [Free EXCEPT !.op = "poll", !.pc = "read", !.login = current]
  <2>1. Start(s, c)
    BY <1>2 DEF Tick
  <2>2. c.op = "poll" /\ c.pc = "read" /\ c.login = current /\ c.answer = "none"
    BY DEF Free
  <2> HIDE DEF c
  <2> QED  BY <1>1, <2>1, <2>2
<1>3. ASSUME Sync(s)
      PROVE  /\ call'[s].op \in {"refresh", "validate"} /\ call'[s].pc = "read"
             /\ call'[s].answer = "none"
  <2> DEFINE o == IF held > stale THEN "validate" ELSE "refresh"
             c == [Free EXCEPT !.op = o, !.pc = "read", !.old = held]
  <2>1. Start(s, c) /\ o \in {"refresh", "validate"}
    BY <1>3 DEF Sync
  <2> HIDE DEF o
  <2>2. c.op = o /\ c.pc = "read" /\ c.answer = "none"
    BY DEF Free
  <2> HIDE DEF c
  <2> QED  BY <1>1, <2>1, <2>2
<1>4. ASSUME NEW f \in Logins, NEW o \in Decided, Confirm(s, f, o)
      PROVE  /\ call'[s].op = o /\ call'[s].pc = "read" /\ call'[s].answer = "none"
  <2> DEFINE c == [Free EXCEPT !.op = o, !.pc = "read", !.login = f]
  <2>1. Start(s, c)
    BY <1>4 DEF Confirm
  <2>2. c.op = o /\ c.pc = "read" /\ c.answer = "none"
    BY DEF Free
  <2> HIDE DEF c
  <2> QED  BY <1>1, <2>1, <2>2
<1>5. ASSUME NEW i \in Pairs, Revoke(s, i)
      PROVE  /\ call'[s].op = "revoke" /\ call'[s].pc = "read" /\ call'[s].row = i
             /\ call'[s].answer = "none"
  <2> DEFINE c == [Free EXCEPT !.op = "revoke", !.pc = "read", !.row = i]
  <2>1. Start(s, c)
    BY <1>5 DEF Revoke
  <2>2. c.op = "revoke" /\ c.pc = "read" /\ c.row = i /\ c.answer = "none"
    BY DEF Free
  <2> HIDE DEF c
  <2> QED  BY <1>1, <2>1, <2>2
<1> QED  BY <1>2, <1>3, <1>4, <1>5

LEMMA FreeSignIn == LoginCallOK(Free) /\ LoginCallOK(Free)'
  BY DEF LoginCallOK, Unserved, Free, Decided

\* The other slots are free: what is to be shown is about s and about the logins.
LEMMA SignInStep ==
  ASSUME NEW s \in Slots, Lone(s), LoginCallOK(call[s])',
         \A f \in Logins : LoginOK(f)',
         (\A i, j \in Pairs : owner[i] = owner[j] /\ owner[i] # NoLogin => i = j)',
         PollsUntilAnswered'
  PROVE  SignInTurn'
<1>1. ASSUME NEW t \in Slots PROVE LoginCallOK(call[t])'
  <2>1. CASE t = s
    BY <2>1 DEF LoginCallOK, Unserved, Polled
  <2>2. CASE t # s
    <3>1. call'[t] = Free
      BY <2>2 DEF Lone
    <3> QED  BY <3>1, FreeSignIn DEF LoginCallOK, Unserved, Polled
  <2> QED  BY <2>1, <2>2
<1> QED  BY <1>1 DEF SignInTurn

\* A step that changes neither codes and rows nor the extension.
LEMMA SignInFrame ==
  ASSUME SignInTurn, NEW s \in Slots, Lone(s), LoginCallOK(call[s])',
         UNCHANGED <<code, decisions, owner, current, timer, answered>>,
         call[s].op = "poll" => call'[s].op = "poll"
  PROVE  SignInTurn'
<1>1. ASSUME NEW f \in Logins PROVE LoginOK(f)'
  <2>1. ASSUME NEW t \in Slots, call[t].op = "poll" PROVE t = s
    BY <2>1 DEF Lone, Free
  <2> QED  BY <2>1 DEF SignInTurn, LoginOK, Polled
<1>2. PollsUntilAnswered' /\ (\A i, j \in Pairs : owner[i] = owner[j] /\ owner[i] # NoLogin => i = j)'
  BY DEF SignInTurn, PollsUntilAnswered
<1> QED  BY <1>1, <1>2, SignInStep

LEMMA PollReadsSignIn ==
  ASSUME Inv, SignInTurn, NEW s \in Slots, Lone(s), PollReads(s)
  PROVE  SignInTurn'
<1>1. /\ call[s].op = "poll" /\ call[s].pc = "read" /\ TypeOK
      /\ UNCHANGED <<code, decisions, owner, current, timer, answered>>
  BY DEF PollReads, At, Inv
<1>2. LoginCallOK(call[s])
  BY DEF SignInTurn
<1>3. call'[s].op = "poll" /\ call'[s].login = call[s].login
      /\ (call'[s].pc = "save" => code[call[s].login] = "authorized")
  <2>1. CASE \E a \in {"error", "pending"} : Reply(s, a)
    BY <1>1, <2>1, ReplyFields DEF Answers
  <2>2. CASE Move(s, "delete")
    BY <1>1, <2>2, MoveFields DEF Steps
  <2>3. CASE code[call[s].login] = "authorized" /\ MakePair(s, made + 1)
    BY <1>1, <2>3, MadeFields
  <2> QED  BY <2>1, <2>2, <2>3 DEF PollReads
<1>4. LoginCallOK(call[s])'
  BY <1>1, <1>2, <1>3 DEF LoginCallOK, Unserved, Polled, Decided
<1> QED  BY <1>1, <1>3, <1>4, SignInFrame

LEMMA ConfirmReadsSignIn ==
  ASSUME Inv, SignInTurn, NEW s \in Slots, Lone(s), ConfirmReads(s)
  PROVE  SignInTurn'
<1>1. /\ call[s].op \in Decided /\ TypeOK
      /\ UNCHANGED <<code, decisions, owner, current, timer, answered>>
  BY DEF ConfirmReads, Inv
<1>2. /\ call'[s].op = call[s].op /\ call'[s].login = call[s].login
      /\ call'[s].pc = "save" => code[call[s].login] = "pending"
      /\ call'[s].pc = "expire" => code[call[s].login] # "gone"
  <2>1. CASE Reply(s, "error")
    BY <1>1, <2>1, ReplyFields DEF Answers
  <2>2. CASE code[call[s].login] # "gone" /\ Move(s, "expire")
    BY <1>1, <2>2, MoveFields DEF Steps
  <2>3. CASE code[call[s].login] = "pending" /\ Move(s, "save")
    BY <1>1, <2>3, MoveFields DEF Steps
  <2> QED  BY <2>1, <2>2, <2>3 DEF ConfirmReads
<1>3. LoginCallOK(call[s])'
  BY <1>1, <1>2 DEF LoginCallOK, Unserved, Decided
<1> QED  BY <1>1, <1>3, SignInFrame DEF Decided

\* A call that fails, or whose service ignores an error.
LEMMA FailSignIn ==
  ASSUME Inv, SignInTurn, NEW s \in Slots, Lone(s), Fail(s) \/ IgnoredError(s)
  PROVE  SignInTurn'
<1>1. UNCHANGED <<code, decisions, owner, current, timer, answered>> /\ TypeOK
  BY DEF Fail, IgnoredError, Inv
<1>2. /\ call'[s].op = call[s].op /\ call'[s].login = call[s].login
      /\ (call'[s].pc = "answer" /\ call'[s].answer # "pending")
           \/ (call'[s].op # "poll" /\ call'[s].pc = "delete")
  <2>1. CASE \E a \in {"error", "ok", "over"} : Reply(s, a)
    BY <1>1, <2>1, ReplyFields DEF Answers
  <2>2. CASE call[s].op \in Decided /\ Move(s, "delete")
    BY <1>1, <2>2, MoveFields DEF Steps, Decided
  <2> QED  BY <2>1, <2>2 DEF Fail, IgnoredError
<1>3. LoginCallOK(call[s])'
  BY <1>1, <1>2 DEF LoginCallOK, Unserved, SignInTurn
<1> QED  BY <1>1, <1>2, <1>3, SignInFrame

\* Calls that have nothing to do with a login, or are about to read its code.
LEMMA OtherSignIn ==
  ASSUME Inv, SignInTurn, NEW s \in Slots, Lone(s),
         \/ Sync(s)
         \/ \E f \in Logins, decision \in Decided : Confirm(s, f, decision)
         \/ \E i \in Pairs : Revoke(s, i)
         \/ RefreshReads(s) \/ RefreshDeletes(s) \/ RefreshSaves(s)
         \/ ValidateReads(s) \/ ValidateSaves(s) \/ RevokeReads(s) \/ RevokeDeletes(s)
         \/ RefreshAnswered(s) \/ Answered(s)
  PROVE  SignInTurn'
<1>1. UNCHANGED <<code, decisions, owner, current, timer, answered>> /\ TypeOK
  BY DEF Sync, Confirm, Revoke, RefreshReads, RefreshDeletes, RefreshSaves, ValidateReads,
         ValidateSaves, RevokeReads, RevokeDeletes, RefreshAnswered, Answered, Inv
<1>2. ASSUME call'[s].op \notin Decided \cup {"poll"} \/ (call'[s].op # "poll" /\ call'[s].pc = "read"),
             call[s].op # "poll"
      PROVE  SignInTurn'
  <2>1. LoginCallOK(call[s])'
    BY <1>2 DEF LoginCallOK, Unserved, Decided
  <2> QED  BY <1>1, <1>2, <2>1, SignInFrame
<1>3. ASSUME Sync(s) \/ (\E f \in Logins, decision \in Decided : Confirm(s, f, decision))
               \/ \E i \in Pairs : Revoke(s, i)
      PROVE  SignInTurn'
  <2>1. call[s].op # "poll"
    <3>1. call[s] = Free
      BY <1>3 DEF Sync, Confirm, Revoke, Start
    <3> QED  BY <3>1 DEF Free
  <2> QED  BY <1>1, <1>2, <1>3, <2>1, StartFields DEF Decided
<1>4. ASSUME call[s].op \in {"refresh", "validate", "revoke"},
             \/ RefreshReads(s) \/ RefreshDeletes(s) \/ RefreshSaves(s)
             \/ ValidateReads(s) \/ ValidateSaves(s) \/ RevokeReads(s) \/ RevokeDeletes(s)
      PROVE  SignInTurn'
  <2>1. call'[s].op = call[s].op
    <3>1. ASSUME NEW a \in Answers, Reply(s, a) PROVE call'[s].op = call[s].op
      BY <1>1, <3>1, ReplyFields
    <3>2. CASE RefreshReads(s)
      BY <1>1, <3>1, <3>2, FoundFields, MadeFields DEF RefreshReads, RowsOf, Answers, Steps
    <3>3. CASE ValidateReads(s)
      BY <1>1, <3>1, <3>3, FoundFields DEF ValidateReads, RowsOf, Answers, Steps
    <3>4. CASE RevokeReads(s)
      BY <1>1, <3>1, <3>4, MoveFields DEF RevokeReads, Answers, Steps
    <3>5. CASE RefreshDeletes(s) \/ RefreshSaves(s) \/ ValidateSaves(s) \/ RevokeDeletes(s)
      BY <3>1, <3>5 DEF RefreshDeletes, RefreshSaves, ValidateSaves, RevokeDeletes, Answers
    <3> QED  BY <1>4, <3>2, <3>3, <3>4, <3>5
  <2> QED  BY <1>2, <1>4, <2>1 DEF Decided
<1>5. ASSUME RefreshAnswered(s) \/ Answered(s) PROVE SignInTurn'
  <2>1. call[s].op # "poll"
    BY <1>5 DEF RefreshAnswered, Answered, At, Decided
  <2>2. call'[s].op \in {"none", "validate"}
    <3>1. \A c : call' = [call EXCEPT ![s] = c] => call'[s] = c
      BY <1>1 DEF TypeOK
    <3>2. CASE call' = [call EXCEPT ![s] = Free]
      BY <3>1, <3>2 DEF Free
    <3>3. CASE call' = [call EXCEPT ![s] = [Free EXCEPT !.op = "validate", !.pc = "read",
                                                        !.old = call[s].new]]
      <4> DEFINE c == [Free EXCEPT !.op = "validate", !.pc = "read", !.old = call[s].new]
      <4>1. c.op = "validate"
        BY DEF Free
      <4> HIDE DEF c
      <4> QED  BY <3>1, <3>3, <4>1 DEF c
    <3> QED  BY <1>5, <3>2, <3>3 DEF RefreshAnswered, Answered
  <2> QED  BY <1>2, <2>1, <2>2 DEF Decided
<1> QED  BY <1>3, <1>4, <1>5 DEF RefreshReads, RefreshDeletes, RefreshSaves, ValidateReads,
            ValidateSaves, RevokeReads, RevokeDeletes, At

\* A tick starts only when no poll is under way, so no row was made for a code it can poll.
LEMMA TickSignIn ==
  ASSUME Inv, SignInTurn, TimerOK, NEW s \in Slots, Lone(s), Tick(s)
  PROVE  SignInTurn'
<1>1. /\ UNCHANGED <<code, decisions, owner, current, timer, answered>> /\ timer = "on"
      /\ call[s].op # "poll" /\ TypeOK /\ current \in Logins
  BY DEF Tick, Start, Free, Inv, TimerOK
<1>2. \A t \in Slots : call[t].op # "poll"
  BY <1>1 DEF Lone, Free
<1>3. ~Polled(current) \/ code[current] = "gone"
  BY <1>1, <1>2 DEF SignInTurn, LoginOK
<1>4. call'[s].op = "poll" /\ call'[s].pc = "read" /\ call'[s].login = current
  BY <1>1, StartFields
<1>5. LoginCallOK(call[s])'
  BY <1>1, <1>3, <1>4 DEF LoginCallOK, Unserved, Polled, Decided
<1> QED  BY <1>1, <1>5, SignInFrame

\* The row is made, for a login that had none.
LEMMA PollCreatesSignIn ==
  ASSUME Inv, SignInTurn, NEW s \in Slots, Lone(s), PollCreates(s)
  PROVE  SignInTurn'
<1>1. /\ call[s].op = "poll" /\ call[s].pc = "save" /\ TypeOK
      /\ UNCHANGED <<code, decisions, current, timer, answered>>
      /\ owner' = [owner EXCEPT ![call[s].row] = call[s].login]
      /\ LoginCallOK(call[s])
  BY DEF PollCreates, At, Inv, SignInTurn
<1>2. PICK f \in Logins, i \in Pairs : f = call[s].login /\ i = call[s].row
  BY <1>1 DEF Inv, CallsOK, CallOK, SubjectOK, StoreOK, Pending
<1>3. /\ call'[s].op = "poll" /\ call'[s].pc = "delete" /\ call'[s].login = f
  BY <1>1, <1>2, MoveFields DEF PollCreates, Steps
<1>4. code[f] = "authorized" /\ ~Polled(f)
  BY <1>1, <1>2 DEF LoginCallOK, Unserved
<1>5. \A j \in Pairs : owner'[j] = IF j = i THEN f ELSE owner[j]
  BY <1>1, <1>2 DEF TypeOK
<1>6. \A g \in Logins \ {f} : Polled(g)' => Polled(g)
  BY <1>5 DEF Polled
<1>7. LoginCallOK(call[s])'
  BY <1>1, <1>2, <1>3 DEF LoginCallOK, Unserved, Decided
<1>8. ASSUME NEW g \in Logins PROVE LoginOK(g)'
  <2>1. LoginOK(g)
    BY DEF SignInTurn
  <2>2. g = f => code[g] = "authorized"
    BY <1>4
  <2> QED  BY <1>1, <1>3, <1>6, <2>1, <2>2 DEF LoginOK
<1>9. (\A j, k \in Pairs : owner[j] = owner[k] /\ owner[j] # NoLogin => j = k)'
  BY <1>4, <1>5 DEF SignInTurn, Polled
<1>10. PollsUntilAnswered'
  BY <1>1 DEF SignInTurn, PollsUntilAnswered
<1> QED  BY <1>7, <1>8, <1>9, <1>10, SignInStep

\* A code that is decided, expires or goes: what a confirmation knows of it still holds.
LEMMA CodeSignIn ==
  ASSUME Inv, SignInTurn, NEW s \in Slots, Lone(s),
         PollDeletes(s) \/ ConfirmSaves(s) \/ ConfirmExpires(s) \/ ConfirmDeletes(s)
  PROVE  SignInTurn'
<1>1. /\ UNCHANGED <<owner, current, timer, answered>> /\ TypeOK /\ LoginCallOK(call[s])
      /\ call[s].op \in Decided \cup {"poll"}
  BY DEF PollDeletes, ConfirmSaves, ConfirmExpires, ConfirmDeletes, At, Inv, SignInTurn
<1>2. PICK f \in Logins : f = call[s].login
  BY <1>1 DEF Inv, CallsOK, CallOK, SubjectOK
<1>3. LoginOK(f) /\ \A g \in Logins : LoginOK(g)
  BY DEF SignInTurn
<1>4. /\ call'[s].op = call[s].op /\ call'[s].login = f
      /\ call'[s].pc = "delete" \/ (call'[s].pc = "answer" /\ call'[s].answer # "pending")
  <2>1. CASE \E a \in {"over", "tokens", "ok", "error"} : Reply(s, a)
    BY <1>1, <1>2, <2>1, ReplyFields DEF Answers
  <2>2. CASE Move(s, "delete")
    <3>1. "delete" \in Steps
      BY DEF Steps
    <3> QED  BY <1>1, <1>2, <2>2, <3>1, MoveFields
  <2> QED  BY <2>1, <2>2 DEF PollDeletes, ConfirmSaves, ConfirmExpires, ConfirmDeletes
<1>5. LoginCallOK(call[s])'
  BY <1>1, <1>2, <1>4 DEF LoginCallOK, Unserved, Decided
<1>6. \A g \in Logins \ {f} : code'[g] = code[g] /\ decisions'[g] = decisions[g]
  BY <1>2 DEF PollDeletes, ConfirmSaves, ConfirmExpires, ConfirmDeletes, Inv, TypeOK
<1>7. ASSUME NEW g \in Logins \ {f} PROVE LoginOK(g)'
  <2>1. LoginOK(g) /\ code'[g] = code[g] /\ decisions'[g] = decisions[g]
    BY <1>3, <1>6
  <2>2. \A t \in Slots : call[t].op = "poll" => call'[t].op = "poll"
    BY <1>4 DEF Lone, Free
  <2>3. Polled(g)' => Polled(g)
    BY <1>1 DEF Polled
  <2> QED  BY <1>1, <1>3, <1>6, <2>2, <2>3 DEF LoginOK
<1>8. LoginOK(f)'
  <2>1. CASE PollDeletes(s) \/ ConfirmDeletes(s)
    <3>1. code'[f] = "gone" /\ decisions' = decisions
      BY <1>2, <2>1 DEF PollDeletes, ConfirmDeletes, Inv, TypeOK
    <3> QED  BY <1>3, <3>1 DEF LoginOK
  <2>2. CASE ConfirmExpires(s)
    <3>1. code'[f] = "expired" /\ decisions' = decisions /\ code[f] # "gone"
      BY <1>1, <1>2, <2>2 DEF ConfirmExpires, Inv, TypeOK, LoginCallOK
    <3>2. \A t \in Slots : call[t].op # "poll"
      BY <2>2 DEF ConfirmExpires, Decided, Lone, Free
    <3>3. Polled(f)' => Polled(f)
      BY <1>1 DEF Polled
    <3> QED  BY <1>1, <1>3, <3>1, <3>2, <3>3 DEF LoginOK
  <2>3. CASE ConfirmSaves(s)
    <3>1. PICK o \in Decided : o = call[s].op
      BY <2>3 DEF ConfirmSaves
    <3>2. /\ code'[f] = o /\ decisions'[f] = decisions[f] \cup {o} /\ code[f] = "pending"
      BY <1>1, <1>2, <2>3, <3>1 DEF ConfirmSaves, Inv, TypeOK, LoginCallOK
    <3>3. decisions[f] = {}
      BY <1>3, <3>2 DEF LoginOK
    <3>4. decisions'[f] # Decided /\ o \notin {"new", "pending", "gone"}
      BY <3>2, <3>3 DEF Decided
    <3>5. \A t \in Slots : call[t].op # "poll"
      BY <3>1 DEF Decided, Lone, Free
    <3>6. Polled(f)' => Polled(f)
      BY <1>1 DEF Polled
    <3> QED  BY <1>1, <1>3, <3>2, <3>4, <3>5, <3>6 DEF LoginOK
  <2> QED  BY <2>1, <2>2, <2>3
<1>9. PollsUntilAnswered' /\ (\A j, k \in Pairs : owner[j] = owner[k] /\ owner[j] # NoLogin => j = k)'
  BY <1>1 DEF SignInTurn, PollsUntilAnswered
<1> QED  BY <1>5, <1>7, <1>8, <1>9, SignInStep

\* A final answer ends the polling of the login it is for: it is the one that runs.
LEMMA PollAnsweredSignIn ==
  ASSUME Inv, SignInTurn, NEW s \in Slots, Lone(s), PollAnswered(s)
  PROVE  SignInTurn'
<1>1. /\ call[s].op = "poll" /\ call[s].pc = "answer" /\ TypeOK /\ LoginCallOK(call[s])
      /\ UNCHANGED <<code, decisions, owner, current>>
      /\ call'[s] = Free
  BY DEF PollAnswered, At, Inv, TypeOK, SignInTurn
<1>2. PICK f \in Logins : f = call[s].login
  BY <1>1 DEF Inv, CallsOK, CallOK, SubjectOK
<1>3. current \in {f, NoLogin} /\ timer \in {"on", "off"}
  BY <1>1, <1>2 DEF LoginCallOK, TypeOK
<1>4. LoginCallOK(call[s])'
  BY <1>1, FreeSignIn DEF LoginCallOK, Unserved, Polled
<1>5. CASE call[s].answer = "pending"
  <2>1. UNCHANGED <<timer, answered>>
    BY <1>5 DEF PollAnswered
  <2>2. ~Polled(f) \/ code[f] = "gone"
    BY <1>1, <1>2, <1>5 DEF LoginCallOK, Unserved
  <2>3. ASSUME NEW g \in Logins PROVE LoginOK(g)'
    <3>1. LoginOK(g) /\ (current = g => g = f) /\ (Polled(g)' <=> Polled(g))
      BY <1>1, <1>3, NoLoginAssumption DEF SignInTurn, Polled
    <3> QED  BY <1>1, <2>2, <3>1 DEF LoginOK
  <2>4. PollsUntilAnswered'
    BY <1>1, <2>1 DEF SignInTurn, PollsUntilAnswered
  <2>5. (\A j, k \in Pairs : owner[j] = owner[k] /\ owner[j] # NoLogin => j = k)'
    BY <1>1 DEF SignInTurn
  <2> QED  BY <1>4, <2>3, <2>4, <2>5, SignInStep
<1>6. CASE call[s].answer # "pending"
  <2>1. timer' = "off" /\ answered' = answered \cup {f}
    BY <1>2, <1>3, <1>6 DEF PollAnswered, ClearTimer
  <2>2. ASSUME NEW g \in Logins PROVE LoginOK(g)'
    <3>1. LoginOK(g) /\ (Polled(g)' <=> Polled(g))
      BY <1>1 DEF SignInTurn, Polled
    <3> QED  BY <1>1, <2>1, <3>1 DEF LoginOK
  <2>3. PollsUntilAnswered'
    BY <1>1, <1>3, <2>1 DEF PollsUntilAnswered
  <2>4. (\A j, k \in Pairs : owner[j] = owner[k] /\ owner[j] # NoLogin => j = k)'
    BY <1>1 DEF SignInTurn
  <2> QED  BY <1>4, <2>2, <2>3, <2>4, SignInStep
<1> QED  BY <1>5, <1>6

\* A login that starts in turn finds every slot free.
LEMMA LoginSignIn ==
  ASSUME Inv, SignInTurn, IdleFree, NEW f \in Logins, Login(f), InTurn'
  PROVE  SignInTurn' /\ IdleFree' /\ Alone'
<1>1. \A t \in Slots : call[t] = Free /\ call'[t] = Free
  BY DEF Login, Overlap, InTurn, IdleFree
<1>2. IdleFree' /\ Alone'
  BY <1>1 DEF IdleFree, Alone, Busy, Free
<1>3. \A t \in Slots : LoginCallOK(call[t])'
  BY <1>1, FreeSignIn DEF LoginCallOK, Unserved, Polled
<1>4. /\ UNCHANGED <<decisions, owner>> /\ code[f] = "new" /\ current' = f
      /\ \A g \in Logins : g # f => code'[g] = code[g]
      /\ code'[f] \in {"pending", "gone"}
  BY DEF Login, Inv, TypeOK
<1>5. \A g \in Logins : LoginOK(g) /\ (Polled(g)' <=> Polled(g))
  BY <1>4 DEF SignInTurn, Polled
<1>6. ASSUME NEW g \in Logins PROVE LoginOK(g)'
  <2>1. CASE g = f
    <3>1. decisions[g] = {} /\ ~Polled(g)
      BY <1>4, <1>5, <2>1 DEF LoginOK
    <3> QED  BY <1>4, <1>5, <3>1 DEF LoginOK, Decided
  <2>2. CASE g # f
    BY <1>4, <1>5, <2>2 DEF LoginOK
  <2> QED  BY <2>1, <2>2
<1>7. PollsUntilAnswered'
  BY DEF Login, PollsUntilAnswered
<1>8. (\A j, k \in Pairs : owner[j] = owner[k] /\ owner[j] # NoLogin => j = k)'
  BY <1>4 DEF SignInTurn
<1> QED  BY <1>2, <1>3, <1>6, <1>7, <1>8 DEF SignInTurn

\* Time, the prompt and the end of the extension.
Aside ==
  \/ StartPolling \/ Deactivate \/ AccessLapses \/ RefreshLapses
  \/ \E f \in Logins : CodeLapses(f)
  \/ UNCHANGED vars

LEMMA AsideSignIn ==
  ASSUME Inv, SignInTurn, Aside
  PROVE  SignInTurn'
<1>1. UNCHANGED <<code, decisions, owner, answered, call>>
  BY DEF Aside, StartPolling, Deactivate, AccessLapses, RefreshLapses, CodeLapses, vars
<1>2. /\ timer' # "off" => timer # "off"
      /\ timer' = "prompt" => timer = "prompt"
      /\ current' = current \/ current' = NoLogin
      /\ current' # NoLogin => timer' = timer \/ timer' = "on"
  BY DEF Aside, StartPolling, Deactivate, AccessLapses, RefreshLapses, CodeLapses, vars
<1>3. ASSUME NEW t \in Slots PROVE LoginCallOK(call[t])'
  <2>1. LoginCallOK(call[t])
    BY DEF SignInTurn
  <2> QED  BY <1>1, <1>2, <2>1 DEF LoginCallOK, Unserved, Polled
<1>4. ASSUME NEW g \in Logins PROVE LoginOK(g)'
  <2>1. LoginOK(g) /\ (Polled(g)' <=> Polled(g))
    BY <1>1 DEF SignInTurn, Polled
  <2> QED  BY <1>1, <1>2, <2>1, NoLoginAssumption DEF LoginOK
<1>5. PollsUntilAnswered'
  BY <1>1, <1>2 DEF SignInTurn, PollsUntilAnswered
<1>6. (\A j, k \in Pairs : owner[j] = owner[k] /\ owner[j] # NoLogin => j = k)'
  BY <1>1 DEF SignInTurn
<1> QED  BY <1>3, <1>4, <1>5, <1>6 DEF SignInTurn

LEMMA SlotSignIn ==
  ASSUME Inv, TimerOK, SignInTurn, NEW s \in Slots, Lone(s), SlotStep(s)
  PROVE  SignInTurn'
  BY PollReadsSignIn, ConfirmReadsSignIn, FailSignIn, OtherSignIn, TickSignIn,
     PollCreatesSignIn, CodeSignIn, PollAnsweredSignIn
  DEF SlotStep, HandlerStep, AnswerStep

-----------------------------------------------------------------------------
(* The rows, in turn *)

LEMMA FreeRow == RowCallOK(Free) /\ RowCallOK(Free)'
  BY DEF RowCallOK, HandsOut, Free

Hold == \/ trouble # {} \/ held = None \/ Kept(held)
        \/ \E s \in Slots : call[s].op = "refresh" /\ call[s].answer = "tokens"

LEMMA RowStep ==
  ASSUME NEW s \in Slots, Lone(s), RowCallOK(call[s])', \A p \in Pairs : PairOK(p)', Hold'
  PROVE  RowTurn'
<1>1. ASSUME NEW t \in Slots PROVE RowCallOK(call[t])'
  <2>1. CASE t = s
    BY <2>1
  <2>2. CASE t # s
    <3>1. call'[t] = Free
      BY <2>2 DEF Lone
    <3> QED  BY <3>1, FreeRow DEF RowCallOK, HandsOut, Kept
  <2> QED  BY <2>1, <2>2
<1> QED  BY <1>1 DEF RowTurn, Hold

LEMMA HoldBefore ==
  ASSUME RowTurn, NEW s \in Slots, Lone(s), ~(call[s].op = "refresh" /\ call[s].answer = "tokens")
  PROVE  trouble # {} \/ held = None \/ Kept(held)
<1>1. \A t \in Slots \ {s} : call[t].op = "none"
  BY DEF Lone, Free
<1> QED  BY <1>1 DEF RowTurn

\* A step that changes no row.
LEMMA RowFrame ==
  ASSUME Inv, RowTurn, NEW s \in Slots, Lone(s), RowCallOK(call[s])',
         UNCHANGED <<row, home, revoked, owner, spent, held, dead>>, trouble \subseteq trouble',
         call[s].op = "refresh" /\ call[s].answer = "tokens" => trouble' # {}
  PROVE  RowTurn'
<1>1. \A p \in Pairs : PairOK(p)'
  BY DEF RowTurn, PairOK
<1>2. Hold'
  <2>1. CASE call[s].op = "refresh" /\ call[s].answer = "tokens"
    BY <2>1 DEF Hold
  <2>2. CASE ~(call[s].op = "refresh" /\ call[s].answer = "tokens")
    BY <2>2, HoldBefore DEF Hold, Kept
  <2> QED  BY <2>1, <2>2
<1> QED  BY <1>1, <1>2, RowStep

LEMMA FailRow ==
  ASSUME Inv, RowTurn, NEW s \in Slots, Lone(s), Fail(s) \/ IgnoredError(s)
  PROVE  RowTurn'
<1>1. /\ UNCHANGED <<row, home, revoked, owner, spent, held, dead>>
      /\ trouble' = trouble \cup {"failure"} /\ TypeOK /\ RowCallOK(call[s])
  BY DEF Fail, IgnoredError, Inv, RowTurn
<1>2. /\ call'[s].op = call[s].op /\ call'[s].row = call[s].row
      /\ call'[s].pc = "answer" \/ (call'[s].op \in Decided /\ call'[s].pc = "delete")
  <2>1. CASE \E a \in {"error", "ok", "over"} : Reply(s, a)
    BY <1>1, <2>1, ReplyFields DEF Answers
  <2>2. CASE call[s].op \in Decided /\ Move(s, "delete")
    BY <1>1, <2>2, MoveFields DEF Steps
  <2> QED  BY <2>1, <2>2 DEF Fail, IgnoredError
<1>3. RowCallOK(call[s])'
  BY <1>1, <1>2 DEF RowCallOK, Decided
<1> QED  BY <1>1, <1>3, RowFrame

\* Calls that start, and steps of a login's calls that make no row.
LEMMA LoginCallsRow ==
  ASSUME Inv, RowTurn, NEW s \in Slots, Lone(s),
         \/ Tick(s) \/ Sync(s)
         \/ \E f \in Logins, decision \in Decided : Confirm(s, f, decision)
         \/ PollReads(s) \/ PollDeletes(s)
         \/ ConfirmReads(s) \/ ConfirmSaves(s) \/ ConfirmExpires(s) \/ ConfirmDeletes(s)
  PROVE  RowTurn'
<1>1. /\ UNCHANGED <<row, home, revoked, owner, spent, held, dead>>
      /\ trouble \subseteq trouble' /\ TypeOK
  BY DEF Tick, Sync, Confirm, Start, Overlap, PollReads, PollDeletes, ConfirmReads, ConfirmSaves,
         ConfirmExpires, ConfirmDeletes, Inv
<1>2. RowCallOK(call[s]) /\ CallOK(call[s])
  BY DEF RowTurn, Inv, CallsOK
<1>3. CASE \/ Tick(s) \/ Sync(s)
           \/ \E f \in Logins, decision \in Decided : Confirm(s, f, decision)
  <2>1. call'[s].pc = "read" /\ call'[s].answer = "none" /\ call'[s].op # "revoke"
    BY <1>1, <1>3, StartFields DEF Decided
  <2>2. RowCallOK(call[s])'
    BY <2>1 DEF RowCallOK, HandsOut
  <2>3. call[s] = Free
    BY <1>3 DEF Tick, Sync, Confirm, Start
  <2>4. call[s].op # "refresh"
    BY <2>3 DEF Free
  <2> QED  BY <1>1, <2>2, <2>4, RowFrame
<1>4. CASE PollReads(s)
  <2>1. call[s].op = "poll" /\ call[s].pc = "read" /\ call[s].answer # "tokens" /\ call[s].new = None
    BY <1>4, ReadsHaveNoAnswer DEF PollReads, At
  <2>2. CASE \E a \in {"error", "pending"} : Reply(s, a)
    <3>1. RowCallOK(call[s])'
      BY <1>1, <2>1, <2>2, ReplyFields DEF RowCallOK, HandsOut, Answers
    <3> QED  BY <1>1, <2>1, <3>1, RowFrame
  <2>3. CASE Move(s, "delete")
    <3>1. RowCallOK(call[s])'
      BY <1>1, <2>1, <2>3, MoveFields DEF RowCallOK, HandsOut, Steps
    <3> QED  BY <1>1, <2>1, <3>1, RowFrame
  <2>4. CASE MakePair(s, made + 1)
    <3>1. RowCallOK(call[s])'
      BY <1>1, <2>1, <2>4, MadeFields DEF RowCallOK, HandsOut
    <3> QED  BY <1>1, <2>1, <3>1, RowFrame
  <2> QED  BY <1>4, <2>2, <2>3, <2>4 DEF PollReads
<1>5. CASE PollDeletes(s)
  <2>1. call[s].op = "poll" /\ call[s].pc = "delete" /\ trouble' = trouble
    BY <1>5 DEF PollDeletes, At
  <2> DEFINE a == IF call[s].new = None THEN "over" ELSE "tokens"
  <2>2. Reply(s, a) /\ a \in Answers
    BY <1>5 DEF PollDeletes, Answers
  <2>3. a = "tokens" => HandsOut(call[s])
    BY <2>1 DEF HandsOut
  <2> HIDE DEF a
  <2>4. /\ call'[s].op = "poll" /\ call'[s].pc = "answer" /\ call'[s].answer = a
        /\ call'[s].new = call[s].new
    BY <1>1, <2>1, <2>2, ReplyFields
  <2>5. RowCallOK(call[s])'
    BY <1>1, <1>2, <2>1, <2>3, <2>4 DEF RowCallOK, HandsOut, Kept
  <2> QED  BY <1>1, <2>1, <2>5, RowFrame
<1>6. CASE ConfirmReads(s) \/ ConfirmSaves(s) \/ ConfirmExpires(s) \/ ConfirmDeletes(s)
  <2>1. call[s].op \in Decided /\ trouble' = trouble
    BY <1>6 DEF ConfirmReads, ConfirmSaves, ConfirmExpires, ConfirmDeletes
  <2>2. CASE \E b \in {"error", "ok"} : Reply(s, b)
    <3>1. RowCallOK(call[s])'
      BY <1>1, <2>1, <2>2, ReplyFields DEF RowCallOK, HandsOut, Answers, Decided
    <3> QED  BY <1>1, <2>1, <3>1, RowFrame DEF Decided
  <2>3. CASE \E pc \in {"expire", "save", "delete"} : Move(s, pc)
    <3>1. /\ call'[s].op = call[s].op /\ call'[s].answer = call[s].answer
          /\ call'[s].new = call[s].new
      BY <1>1, <2>3, MoveFields DEF Steps
    <3>2. RowCallOK(call[s])'
      BY <1>1, <1>2, <2>1, <3>1 DEF RowCallOK, HandsOut, Kept, Decided
    <3> QED  BY <1>1, <2>1, <3>2, RowFrame DEF Decided
  <2> QED  BY <1>6, <2>2, <2>3 DEF ConfirmReads, ConfirmSaves, ConfirmExpires, ConfirmDeletes
<1> QED  BY <1>3, <1>4, <1>5, <1>6

\* Calls that find a row, and the start of a revocation, whose row was made.
LEMMA RowReads ==
  ASSUME Inv, RowTurn, NEW s \in Slots, Lone(s),
         \/ RefreshReads(s) \/ ValidateReads(s) \/ RevokeReads(s) \/ Answered(s)
         \/ \E i \in Pairs : Revoke(s, i)
  PROVE  RowTurn'
<1>1. /\ UNCHANGED <<row, home, revoked, owner, spent, held, dead>>
      /\ trouble \subseteq trouble' /\ TypeOK /\ RowCallOK(call[s])
  BY DEF RefreshReads, ValidateReads, RevokeReads, Answered, Revoke, Start, Overlap, RowTurn, Inv
<1>2. CASE RefreshReads(s)
  <2>1. call[s].op = "refresh" /\ call[s].pc = "read" /\ call[s].answer # "tokens"
    BY <1>2, ReadsHaveNoAnswer DEF RefreshReads, At
  <2>2. CASE Reply(s, "error")
    <3>1. RowCallOK(call[s])'
      BY <1>1, <2>1, <2>2, ReplyFields DEF RowCallOK, HandsOut, Answers
    <3> QED  BY <1>1, <2>1, <3>1, RowFrame
  <2>3. ASSUME NEW i \in RowsOf(call[s].old), call[s].old <= dead,
               call' = [call EXCEPT ![s].pc = "delete", ![s].row = i]
        PROVE  RowTurn'
    <3>1. i \in Pairs /\ row[i] = call[s].old /\ "delete" \in Steps
      BY DEF RowsOf, Steps
    <3>2. /\ call'[s].pc = "delete" /\ call'[s].row = i /\ call'[s].op = "refresh"
          /\ call'[s].old = call[s].old /\ call'[s].answer = call[s].answer
      BY <1>1, <2>1, <2>3, <3>1, FoundFields
    <3>3. RowCallOK(call[s])'
      BY <1>1, <2>1, <2>3, <3>1, <3>2 DEF RowCallOK, HandsOut
    <3> QED  BY <1>1, <2>1, <3>3, RowFrame
  <2>4. ASSUME NEW i \in RowsOf(call[s].old), MakePair(s, i) PROVE RowTurn'
    <3>1. i \in Pairs /\ row[i] = call[s].old
      BY DEF RowsOf
    <3>2. RowCallOK(call[s])'
      BY <1>1, <2>1, <2>4, <3>1, MadeFields DEF RowCallOK, HandsOut
    <3> QED  BY <1>1, <2>1, <3>2, RowFrame
  <2> QED  BY <1>2, <2>2, <2>3, <2>4 DEF RefreshReads
<1>3. CASE ValidateReads(s)
  <2>1. call[s].op = "validate" /\ call[s].pc = "read" /\ call[s].answer # "tokens"
    BY <1>3, ReadsHaveNoAnswer DEF ValidateReads, At
  <2>2. CASE Reply(s, "error")
    <3>1. RowCallOK(call[s])'
      BY <1>1, <2>1, <2>2, ReplyFields DEF RowCallOK, HandsOut, Answers
    <3> QED  BY <1>1, <2>1, <3>1, RowFrame
  <2>3. ASSUME NEW i \in RowsOf(call[s].old), call' = [call EXCEPT ![s].pc = "save", ![s].row = i]
        PROVE  RowTurn'
    <3>1. i \in Pairs /\ row[i] = call[s].old /\ "save" \in Steps
      BY DEF RowsOf, Steps
    <3>2. /\ call'[s].pc = "save" /\ call'[s].row = i /\ call'[s].op = "validate"
          /\ call'[s].old = call[s].old /\ call'[s].answer = call[s].answer
      BY <1>1, <2>1, <2>3, <3>1, FoundFields
    <3>3. RowCallOK(call[s])'
      BY <1>1, <2>1, <3>1, <3>2 DEF RowCallOK, HandsOut
    <3> QED  BY <1>1, <2>1, <3>3, RowFrame
  <2> QED  BY <1>3, <2>2, <2>3 DEF ValidateReads
<1>4. CASE RevokeReads(s)
  <2>1. call[s].op = "revoke" /\ call[s].pc = "read" /\ call[s].answer # "tokens"
    BY <1>4, ReadsHaveNoAnswer DEF RevokeReads, At
  <2>2. /\ call'[s].op = "revoke" /\ call'[s].row = call[s].row
        /\ call'[s].answer # "tokens"
    BY <1>1, <1>4, <2>1, ReplyFields, MoveFields DEF RevokeReads, Answers, Steps
  <2>3. RowCallOK(call[s])'
    BY <1>1, <2>1, <2>2 DEF RowCallOK, HandsOut
  <2> QED  BY <1>1, <2>1, <2>3, RowFrame
<1>5. CASE Answered(s)
  <2>1. call'[s] = Free /\ call[s].op # "refresh"
    BY <1>1, <1>5 DEF Answered, TypeOK, Decided
  <2>2. RowCallOK(call[s])'
    BY <2>1, FreeRow DEF RowCallOK, HandsOut, Kept
  <2> QED  BY <1>1, <2>1, <2>2, RowFrame
<1>6. ASSUME NEW i \in Pairs, Revoke(s, i) PROVE RowTurn'
  <2>1. call'[s].op = "revoke" /\ call'[s].row = i /\ call'[s].answer = "none"
    BY <1>1, <1>6, StartFields
  <2>2. home[i] # None
    BY <1>6 DEF Revoke, RowTurn, PairOK
  <2>3. RowCallOK(call[s])'
    BY <1>1, <2>1, <2>2 DEF RowCallOK, HandsOut
  <2>4. call[s] = Free
    BY <1>6 DEF Revoke, Start
  <2>5. call[s].op # "refresh"
    BY <2>4 DEF Free
  <2> QED  BY <1>1, <2>3, <2>5, RowFrame
<1> QED  BY <1>2, <1>3, <1>4, <1>5, <1>6

\* A row that is made is new, and was never revoked.
LEMMA PollCreatesRow ==
  ASSUME Inv, RowTurn, NEW s \in Slots, Lone(s), PollCreates(s)
  PROVE  RowTurn'
<1>1. /\ call[s].op = "poll" /\ call[s].pc = "save" /\ TypeOK
      /\ UNCHANGED <<revoked, spent, held, dead, trouble>>
      /\ RowCallOK(call[s])
  BY DEF PollCreates, At, Inv, RowTurn
<1>2. PICK f \in Logins, i \in Pairs :
        f = call[s].login /\ i = call[s].row /\ i = call[s].new /\ home[i] = None
  BY <1>1 DEF Inv, CallsOK, CallOK, SubjectOK, StoreOK, Pending
<1>3. /\ row' = [row EXCEPT ![i] = i] /\ home' = [home EXCEPT ![i] = i]
      /\ owner' = [owner EXCEPT ![i] = f]
  BY <1>2 DEF PollCreates
<1>4. \A p \in Pairs : /\ row'[p] = IF p = i THEN i ELSE row[p]
                       /\ home'[p] = IF p = i THEN i ELSE home[p]
                       /\ owner'[p] = IF p = i THEN f ELSE owner[p]
  BY <1>3 DEF Inv, TypeOK
<1>5. /\ call'[s].op = "poll" /\ call'[s].new = i
  BY <1>1, <1>2, MoveFields DEF PollCreates, Steps
<1>6. RowCallOK(call[s])'
  BY <1>4, <1>5 DEF RowCallOK, Kept
<1>7. ASSUME NEW p \in Pairs PROVE PairOK(p)'
  <2>1. PairOK(p) /\ PairOK(i)
    BY DEF RowTurn
  <2> QED  BY <1>1, <1>2, <1>4, <2>1 DEF PairOK
<1>8. Hold'
  <2>1. trouble # {} \/ held = None \/ Kept(held)
    BY <1>1, HoldBefore
  <2>2. ASSUME held # None, Kept(held) PROVE Kept(held)'
    <3>1. held \in Pairs /\ home[held] \in Pairs /\ Approved(home[held])
      BY <2>2 DEF Inv, HeldOK, TypeOK
    <3>2. held # i /\ home[held] # i
      BY <1>2, <3>1 DEF Approved, RowTurn, PairOK
    <3> QED  BY <1>1, <1>4, <2>2, <3>1, <3>2 DEF Kept
  <2> QED  BY <1>1, <2>1, <2>2 DEF Hold
<1> QED  BY <1>6, <1>7, <1>8, RowStep

\* The row of a pair that is no longer good is deleted, or an administrator deletes one.
LEMMA DeletesRow ==
  ASSUME Inv, RowTurn, NEW s \in Slots, Lone(s), RefreshDeletes(s) \/ RevokeDeletes(s)
  PROVE  RowTurn'
<1>1. /\ TypeOK /\ UNCHANGED <<home, owner, spent, held, dead, trouble>>
      /\ RowCallOK(call[s]) /\ SubjectOK(call[s])
  BY DEF RefreshDeletes, RevokeDeletes, RowTurn, Inv, CallsOK, CallOK
<1>2. PICK i \in Pairs : i = call[s].row
  BY <1>1 DEF RefreshDeletes, RevokeDeletes, At, RowCallOK, SubjectOK
<1>3. /\ \A p \in Pairs : row'[p] = IF p = i THEN None ELSE row[p]
      /\ revoked \subseteq revoked'
      /\ \A p \in Pairs : p \in revoked' => p \in revoked \/ (p = i /\ home[i] # None)
      /\ \/ i \in revoked'
         \/ call[s].op = "refresh" /\ row[i] = call[s].old /\ call[s].old <= dead
  BY <1>1, <1>2 DEF RefreshDeletes, RevokeDeletes, At, TypeOK, RowCallOK
<1>4. PICK a \in {"error", "ok"} : Reply(s, a)
  BY DEF RefreshDeletes, RevokeDeletes
<1>5. /\ call'[s].op = call[s].op /\ call'[s].pc = "answer" /\ call'[s].answer = a
      /\ call'[s].row = i /\ call[s].op # "poll"
      /\ call[s].op = "revoke" => home[i] # None
  BY <1>1, <1>2, <1>4, ReplyFields DEF Answers, RefreshDeletes, RevokeDeletes, At, RowCallOK
<1>6. RowCallOK(call[s])'
  BY <1>1, <1>5 DEF RowCallOK, HandsOut
<1>7. ASSUME NEW p \in Pairs PROVE PairOK(p)'
  <2>1. PairOK(p)
    BY DEF RowTurn
  <2> QED  BY <1>1, <1>3, <2>1 DEF PairOK
<1>8. Hold'
  <2>1. CASE call[s].op = "refresh" /\ call[s].answer = "tokens"
    BY <1>1, <2>1 DEF RefreshDeletes, RevokeDeletes, At, RowCallOK
  <2>2. CASE trouble # {} \/ held = None
    BY <1>1, <2>2 DEF Hold
  <2>3. CASE Kept(held) /\ held # None
    <3>1. held \in Pairs /\ home[held] \in Pairs
      BY <2>3 DEF Inv, HeldOK, TypeOK
    <3>2. Kept(held)'
      <4>1. CASE home[held] # i
        BY <1>1, <1>3, <2>3, <3>1, <4>1 DEF Kept
      <4>2. CASE home[held] = i
        BY <1>1, <1>3, <2>3, <3>1, <4>2 DEF Kept
      <4> QED  BY <4>1, <4>2
    <3> QED  BY <3>2 DEF Hold
  <2> QED  BY <2>1, <2>2, <2>3, HoldBefore
<1> QED  BY <1>6, <1>7, <1>8, RowStep

\* A refresh in turn takes the pair its row still stores: no other row stores it, and the
\* pair that takes its place is new.
LEMMA RefreshSavesRow ==
  ASSUME Inv, RowTurn, NEW s \in Slots, Lone(s), RefreshSaves(s)
  PROVE  RowTurn'
<1>1. /\ call[s].op = "refresh" /\ call[s].pc = "save" /\ TypeOK
      /\ UNCHANGED <<owner, held, dead, trouble, revoked>>
      /\ RowCallOK(call[s])
  BY DEF RefreshSaves, At, Inv, RowTurn
<1>2. PICK i \in Pairs, n \in Pairs, p \in Pairs :
        /\ i = call[s].row /\ n = call[s].new /\ p = call[s].old
        /\ home[n] = None /\ Approved(i) /\ row[i] = p
  BY <1>1 DEF Inv, CallsOK, CallOK, SubjectOK, StoreOK, Pending, RowCallOK
<1>3. home[p] = i /\ p # n /\ spent[p] = 0 /\ spent[n] = 0 /\ i \notin revoked /\ i # n
  <2>1. home[p] = i
    BY <1>2 DEF Inv, RowsOK
  <2>2. PairOK(p) /\ PairOK(n) /\ PairOK(i)
    BY DEF RowTurn
  <2>3. spent[p] = 0 /\ spent[n] = 0 /\ i \notin revoked
    BY <1>2, <2>2 DEF PairOK
  <2>4. i # n
    BY <1>2, <2>2 DEF PairOK, Approved
  <2> QED  BY <1>2, <2>1, <2>3, <2>4
<1>4. /\ \A q \in Pairs : /\ row'[q] = IF q = i THEN n ELSE row[q]
                          /\ home'[q] = IF q = n THEN i ELSE home[q]
                          /\ spent'[q] = IF q = p THEN 1 ELSE spent[q]
  BY <1>2, <1>3 DEF RefreshSaves, Inv, TypeOK
<1>5. /\ call'[s].op = "refresh" /\ call'[s].pc = "answer" /\ call'[s].new = n
      /\ call'[s].answer = "tokens"
  BY <1>1, <1>2, ReplyFields DEF RefreshSaves, Answers
<1>6. RowCallOK(call[s])'
  BY <1>4, <1>5 DEF RowCallOK, Kept
<1>7. ASSUME NEW q \in Pairs PROVE PairOK(q)'
  <2>1. PairOK(q)
    BY DEF RowTurn
  <2>2. spent'[q] # 0 => home'[q] # None
    BY <1>3, <1>4, <2>1 DEF PairOK
  <2>3. \A j \in Pairs : row[j] = p => j = i
    BY <1>2, <1>3 DEF Inv, RowsOK
  <2>4. spent'[q] # 0 => \A j \in Pairs : row'[j] # q
    BY <1>3, <1>4, <2>1, <2>3 DEF PairOK
  <2> QED  BY <1>1, <1>3, <1>4, <2>1, <2>2, <2>4 DEF PairOK
<1>8. Hold'
  BY <1>5 DEF Hold
<1> QED  BY <1>6, <1>7, <1>8, RowStep

\* A validation in turn writes back what is there.
LEMMA ValidateSavesRow ==
  ASSUME Inv, RowTurn, NEW s \in Slots, Lone(s), ValidateSaves(s)
  PROVE  RowTurn'
<1>1. /\ call[s].op = "validate" /\ call[s].pc = "save" /\ TypeOK
      /\ UNCHANGED <<home, owner, held, dead, trouble, revoked, spent>>
      /\ RowCallOK(call[s]) /\ Reply(s, "ok")
  BY DEF ValidateSaves, At, Inv, RowTurn
<1>2. row' = row
  <2>1. row' = [row EXCEPT ![call[s].row] = call[s].old] /\ row[call[s].row] = call[s].old
    BY <1>1 DEF ValidateSaves, RowCallOK
  <2> QED  BY <1>1, <2>1 DEF TypeOK
<1>3. RowCallOK(call[s])'
  BY <1>1, ReplyFields DEF RowCallOK, HandsOut, Answers
<1> QED  BY <1>1, <1>2, <1>3, RowFrame

\* The extension takes the pair it is handed.
LEMMA TakesPairRow ==
  ASSUME Inv, RowTurn, NEW s \in Slots, Lone(s), PollAnswered(s) \/ RefreshAnswered(s)
  PROVE  RowTurn'
<1>1. /\ TypeOK /\ RowCallOK(call[s])
      /\ UNCHANGED <<row, home, revoked, owner, spent, dead, trouble>>
      /\ \/ held' = held /\ (RefreshAnswered(s) => call[s].answer # "tokens")
         \/ held' = call[s].new /\ call[s].answer = "tokens"
  BY DEF PollAnswered, RefreshAnswered, RowTurn, Inv
<1>2. \A p \in Pairs : PairOK(p)'
  BY <1>1 DEF RowTurn, PairOK
<1>3. Hold'
  <2>1. CASE held' = call[s].new /\ call[s].answer = "tokens"
    BY <1>1, <2>1 DEF Hold, RowCallOK, HandsOut, Kept
  <2>2. CASE held' = held /\ (RefreshAnswered(s) => call[s].answer # "tokens")
    <3>1. trouble # {} \/ held = None \/ Kept(held)
      BY <2>2, HoldBefore DEF PollAnswered, At
    <3> QED  BY <1>1, <2>2, <3>1 DEF Hold, Kept
  <2> QED  BY <1>1, <2>1, <2>2
<1>4. call'[s].op # "revoke" /\ call'[s].pc \in {"idle", "read"} /\ call'[s].answer = "none"
  <2>1. \A c : call' = [call EXCEPT ![s] = c] => call'[s] = c
    BY <1>1 DEF TypeOK
  <2>2. CASE call' = [call EXCEPT ![s] = Free]
    <3>1. call'[s] = Free
      BY <2>1, <2>2
    <3> QED  BY <3>1 DEF Free
  <2>3. CASE call' = [call EXCEPT ![s] = [Free EXCEPT !.op = "validate", !.pc = "read",
                                                      !.old = call[s].new]]
    <3> DEFINE c == [Free EXCEPT !.op = "validate", !.pc = "read", !.old = call[s].new]
    <3>1. c.op = "validate" /\ c.pc = "read" /\ c.answer = "none"
      BY DEF Free
    <3> HIDE DEF c
    <3> QED  BY <2>1, <2>3, <3>1 DEF c
  <2> QED  BY <2>2, <2>3 DEF PollAnswered, RefreshAnswered
<1>5. RowCallOK(call[s])'
  BY <1>4 DEF RowCallOK, HandsOut
<1> QED  BY <1>2, <1>3, <1>5, RowStep

LEMMA SlotRow ==
  ASSUME Inv, RowTurn, NEW s \in Slots, Lone(s), SlotStep(s)
  PROVE  RowTurn'
  BY FailRow, LoginCallsRow, RowReads, PollCreatesRow, DeletesRow, RefreshSavesRow,
     ValidateSavesRow, TakesPairRow
  DEF SlotStep, HandlerStep, AnswerStep

\* Steps of no slot: time only passes, and a new login asks for a code.
LEMMA AsideRow ==
  ASSUME Inv, RowTurn, Aside \/ \E f \in Logins : Login(f)
  PROVE  RowTurn'
<1>1. UNCHANGED <<row, home, revoked, owner, spent, held, call>> /\ trouble \subseteq trouble'
      /\ dead \in Int /\ dead' \in Int /\ dead <= dead'
  <2>1. dead \in Int /\ dead + 1 \in Int /\ dead <= dead + 1
    BY DEF Inv, TypeOK
  <2>2. CASE StartPolling \/ Deactivate \/ AccessLapses \/ RefreshLapses
    BY <2>1, <2>2 DEF StartPolling, Deactivate, AccessLapses, RefreshLapses
  <2>3. CASE UNCHANGED vars
    BY <2>1, <2>3 DEF vars
  <2>4. ASSUME NEW f \in Logins, CodeLapses(f) \/ Login(f)
        PROVE  /\ UNCHANGED <<row, home, revoked, owner, spent, held, call, dead>>
               /\ trouble \subseteq trouble'
    BY <2>4 DEF CodeLapses, Login, Overlap
  <2> QED  BY <2>1, <2>2, <2>3, <2>4 DEF Aside
<1>2. \A p \in Pairs : PairOK(p)'
  BY <1>1 DEF RowTurn, PairOK
<1>3. \A p \in Pairs : Kept(p) => Kept(p)'
  BY <1>1 DEF Kept
<1>4. ASSUME NEW t \in Slots PROVE RowCallOK(call[t])'
  <2>1. RowCallOK(call[t]) /\ CallOK(call[t]) /\ call[t] \in Calls
    BY DEF RowTurn, Inv, CallsOK, TypeOK
  <2>2. HandsOut(call[t]) => call[t].new \in Pairs
    BY <2>1 DEF CallOK, HandOutOK
  <2>3. HandsOut(call[t])' <=> HandsOut(call[t])
    BY <1>1 DEF HandsOut
  <2>4. call[t].old \in Int
    BY <2>1 DEF Calls
  <2> QED  BY <1>1, <1>3, <2>1, <2>2, <2>3, <2>4 DEF RowCallOK
<1>5. held # None => held \in Pairs
  BY DEF Inv, TypeOK
<1>6. Hold'
  BY <1>1, <1>3, <1>5 DEF RowTurn, Hold
<1> QED  BY <1>2, <1>4, <1>6 DEF RowTurn, Hold

-----------------------------------------------------------------------------
(* The invariant of sign-in in turn, and what follows from it *)

LEMMA InitTurn == Init => TurnInv
<1> SUFFICES ASSUME Init PROVE TurnInv
  OBVIOUS
<1>1. \A s \in Slots : call[s] = Free
  BY DEF Init
<1>2. IdleFree /\ Alone
  BY <1>1 DEF IdleFree, Alone, Busy, Free
<1>3. \A s \in Slots : LoginCallOK(call[s]) /\ RowCallOK(call[s])
  BY <1>1, FreeSignIn, FreeRow
<1>4. \A f \in Logins : LoginOK(f)
  BY DEF Init, LoginOK, Polled, Decided
<1>5. \A p \in Pairs : PairOK(p)
  BY DEF Init, PairOK
<1> QED
  BY <1>2, <1>3, <1>4, <1>5 DEF TurnInv, SignInTurn, RowTurn, PollsUntilAnswered, Init

LEMMA NextTurn == Inv /\ TimerOK /\ TurnInv /\ [Next]_vars => TurnInv'
<1> SUFFICES ASSUME Inv, TimerOK, TurnInv, [Next]_vars PROVE TurnInv'
  OBVIOUS
<1>1. InTurn' => InTurn /\ Alone /\ SignInTurn /\ RowTurn
  BY TroubleGrows DEF InTurn, TurnInv
<1>2. ASSUME NEW s \in Slots, SlotStep(s) PROVE TurnInv'
  <2>1. call'[s].pc # "idle" \/ call'[s] = Free
    BY <1>2, SlotCall DEF Busy
  <2>2. IdleFree'
    BY <1>2, <2>1, SlotCall DEF IdleFree, TurnInv, Busy
  <2>3. ASSUME InTurn' PROVE Alone' /\ SignInTurn' /\ RowTurn'
    BY <1>1, <1>2, <2>3, LoneStep, SlotSignIn, SlotRow DEF TurnInv
  <2> QED  BY <2>2, <2>3 DEF TurnInv
<1>3. ASSUME NEW f \in Logins, Login(f) PROVE TurnInv'
  <2>1. IdleFree'
    BY <1>3 DEF Login, TurnInv, IdleFree, Busy
  <2>2. ASSUME InTurn' PROVE Alone' /\ SignInTurn' /\ RowTurn'
    BY <1>1, <1>3, <2>2, LoginSignIn, AsideRow DEF TurnInv
  <2> QED  BY <2>1, <2>2 DEF TurnInv
<1>4. CASE Aside
  <2>1. UNCHANGED call
    BY <1>4 DEF Aside, StartPolling, Deactivate, AccessLapses, RefreshLapses, CodeLapses, vars
  <2>2. IdleFree' /\ (Alone => Alone')
    BY <2>1 DEF TurnInv, IdleFree, Alone, Busy
  <2>3. ASSUME InTurn' PROVE Alone' /\ SignInTurn' /\ RowTurn'
    BY <1>1, <1>4, <2>2, <2>3, AsideSignIn, AsideRow
  <2> QED  BY <2>2, <2>3 DEF TurnInv
<1> QED  BY <1>2, <1>3, <1>4 DEF Next, SlotStep, Aside

LEMMA TurnHolds == Spec => [](Inv /\ TurnInv)
<1>1. Init => TimerOK
  BY DEF Init, TimerOK
<1> QED  BY <1>1, InitInv, InitTurn, TimerStep, NextInv, NextTurn, PTL DEF Spec

\* As long as no two calls overlap, one login makes one client row, whatever fails and
\* however often the extension polls: it polls no more after the first error.
THEOREM OneLoginOneRow == Spec => []TokensOnce
<1>1. TurnInv => TokensOnce
  BY DEF TurnInv, SignInTurn, TokensOnce
<1> QED  BY <1>1, TurnHolds, PTL

\* As long as no two calls overlap, a code is decided once, and the decision stands.
THEOREM DecidedOnce == Spec => []DecisionStands
<1>1. TurnInv => DecisionStands
  BY DEF TurnInv, SignInTurn, LoginOK, DecisionStands
<1> QED  BY <1>1, TurnHolds, PTL

\* As long as no two calls overlap, a refresh token is taken at most once, retries of a
\* refresh whose answer was lost included.
THEOREM RefreshedOnce == Spec => []OneTimeRefresh
<1>1. TurnInv => OneTimeRefresh
  BY DEF TurnInv, RowTurn, PairOK, OneTimeRefresh
<1> QED  BY <1>1, TurnHolds, PTL

\* As long as no two calls overlap, nothing writes a revoked row back.
THEOREM RevokedForGood == Spec => []RevokedStaysRevoked
<1>1. Inv /\ TurnInv => RevokedStaysRevoked
  BY DEF Inv, TypeOK, TurnInv, RowTurn, PairOK, RevokedStaysRevoked
<1> QED  BY <1>1, TurnHolds, PTL

\* As long as nothing overlaps or fails, the extension holds the pair its row stores once
\* its calls have returned, unless that row was revoked or outlived.
THEOREM PairAndRowAgree == Spec => []ClientKeepsItsRow
<1>1. Inv /\ TurnInv => ClientKeepsItsRow
  <2> SUFFICES ASSUME Inv, TurnInv, trouble = {}, held # None, \A s \in Slots : ~Busy(s)
               PROVE  Kept(held)
    BY DEF ClientKeepsItsRow, Kept
  <2>1. \A s \in Slots : call[s] = Free
    BY DEF TurnInv, IdleFree
  <2>2. ~\E s \in Slots : call[s].op = "refresh"
    BY <2>1 DEF Free
  <2> QED  BY <2>2 DEF TurnInv, InTurn, RowTurn
<1> QED  BY <1>1, TurnHolds, PTL

\* As long as no two calls overlap, the extension polls until the login that runs has had
\* its final answer: the answer that clears the interval is that login's.
THEOREM PollsGoOn == Spec => []PollsInTurn
<1>1. TurnInv => PollsInTurn
  BY DEF TurnInv, SignInTurn, PollsInTurn
<1> QED  BY <1>1, TurnHolds, PTL

=============================================================================
