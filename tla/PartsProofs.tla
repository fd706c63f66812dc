----------------------------- MODULE PartsProofs ------------------------------
(***************************************************************************)
(* Proofs about five parts that share no variable: the file stores of a    *)
(* single host, the authority managed from the browser, the recovery of a  *)
(* paid mission, the reviews of services, and the event stream of a run.   *)
(* Each has its inductive invariant, the lemmas it needs and its theorems. *)
(***************************************************************************)
EXTENDS FileStores, BrowserAuthority, MissionRecovery, ServiceFeedback, RunStream,
        FiniteSetTheorems, SequenceTheorems, TLAPS

-----------------------------------------------------------------------------
(* FileStores: a record is replaced under a lock that never expires.        *)

FileTypeOK ==
  /\ file \in [FileKeys -> SUBSET FileFacts]
  /\ lock \in Callers \cup {FileOwner0}
  /\ call \in [Callers -> CallState]
  /\ copy \in [Callers -> [ReceiptKeys -> SUBSET FileFacts]]
  /\ won \in [Callers -> SUBSET ReceiptKeys]

Inside(c) == call[c].at \in {"locked", "read", "renamed"}

\* Who is inside holds the lock, and what it read is still what the file says.
LockHeld == \A c \in Callers : /\ Inside(c) => lock = c
                               /\ call[c].at = "read" => call[c].read = file

\* A call was admitted by MayAsk, from a copy that has not moved since.
Asked(c) == LET o == call[c] IN
  call[c].at \in {"waiting", "locked", "read"} =>
    /\ o.op \in {"admit", "update", "begin", "pay", "answer", "fail"}
    /\ o.op \in {"admit", "update"} => o.key \in RunKeys
    /\ o.op \in {"begin", "pay", "answer", "fail"} => o.key \in ReceiptKeys
    /\ o.op = "pay"    => o.key \in won[c]
    /\ o.op = "answer" => "paid" \in copy[c][o.key]
    /\ o.op = "fail"   => o.key \in won[c] \/ "paid" \in copy[c][o.key]

\* One process begins a receipt, and no other learns of a payment before it.
CopiesFollow == \A c \in Callers : \A k \in ReceiptKeys :
    /\ "paid" \in copy[c][k] => "paid" \in file[k]
    /\ k \in won[c] => /\ file[k] # {}
                       /\ \A d \in Callers : k \in won[d] => d = c
                       /\ "paid" \in file[k] => "paid" \in copy[c][k]

FileInv == FileTypeOK /\ LockHeld /\ (\A c \in Callers : Asked(c)) /\ CopiesFollow

LEMMA NoCallTyped ==
  /\ NoCall \in CallState /\ NoCall.at = "idle" /\ EmptyFile \in [FileKeys -> SUBSET FileFacts]
  /\ \A k \in FileKeys : EmptyFile[k] = {}
BY FileAssumption DEF NoCall, CallState, EmptyFile

LEMMA FileInvInit == FileInit => FileInv
<1> SUFFICES ASSUME FileInit PROVE FileInv
  OBVIOUS
<1>1. FileTypeOK
  BY NoCallTyped DEF FileInit, FileTypeOK
<1>2. LockHeld /\ (\A c \in Callers : Asked(c)) /\ CopiesFollow
  BY NoCallTyped DEF FileInit, LockHeld, Inside, Asked, CopiesFollow
<1>3. QED
  BY <1>1, <1>2 DEF FileInv

\* The steps of a call that leave the file, the copies and the receipts alone.
LEMMA CallMoves ==
  ASSUME FileInv, NEW c \in Callers, NEW o \in CallState,
         call' = [call EXCEPT ![c] = o], UNCHANGED <<file, copy, won>>,
         lock' \in Callers \cup {FileOwner0},
         \A d \in Callers : Inside(d)' => lock' = d,
         o.at = "read" => o.read = file,
         o.at \in {"waiting", "locked", "read"} =>
            /\ o.op \in {"admit", "update", "begin", "pay", "answer", "fail"}
            /\ \/ MayAsk(c, o.op, o.key) /\ o.key \in FileKeys
               \/ call[c].at \in {"waiting", "locked"} /\ o.op = call[c].op /\ o.key = call[c].key
  PROVE  FileInv'
<1>1. FileTypeOK'
  BY DEF FileInv, FileTypeOK
<1>2. call'[c] = o /\ \A d \in Callers \ {c} : call'[d] = call[d]
  BY DEF FileInv, FileTypeOK
<1>3. LockHeld'
  BY <1>2 DEF FileInv, LockHeld
<1>4. ASSUME NEW d \in Callers
      PROVE  Asked(d)'
  <2>1. CASE d # c
    BY <1>2, <2>1 DEF FileInv, Asked
  <2>2. CASE d = c
    <3>1. won[c] \subseteq ReceiptKeys
      BY DEF FileInv, FileTypeOK
    <3> DEFINE Fine ==
          /\ o.op \in {"admit", "update"} => o.key \in RunKeys
          /\ o.op \in {"begin", "pay", "answer", "fail"} => o.key \in ReceiptKeys
          /\ o.op = "pay" => o.key \in won[c]
          /\ o.op = "answer" => "paid" \in copy[c][o.key]
          /\ o.op = "fail" => o.key \in won[c] \/ "paid" \in copy[c][o.key]
    <3>2. ASSUME MayAsk(c, o.op, o.key), o.op \in {"admit", "update", "begin", "pay", "answer", "fail"}
          PROVE  Fine
      <4>1. CASE o.op \in {"admit", "update"}
        BY <3>2, <4>1 DEF MayAsk
      <4>2. CASE o.op = "begin"
        BY <3>2, <4>2 DEF MayAsk
      <4>3. CASE o.op = "pay"
        BY <3>1, <3>2, <4>3 DEF MayAsk
      <4>4. CASE o.op = "answer"
        BY <3>2, <4>4 DEF MayAsk
      <4>5. CASE o.op = "fail"
        BY <3>1, <3>2, <4>5 DEF MayAsk
      <4>6. QED
        BY <3>2, <4>1, <4>2, <4>3, <4>4, <4>5
    <3>3. ASSUME call[c].at \in {"waiting", "locked"}, o.op = call[c].op, o.key = call[c].key
          PROVE  Fine
      BY <3>3 DEF FileInv, Asked
    <3>4. o.at \in {"waiting", "locked", "read"} =>
            o.op \in {"admit", "update", "begin", "pay", "answer", "fail"} /\ Fine
      BY <3>2, <3>3
    <3>5. call'[d] = o /\ won' = won /\ copy' = copy
      BY <1>2, <2>2
    <3>6. o.at \in {"waiting", "locked", "read"} =>
            /\ o.op \in {"admit", "update", "begin", "pay", "answer", "fail"}
            /\ o.op \in {"admit", "update"} => o.key \in RunKeys
            /\ o.op \in {"begin", "pay", "answer", "fail"} => o.key \in ReceiptKeys
            /\ o.op = "pay" => o.key \in won'[d]
            /\ o.op = "answer" => "paid" \in copy'[d][o.key]
            /\ o.op = "fail" => o.key \in won'[d] \/ "paid" \in copy'[d][o.key]
      BY <2>2, <3>4, <3>5
    <3>7. QED
      BY <3>5, <3>6 DEF Asked
  <2>3. QED
    BY <2>1, <2>2
<1>5. CopiesFollow'
  BY DEF FileInv, CopiesFollow
<1>6. QED
  BY <1>1, <1>3, <1>4, <1>5 DEF FileInv

LEMMA CallSteps ==
  ASSUME FileInv, NEW c \in Callers,
         \/ \E op \in {"admit", "update", "begin", "pay", "answer", "fail"}, k \in FileKeys :
              Ask(c, op, k)
         \/ Acquire(c) \/ LockTimesOut(c) \/ ReadStore(c) \/ Release(c) \/ CallerDies(c)
  PROVE  FileInv' /\ UNCHANGED file
<1> DEFINE o == call[c]
<1>1. o \in CallState /\ FileTypeOK /\ LockHeld /\ MaxCalls \in Nat /\ FileOwner0 \notin Callers
  BY FileAssumption DEF FileInv, FileTypeOK
<1>2. ASSUME NEW i \in CallState, i.at \in {"idle", "waiting", "dead"},
             call' = [call EXCEPT ![c] = i], lock' \in {lock} \cup {FileOwner0},
             lock' # lock => lock = c
      PROVE  \A d \in Callers : Inside(d)' => lock' = d
  BY <1>1, <1>2 DEF LockHeld, Inside, FileTypeOK
<1>3. CASE \E op \in {"admit", "update", "begin", "pay", "answer", "fail"}, k \in FileKeys :
              Ask(c, op, k)
  <2>1. PICK op \in {"admit", "update", "begin", "pay", "answer", "fail"}, k \in FileKeys :
              Ask(c, op, k)
    BY <1>3
  <2> DEFINE i == [o EXCEPT !.at = "waiting", !.op = op, !.key = k, !.made = o.made + 1]
  <2>9. o.made < MaxCalls
    BY <2>1 DEF Ask
  <2>0. o.made \in 0..MaxCalls /\ o.made + 1 \in 0..MaxCalls
    BY <1>1, <2>9 DEF CallState
  <2>2. i \in CallState /\ i.at = "waiting" /\ i.op = op /\ i.key = k
    BY <1>1, <2>0 DEF CallState
  <2>3. call' = [call EXCEPT ![c] = i] /\ UNCHANGED <<file, lock, copy, won>> /\ MayAsk(c, op, k)
    BY <2>1 DEF Ask
  <2> HIDE DEF i
  <2>4. \A d \in Callers : Inside(d)' => lock' = d
    BY <1>2, <2>2, <2>3
  <2>5. QED
    BY <1>1, <2>2, <2>3, <2>4, CallMoves DEF FileTypeOK
<1>4. CASE Acquire(c)
  <2> DEFINE i == [o EXCEPT !.at = "locked"]
  <2>1. /\ o.at = "waiting" /\ lock = FileOwner0 /\ lock' = c
        /\ call' = [call EXCEPT ![c] = i] /\ UNCHANGED <<file, copy, won>>
    BY <1>1, <1>4 DEF Acquire, FileTypeOK
  <2>2. i \in CallState /\ i.at = "locked" /\ i.op = o.op /\ i.key = o.key
    BY <1>1 DEF CallState
  <2> HIDE DEF i
  <2>3. \A d \in Callers : Inside(d)' => lock' = d
    BY <1>1, <2>1, <2>2 DEF LockHeld, Inside, FileTypeOK
  <2>4. o.op \in {"admit", "update", "begin", "pay", "answer", "fail"}
    BY <2>1 DEF FileInv, Asked
  <2>5. QED
    BY <1>1, <2>1, <2>2, <2>3, <2>4, CallMoves
<1>5. CASE ReadStore(c)
  <2> DEFINE i == [o EXCEPT !.at = "read", !.read = file]
  <2>1. /\ o.at = "locked" /\ call' = [call EXCEPT ![c] = i] /\ UNCHANGED <<file, lock, copy, won>>
    BY <1>1, <1>5 DEF ReadStore, FileTypeOK
  <2>2. i \in CallState /\ i.at = "read" /\ i.op = o.op /\ i.key = o.key /\ i.read = file
    BY <1>1 DEF CallState, FileTypeOK
  <2> HIDE DEF i
  <2>3. \A d \in Callers : Inside(d)' => lock' = d
    BY <1>1, <2>1, <2>2 DEF LockHeld, Inside, FileTypeOK
  <2>4. o.op \in {"admit", "update", "begin", "pay", "answer", "fail"}
    BY <2>1 DEF FileInv, Asked
  <2>5. QED
    BY <1>1, <2>1, <2>2, <2>3, <2>4, CallMoves DEF FileTypeOK
<1>6. ASSUME NEW i \in CallState, i.at \in {"idle", "dead"}, call' = [call EXCEPT ![c] = i],
             UNCHANGED <<file, copy, won>>, lock' \in {lock} \cup {FileOwner0},
             lock' # lock => lock = c
      PROVE  FileInv' /\ UNCHANGED file
  <2>1. \A d \in Callers : Inside(d)' => lock' = d
    BY <1>2, <1>6
  <2>2. QED
    BY <1>1, <1>6, <2>1, CallMoves DEF FileTypeOK
<1> DEFINE i == [NoCall EXCEPT !.made = call[c].made]
<1>7. i \in CallState /\ i.at = "idle"
  BY <1>1, NoCallTyped DEF CallState
<1>8. CASE LockTimesOut(c)
  BY <1>6, <1>7, <1>8 DEF LockTimesOut
<1>9. CASE Release(c)
  <2>1. lock = c
    BY <1>1, <1>9 DEF Release, LockHeld, Inside
  <2>2. QED
    BY <1>6, <1>7, <1>9, <2>1 DEF Release
<1>10. CASE CallerDies(c)
  <2> DEFINE r == [NoCall EXCEPT !.at = "dead", !.made = call[c].made]
  <2>1. r \in CallState /\ r.at = "dead"
    BY <1>1, NoCallTyped DEF CallState
  <2>2. QED
    BY <1>6, <1>10, <2>1 DEF CallerDies
<1>11. QED
  BY <1>3, <1>4, <1>5, <1>8, <1>9, <1>10

LEMMA OtherSteps ==
  ASSUME FileInv,
         \/ \E c \in Callers : (\E k \in ReceiptKeys : Get(c, k)) \/ CallerRestarts(c)
         \/ OperatorUnlocks
  PROVE  FileInv' /\ UNCHANGED file
<1>1. FileTypeOK /\ LockHeld /\ MaxCalls \in Nat /\ FileOwner0 \notin Callers
  BY FileAssumption DEF FileInv
<1>2. ASSUME NEW c \in Callers, NEW k \in ReceiptKeys, Get(c, k)
      PROVE  FileInv' /\ UNCHANGED file
  <2>1. /\ call[c].at = "idle" /\ copy' = [copy EXCEPT ![c][k] = file[k]]
        /\ UNCHANGED <<file, lock, call, won>>
    BY <1>2 DEF Get
  <2>2. FileTypeOK' /\ LockHeld'
    BY <1>1, <2>1 DEF FileTypeOK, LockHeld, Inside, FileKeys
  <2>3. /\ copy'[c][k] = file[k]
        /\ \A d \in Callers, l \in ReceiptKeys : d # c \/ l # k => copy'[d][l] = copy[d][l]
    BY <1>1, <2>1 DEF FileTypeOK
  <2>4. \A d \in Callers : Asked(d)'
    BY <1>1, <2>1, <2>3 DEF FileInv, Asked, FileTypeOK
  <2>5. CopiesFollow'
    BY <2>1, <2>3 DEF FileInv, CopiesFollow
  <2>6. QED
    BY <2>1, <2>2, <2>4, <2>5 DEF FileInv
<1>3. ASSUME NEW c \in Callers, CallerRestarts(c)
      PROVE  FileInv' /\ UNCHANGED file
  <2> DEFINE i == [NoCall EXCEPT !.made = call[c].made + 1]
  <2>1. /\ call[c].at = "dead" /\ call[c].made < MaxCalls
        /\ call' = [call EXCEPT ![c] = i]
        /\ copy' = [copy EXCEPT ![c] = [k \in ReceiptKeys |-> {}]]
        /\ won' = [won EXCEPT ![c] = {}] /\ UNCHANGED <<file, lock>>
    BY <1>3 DEF CallerRestarts
  <2>0. call[c].made \in 0..MaxCalls /\ call[c].made + 1 \in 0..MaxCalls
    BY <1>1, <2>1 DEF CallState, FileTypeOK
  <2>2. i \in CallState /\ i.at = "idle"
    BY <2>0, NoCallTyped DEF CallState
  <2> HIDE DEF i
  <2>3. FileTypeOK'
    BY <1>1, <2>1, <2>2 DEF FileTypeOK
  <2>4. /\ call'[c].at = "idle" /\ won'[c] = {} /\ \A k \in ReceiptKeys : copy'[c][k] = {}
        /\ \A d \in Callers \ {c} : call'[d] = call[d] /\ won'[d] = won[d] /\ copy'[d] = copy[d]
    BY <1>1, <2>1, <2>2 DEF FileTypeOK
  <2>5. LockHeld' /\ \A d \in Callers : Asked(d)'
    BY <1>1, <2>1, <2>4 DEF FileInv, LockHeld, Inside, Asked
  <2>6. CopiesFollow'
    BY <2>1, <2>4 DEF FileInv, CopiesFollow
  <2>7. QED
    BY <2>1, <2>3, <2>5, <2>6 DEF FileInv
<1>4. CASE OperatorUnlocks
  <2>1. /\ \A c \in Callers : call[c].at \notin {"locked", "read", "renamed"}
        /\ lock' = FileOwner0 /\ UNCHANGED <<file, call, copy, won>>
    BY <1>4 DEF OperatorUnlocks
  <2>2. QED
    BY <1>1, <2>1 DEF FileInv, FileTypeOK, LockHeld, Inside, Asked, CopiesFollow
<1>5. QED
  BY <1>2, <1>3, <1>4

\* What the rename puts in place: one record, made from the one in the file,
\* or for a receipt from a copy that has seen a payment the file has seen.
LEMMA RenameEffect ==
  ASSUME FileInv, NEW c \in Callers, RenameStore(c), ~Declined(c)
  PROVE  \E k \in FileKeys, w \in SUBSET FileFacts :
           /\ file' = [file EXCEPT ![k] = w] /\ call[c].key = k
           /\ copy' = IF k \in ReceiptKeys THEN [copy EXCEPT ![c][k] = w] ELSE copy
           /\ \/ /\ k \in RunKeys /\ k \notin ReceiptKeys /\ won' = won
                 /\ \/ file[k] = {} /\ w = {c}
                    \/ file[k] # {} /\ w = file[k] \cup {c}
              \/ /\ k \in ReceiptKeys /\ file[k] = {} /\ w = {"begun"}
                 /\ won' = [won EXCEPT ![c] = @ \cup {k}]
              \/ /\ k \in ReceiptKeys /\ won' = won /\ w # {}
                 /\ "paid" \in file[k] => "paid" \in w
                 /\ k \in won[c] \/ "paid" \in copy[c][k]
<1> DEFINE o == call[c]
           k == call[c].key
           w == Written(c)
<1>1. /\ o.at = "read" /\ o.read = file /\ FileTypeOK /\ Asked(c)
      /\ RunKeys \cap ReceiptKeys = {} /\ FileKeys = RunKeys \cup ReceiptKeys
  BY FileAssumption DEF RenameStore, FileInv, LockHeld, FileKeys
<1>2. /\ file' = [file EXCEPT ![k] = w]
      /\ copy' = IF k \in ReceiptKeys THEN [copy EXCEPT ![c][k] = w] ELSE copy
      /\ won'  = IF o.op = "begin" THEN [won EXCEPT ![c] = @ \cup {k}] ELSE won
  BY <1>1 DEF RenameStore
<1>3. {"begun", "paid", "answer", "error", c} \subseteq FileFacts
  BY DEF FileFacts
<1>4. k \in ReceiptKeys =>
         /\ copy[c][k] \in SUBSET FileFacts
         /\ "paid" \in copy[c][k] => "paid" \in file[k]
         /\ k \in won[c] /\ "paid" \in file[k] => "paid" \in copy[c][k]
  BY <1>1 DEF FileInv, CopiesFollow, FileTypeOK
<1>5. CASE o.op \in {"admit", "update"}
  <2>1. k \in RunKeys /\ k \in FileKeys /\ k \notin ReceiptKeys /\ file[k] \in SUBSET FileFacts
    BY <1>1, <1>5 DEF Asked, FileTypeOK
  <2>2. \/ file[k] = {} /\ w = {c}
        \/ file[k] # {} /\ w = file[k] \cup {c}
    BY <1>1, <1>5 DEF Declined, Written
  <2>3. w \in SUBSET FileFacts
    BY <1>3, <2>1, <2>2
  <2>4. won' = won
    BY <1>2, <1>5
  <2> HIDE DEF w, k
  <2>5. call[c].key = k
    BY DEF k
  <2>6. QED
    BY <1>2, <2>1, <2>2, <2>3, <2>4, <2>5
<1>6. CASE o.op = "begin"
  <2>1. k \in ReceiptKeys /\ k \in FileKeys /\ file[k] = {} /\ w = {"begun"}
    BY <1>1, <1>6 DEF Asked, Declined, Begun, Written
  <2>2. w \in SUBSET FileFacts /\ won' = [won EXCEPT ![c] = @ \cup {k}]
    BY <1>2, <1>3, <1>6, <2>1
  <2> HIDE DEF w, k
  <2>5. call[c].key = k
    BY DEF k
  <2>3. QED
    BY <1>2, <2>1, <2>2, <2>5
<1>7. CASE o.op \in {"pay", "answer", "fail"}
  <2>1. k \in ReceiptKeys /\ k \in FileKeys /\ (k \in won[c] \/ "paid" \in copy[c][k])
    BY <1>1, <1>7 DEF Asked
  <2>2. w # {} /\ w \in SUBSET FileFacts
    BY <1>3, <1>4, <1>7, <2>1 DEF Written
  <2>3. "paid" \in file[k] => "paid" \in w
    BY <1>4, <1>7, <2>1 DEF Written
  <2>4. won' = won
    BY <1>2, <1>7
  <2> HIDE DEF w, k
  <2>5. call[c].key = k
    BY DEF k
  <2>6. QED
    BY <1>2, <2>1, <2>2, <2>3, <2>4, <2>5
<1>8. QED
  BY <1>1, <1>5, <1>6, <1>7 DEF Asked

LEMMA RenameStep ==
  ASSUME FileInv, NEW c \in Callers, RenameStore(c)
  PROVE  FileInv'
<1> DEFINE i == [call[c] EXCEPT !.at = "renamed"]
<1>1. FileTypeOK /\ LockHeld /\ call[c] \in CallState
  BY DEF FileInv, FileTypeOK
<1>2. call[c].at = "read" /\ call' = [call EXCEPT ![c] = i] /\ UNCHANGED lock /\ lock = c
  BY <1>1 DEF RenameStore, LockHeld, Inside, FileTypeOK
<1>3. i \in CallState /\ i.at = "renamed"
  BY <1>1 DEF CallState
<1> HIDE DEF i
<1>4. CASE Declined(c)
  <2>1. UNCHANGED <<file, copy, won>>
    BY <1>4 DEF RenameStore
  <2>2. \A d \in Callers : Inside(d)' => lock' = d
    BY <1>1, <1>2, <1>3 DEF LockHeld, Inside, FileTypeOK
  <2>3. QED
    BY <1>1, <1>2, <1>3, <2>1, <2>2, CallMoves DEF FileTypeOK
<1>5. CASE ~Declined(c)
  <2>1. PICK k \in FileKeys, w \in SUBSET FileFacts :
           /\ file' = [file EXCEPT ![k] = w] /\ call[c].key = k
           /\ copy' = IF k \in ReceiptKeys THEN [copy EXCEPT ![c][k] = w] ELSE copy
           /\ \/ /\ k \in RunKeys /\ k \notin ReceiptKeys /\ won' = won
              \/ /\ k \in ReceiptKeys /\ file[k] = {} /\ w = {"begun"}
                 /\ won' = [won EXCEPT ![c] = @ \cup {k}]
              \/ /\ k \in ReceiptKeys /\ won' = won /\ w # {}
                 /\ "paid" \in file[k] => "paid" \in w
                 /\ k \in won[c] \/ "paid" \in copy[c][k]
    BY <1>5, RenameEffect
  <2>2. FileTypeOK'
    BY <1>1, <1>2, <1>3, <2>1 DEF FileTypeOK
  <2>3. /\ call'[c].at = "renamed" /\ \A d \in Callers \ {c} : call'[d] = call[d]
        /\ file'[k] = w /\ \A l \in FileKeys \ {k} : file'[l] = file[l]
        /\ \A d \in Callers, l \in ReceiptKeys :
              copy'[d][l] = IF d = c /\ l = k THEN w ELSE copy[d][l]
        /\ \A d \in Callers, l \in ReceiptKeys : d # c \/ l # k => (l \in won'[d] <=> l \in won[d])
    BY <1>1, <1>2, <1>3, <2>1 DEF FileTypeOK
  <2>4. \A d \in Callers \ {c} : ~Inside(d)
    BY <1>1, <1>2 DEF LockHeld
  <2>5. LockHeld'
    BY <1>1, <1>2, <2>3, <2>4 DEF LockHeld, Inside
  <2>6. ASSUME NEW d \in Callers
        PROVE  Asked(d)'
    <3>1. CASE d = c
      BY <2>3, <3>1 DEF Asked
    <3>2. CASE d # c
      <4>1. call'[d] = call[d] /\ Asked(d)
        BY <2>3, <3>2 DEF FileInv
      <4>2. \A l \in ReceiptKeys : copy'[d][l] = copy[d][l] /\ (l \in won'[d] <=> l \in won[d])
        BY <2>3, <3>2
      <4>3. QED
        BY <4>1, <4>2 DEF Asked
    <3>3. QED
      BY <3>1, <3>2
  <2>7. CopiesFollow'
    <3>1. ASSUME NEW d \in Callers, NEW l \in ReceiptKeys, l # k
          PROVE  /\ "paid" \in copy'[d][l] => "paid" \in file'[l]
                 /\ l \in won'[d] => /\ file'[l] # {}
                                     /\ \A b \in Callers : l \in won'[b] => b = d
                                     /\ "paid" \in file'[l] => "paid" \in copy'[d][l]
      BY <2>3, <3>1 DEF FileInv, CopiesFollow, FileKeys
    <3>2. ASSUME k \in ReceiptKeys, NEW d \in Callers
          PROVE  /\ "paid" \in copy'[d][k] => "paid" \in file'[k]
                 /\ k \in won'[d] => /\ file'[k] # {}
                                     /\ \A b \in Callers : k \in won'[b] => b = d
                                     /\ "paid" \in file'[k] => "paid" \in copy'[d][k]
      <4>1. CASE file[k] = {} /\ w = {"begun"} /\ won' = [won EXCEPT ![c] = @ \cup {k}]
        <5>1. \A b \in Callers : k \notin won[b] /\ "paid" \notin copy[b][k]
          BY <3>2, <4>1 DEF FileInv, CopiesFollow
        <5>2. \A b \in Callers : k \in won'[b] => b = c
          BY <1>1, <4>1, <5>1 DEF FileTypeOK
        <5>3. QED
          BY <2>3, <3>2, <4>1, <5>1, <5>2
      <4>2. CASE /\ won' = won /\ w # {}
                 /\ "paid" \in file[k] => "paid" \in w
                 /\ k \in won[c] \/ "paid" \in copy[c][k]
        <5>1. \A b \in Callers : /\ "paid" \in copy[b][k] => "paid" \in file[k]
                                 /\ k \in won[b] => /\ \A a \in Callers : k \in won[a] => a = b
                                                    /\ "paid" \in file[k] => "paid" \in copy[b][k]
          BY <3>2 DEF FileInv, CopiesFollow
        <5>2. QED
          BY <2>3, <3>2, <4>2, <5>1
      <4>3. QED
        BY <2>1, <3>2, <4>1, <4>2
    <3>3. QED
      BY <3>1, <3>2 DEF CopiesFollow
  <2>8. QED
    BY <2>2, <2>5, <2>6, <2>7 DEF FileInv
<1>6. QED
  BY <1>4, <1>5

LEMMA FileInvNext == FileInv /\ [FileNext]_fileVars => FileInv'
<1> SUFFICES ASSUME FileInv, [FileNext]_fileVars PROVE FileInv'
  OBVIOUS
<1>1. CASE FileNext
  BY <1>1, CallSteps, OtherSteps, RenameStep DEF FileNext
<1>2. CASE UNCHANGED fileVars
  BY <1>2 DEF fileVars, FileInv, FileTypeOK, LockHeld, Inside, Asked, CopiesFollow
<1>3. QED
  BY <1>1, <1>2

THEOREM FileInvariant == FileSpec => []FileInv
<1>1. QED
  BY FileInvInit, FileInvNext, PTL DEF FileSpec

(* The file stores, with processes that die under the lock, time out and come
   back, are the atomic map of AtomicRecords: every rename of withLocalFileLock
   and persist changes one record, from what that record is at that moment.  *)
THEOREM FileKeepsRecords == FileSpec => KeepsRecords
<1>1. FileInit => Atomic!AtomicInit
  BY DEF FileInit, Atomic!AtomicInit, EmptyFile, FileKeys
<1>2. FileInv /\ [FileNext]_fileVars => [Atomic!AtomicNext]_file
  <2> SUFFICES ASSUME FileInv, [FileNext]_fileVars, file' # file
               PROVE  Atomic!AtomicNext
    OBVIOUS
  <2>1. PICK c \in Callers : RenameStore(c) /\ ~Declined(c)
    BY CallSteps, OtherSteps DEF FileNext, RenameStore, fileVars
  <2>2. PICK k \in FileKeys, w \in SUBSET FileFacts :
           /\ file' = [file EXCEPT ![k] = w]
           /\ \/ /\ k \in RunKeys
                 /\ \/ file[k] = {} /\ w = {c}
                    \/ file[k] # {} /\ w = file[k] \cup {c}
              \/ k \in ReceiptKeys /\ file[k] = {} /\ w = {"begun"}
              \/ k \in ReceiptKeys /\ w # {}
    BY <2>1, RenameEffect
  <2>3. {"begun", c} \subseteq FileFacts
    BY DEF FileFacts
  <2>4. CASE k \in RunKeys /\ file[k] = {} /\ w = {c}
    <3>1. Atomic!CreateRecord(k, c)
      BY <2>2, <2>4 DEF Atomic!CreateRecord
    <3>2. QED
      BY <2>3, <2>4, <3>1 DEF Atomic!AtomicNext
  <2>5. CASE k \in RunKeys /\ file[k] # {} /\ w = file[k] \cup {c}
    <3>1. Atomic!ExtendRecord(k, c)
      BY <2>2, <2>5 DEF Atomic!ExtendRecord
    <3>2. QED
      BY <2>3, <2>5, <3>1 DEF Atomic!AtomicNext
  <2>6. CASE k \in ReceiptKeys /\ file[k] = {} /\ w = {"begun"}
    <3>1. Atomic!CreateRecord(k, "begun")
      BY <2>2, <2>6 DEF Atomic!CreateRecord
    <3>2. QED
      BY <2>3, <2>6, <3>1 DEF Atomic!AtomicNext
  <2>7. CASE k \in ReceiptKeys /\ w # {}
    <3>1. Atomic!ReplaceRecord(k, w)
      BY <2>2 DEF Atomic!ReplaceRecord
    <3>2. k \in ReceiptKeys /\ w \in (SUBSET FileFacts) \ {{}}
      BY <2>7
    <3>3. QED
      BY <3>1, <3>2, Zenon DEF Atomic!AtomicNext
  <2>8. QED
    BY <2>2, <2>4, <2>5, <2>6, <2>7
<1>3. QED
  BY <1>1, <1>2, FileInvariant, PTL DEF FileSpec, KeepsRecords, Atomic!AtomicSpec

(* A payment in a receipt survives every later save, although each replaces
   the record by the copy its process keeps: only the process that began the
   receipt can hold a copy without the payment, and not once it is there.    *)
THEOREM ReceiptsKeepPayments == FileSpec => ReceiptKeepsPayment
<1>1. FileInv /\ [FileNext]_fileVars =>
        [\A k \in ReceiptKeys : "paid" \in file[k] => "paid" \in file'[k]]_fileVars
  <2> SUFFICES ASSUME FileInv, [FileNext]_fileVars, NEW k \in ReceiptKeys, "paid" \in file[k]
               PROVE  "paid" \in file'[k]
    OBVIOUS
  <2>1. CASE UNCHANGED file
    BY <2>1
  <2>2. CASE file' # file
    <3>1. PICK c \in Callers : RenameStore(c) /\ ~Declined(c)
      BY <2>2, CallSteps, OtherSteps DEF FileNext, RenameStore, fileVars
    <3>2. PICK l \in FileKeys, w \in SUBSET FileFacts :
             /\ file' = [file EXCEPT ![l] = w]
             /\ \/ l \in RunKeys /\ l \notin ReceiptKeys
                \/ file[l] = {}
                \/ "paid" \in file[l] => "paid" \in w
      BY <3>1, RenameEffect
    <3>3. file \in [FileKeys -> SUBSET FileFacts] /\ k \in FileKeys
      BY DEF FileInv, FileTypeOK, FileKeys
    <3>4. QED
      BY <3>2, <3>3
  <2>3. QED
    BY <2>1, <2>2
<1>2. QED
  BY <1>1, FileInvariant, PTL DEF FileSpec, ReceiptKeepsPayment

-----------------------------------------------------------------------------
(* BrowserAuthority: the key is granted once, and what was said to be gone  *)
(* stays gone.                                                              *)

TabState == [at : {"closed", "open", "begun", "sent"}, step : BrowserSteps \cup {"none"},
             tx : TxId \cup {NoTx}]
Transaction == [step : BrowserSteps, state : {"pending", "mined", "dropped"}]

BrowserTypeOK ==
  /\ record \in RecordState /\ evidence \in EvidenceState
  /\ tab \in [Tabs -> TabState] /\ \A t \in Tabs : tab[t].at = "begun" => tab[t].step # "none"
  /\ sent \in Seq(Transaction) /\ Len(sent) <= MaxSent
  /\ account \in [key : BOOLEAN, checker : BOOLEAN, allowance : BOOLEAN]
  /\ halts \in 0..MaxHalts

GrantBegun(t) == tab[t].at = "begun" /\ tab[t].step = "grantSession"
GrantSent(i)  == sent[i].step = "grantSession"

\* Nothing that is begun or sent can still grant the key.
NoGrantOpen ==
  /\ \A t \in Tabs : ~GrantBegun(t)
  /\ \A i \in DOMAIN sent : GrantSent(i) => sent[i].state # "pending"

\* begin admits a second grant only after the first is confirmed, never again.
GrantedOnce ==
  /\ \A i, j \in DOMAIN sent : GrantSent(i) /\ GrantSent(j) => i = j
  /\ \A t \in Tabs : GrantBegun(t) => /\ \A u \in Tabs : GrantBegun(u) => u = t
                                      /\ \A i \in DOMAIN sent : ~GrantSent(i)

\* Until a revocation begins the wallet is sent nothing but grants.
WhileProvisioning == evidence.op = "provision" =>
  /\ \A i \in DOMAIN sent : sent[i].step \in Grants
  /\ \A t \in Tabs : tab[t].step \notin Revokes
  /\ evidence.pending \notin Revokes
  /\ \A s \in Revokes : ~Done(evidence, s)
  /\ evidence.pending \in {"approveChecker", "approveAllowance"} => Done(evidence, "grantSession")
  /\ Done(evidence, "grantSession") => NoGrantOpen
  /\ ~Done(evidence, "grantSession") /\ evidence.pending # "grantSession" =>
       (\A t \in Tabs : ~GrantBegun(t)) /\ \A i \in DOMAIN sent : ~GrantSent(i)
  /\ record.granted => Done(evidence, "grantSession")
  /\ record.status = "active" \/ evidence.status = "active" =>
       account.key /\ account.checker /\ account.allowance

WhileRevoking == evidence.op = "revoke" =>
  /\ NoGrantOpen
  /\ evidence.pending \notin Grants
  /\ Done(evidence, "revokeSession") => ~account.key

BrowserInv ==
  /\ BrowserTypeOK /\ GrantedOnce /\ WhileProvisioning /\ WhileRevoking
  /\ record.status = "deleted" => evidence.op = "revoke" /\ Done(evidence, "revokeSession")

LEMMA StepSets ==
  /\ Grants = {"grantSession", "approveChecker", "approveAllowance"}
  /\ Revokes = {"revokeChecker", "revokeAllowance", "revokeSession"}
  /\ BrowserSteps = {"grantSession", "approveChecker", "approveAllowance",
                     "revokeChecker", "revokeAllowance", "revokeSession"}
  /\ \A s \in {"approveChecker", "approveAllowance"} : "grantSession" \in Before(GrantSteps, s)
<1>1. 1..3 = {1, 2, 3}
  OBVIOUS
<1>2. /\ GrantSteps[1] = "grantSession" /\ GrantSteps[2] = "approveChecker"
      /\ GrantSteps[3] = "approveAllowance"
      /\ RevokeSteps[1] = "revokeChecker" /\ RevokeSteps[2] = "revokeAllowance"
      /\ RevokeSteps[3] = "revokeSession"
  BY DEF GrantSteps, RevokeSteps
<1>3. /\ Grants = {"grantSession", "approveChecker", "approveAllowance"}
      /\ Revokes = {"revokeChecker", "revokeAllowance", "revokeSession"}
  BY <1>1, <1>2 DEF Grants, Revokes
<1>4. ASSUME NEW s \in {"approveChecker", "approveAllowance"}
      PROVE  "grantSession" \in Before(GrantSteps, s)
  <2>1. PICK k \in {2, 3} : GrantSteps[k] = s
    BY <1>2
  <2>2. 1 \in {j \in 1..3 : \E i \in 1..3 : j < i /\ GrantSteps[i] = s}
    BY <2>1
  <2>3. QED
    BY <1>2, <2>2 DEF Before
<1>5. QED
  BY <1>3, <1>4 DEF BrowserSteps

LEMMA BrowserInvInit == BrowserInit => BrowserInv
<1> SUFFICES ASSUME BrowserInit PROVE BrowserInv
  OBVIOUS
<1>1. MaxSent \in Nat /\ MaxHalts \in Nat
  BY BrowserAssumption
<1>2. BrowserTypeOK
  BY <1>1, StepSets DEF BrowserInit, BrowserTypeOK, RecordState, EvidenceState, NoHashes, ClosedTab,
     TabState, NoTx, TxId
<1>3. DOMAIN sent = {} /\ \A t \in Tabs : tab[t].at = "closed" /\ tab[t].step = "none"
  BY DEF BrowserInit, ClosedTab
<1>4. QED
  BY <1>2, <1>3, StepSets DEF BrowserInit, BrowserInv, GrantedOnce, WhileProvisioning, WhileRevoking,
     NoGrantOpen, GrantBegun, GrantSent, NoHashes, Done

\* The chain decides a transaction.
LEMMA TxStep ==
  ASSUME BrowserInv, NEW i \in DOMAIN sent, MineTx(i) \/ DropTx(i)
  PROVE  BrowserInv'
<1>1. /\ sent[i].state = "pending" /\ UNCHANGED <<record, evidence, tab, halts>>
      /\ \/ sent' = [sent EXCEPT ![i].state = "dropped"] /\ UNCHANGED account
         \/ sent' = [sent EXCEPT ![i].state = "mined"] /\ account' = After(sent[i].step)
  BY DEF MineTx, DropTx
<1>2. BrowserTypeOK /\ i \in 1..Len(sent) /\ sent[i] \in Transaction
  BY DEF BrowserInv, BrowserTypeOK
<1>3. PICK r \in {"dropped", "mined"} : sent' = [sent EXCEPT ![i].state = r]
  BY <1>1
<1>4. /\ sent' \in Seq(Transaction) /\ Len(sent') = Len(sent) /\ DOMAIN sent' = DOMAIN sent
      /\ \A j \in DOMAIN sent : sent'[j].step = sent[j].step
      /\ \A j \in DOMAIN sent : sent'[j].state = IF j = i THEN r ELSE sent[j].state
  BY <1>2, <1>3 DEF BrowserTypeOK, Transaction
<1>5. /\ account' \in [key : BOOLEAN, checker : BOOLEAN, allowance : BOOLEAN]
      /\ account'.key => account.key \/ GrantSent(i)
      /\ sent[i].step \in Grants => /\ account.key => account'.key
                                    /\ account.checker => account'.checker
                                    /\ account.allowance => account'.allowance
  <2>1. /\ account \in [key : BOOLEAN, checker : BOOLEAN, allowance : BOOLEAN]
        /\ sent[i].step \in BrowserSteps
    BY <1>2 DEF BrowserTypeOK, Transaction
  <2>2. CASE UNCHANGED account
    BY <2>1, <2>2
  <2>3. CASE account' = After(sent[i].step) /\ sent[i].step \in Grants
    BY <2>1, <2>3, StepSets DEF After, GrantSent
  <2>4. CASE account' = After(sent[i].step) /\ sent[i].step \in Revokes
    <3>1. sent[i].step \notin Grants
      BY <2>4, StepSets
    <3>2. QED
      BY <2>1, <2>4, <3>1, StepSets DEF After
  <2>5. QED
    BY <1>1, <2>1, <2>2, <2>3, <2>4 DEF BrowserSteps
<1>6. BrowserTypeOK'
  BY <1>1, <1>2, <1>4, <1>5 DEF BrowserTypeOK
<1>7. GrantedOnce' /\ (NoGrantOpen => NoGrantOpen')
  BY <1>1, <1>4 DEF BrowserInv, GrantedOnce, NoGrantOpen, GrantBegun, GrantSent
<1>8. WhileProvisioning'
  BY <1>1, <1>4, <1>5, <1>7 DEF BrowserInv, WhileProvisioning, GrantBegun, GrantSent, Done
<1>9. WhileRevoking'
  BY <1>1, <1>4, <1>5, <1>7 DEF BrowserInv, WhileRevoking, NoGrantOpen, Done
<1>10. QED
  BY <1>1, <1>6, <1>7, <1>8, <1>9 DEF BrowserInv, Done

\* A page opens or sends what was begun in it.
LEMMA PageStep ==
  ASSUME BrowserInv, NEW t \in Tabs, OpenPage(t) \/ SendTx(t)
  PROVE  BrowserInv'
<1>1. BrowserTypeOK /\ tab[t] \in TabState /\ MaxSent \in Nat
  BY BrowserAssumption DEF BrowserInv, BrowserTypeOK
<1>2. CASE OpenPage(t)
  <2>1. /\ tab' = [tab EXCEPT ![t] = [at |-> "open", step |-> "none", tx |-> NoTx]]
        /\ UNCHANGED <<record, evidence, sent, account, halts>>
    BY <1>2 DEF OpenPage
  <2>2. BrowserTypeOK'
    BY <1>1, <2>1, StepSets DEF BrowserTypeOK, TabState
  <2>3. tab'[t].at = "open" /\ tab'[t].step = "none" /\ \A u \in Tabs \ {t} : tab'[u] = tab[u]
    BY <1>1, <2>1 DEF BrowserTypeOK
  <2>4. "none" \notin Revokes
    BY StepSets
  <2>5. QED
    BY <2>1, <2>2, <2>3, <2>4 DEF BrowserInv, GrantedOnce, WhileProvisioning, WhileRevoking,
       NoGrantOpen, GrantBegun, GrantSent, Done
<1>3. CASE SendTx(t)
  <2>1. PICK n \in Nat : n = Len(sent) + 1
    BY <1>1 DEF BrowserTypeOK
  <2>2. PICK x : x = [step |-> tab[t].step, state |-> "pending"]
    OBVIOUS
  <2>3. /\ tab[t].at = "begun" /\ Len(sent) < MaxSent /\ sent' = Append(sent, x)
        /\ tab' = [tab EXCEPT ![t].at = "sent", ![t].tx = n]
        /\ UNCHANGED <<record, evidence, account, halts>>
    BY <1>3, <2>1, <2>2 DEF SendTx
  <2>4. x \in Transaction /\ x.step = tab[t].step /\ x.state = "pending"
    BY <1>1, <2>3, <2>2 DEF BrowserTypeOK, Transaction, TabState
  <2>5. /\ sent \in Seq(Transaction) /\ n \in TxId /\ n \notin DOMAIN sent
        /\ sent' \in Seq(Transaction) /\ Len(sent') = n
        /\ DOMAIN sent' = DOMAIN sent \cup {n}
        /\ sent'[n] = x /\ \A i \in DOMAIN sent : sent'[i] = sent[i]
    BY <1>1, <2>1, <2>3, <2>4 DEF BrowserTypeOK, TxId
  <2>6. /\ tab'[t].at = "sent" /\ tab'[t].step = tab[t].step /\ tab'[t] \in TabState
        /\ \A u \in Tabs \ {t} : tab'[u] = tab[u]
    BY <1>1, <2>3, <2>5 DEF BrowserTypeOK, TabState
  <2>7. BrowserTypeOK'
    BY <1>1, <2>3, <2>5, <2>6 DEF BrowserTypeOK
  <2>8. /\ GrantSent(n)' <=> GrantBegun(t)
        /\ ~GrantBegun(t)' /\ \A u \in Tabs \ {t} : GrantBegun(u)' <=> GrantBegun(u)
        /\ \A i \in DOMAIN sent : GrantSent(i)' <=> GrantSent(i)
    BY <2>3, <2>4, <2>5, <2>6 DEF GrantBegun, GrantSent
  <2>9. GrantedOnce' /\ (NoGrantOpen => NoGrantOpen')
    <3>1. ASSUME NEW i \in DOMAIN sent', NEW j \in DOMAIN sent', GrantSent(i)', GrantSent(j)'
          PROVE  i = j
      BY <2>5, <2>8, <3>1 DEF BrowserInv, GrantedOnce
    <3>2. ASSUME NEW u \in Tabs, GrantBegun(u)'
          PROVE  /\ \A w \in Tabs : GrantBegun(w)' => w = u
                 /\ \A i \in DOMAIN sent' : ~GrantSent(i)'
      <4>1. u # t /\ GrantBegun(u)
        BY <2>8, <3>2
      <4>2. ~GrantBegun(t) /\ \A i \in DOMAIN sent : ~GrantSent(i)
        BY <4>1 DEF BrowserInv, GrantedOnce
      <4>3. \A w \in Tabs : GrantBegun(w)' => w = u
        BY <2>8, <4>1 DEF BrowserInv, GrantedOnce
      <4>4. QED
        BY <2>5, <2>8, <4>2, <4>3
    <3>3. NoGrantOpen => NoGrantOpen'
      BY <2>5, <2>8 DEF NoGrantOpen, GrantSent
    <3>4. QED
      BY <3>1, <3>2, <3>3 DEF GrantedOnce
  <2>10. x.step \in BrowserSteps /\ x.step = tab[t].step
    BY <2>4 DEF Transaction
  <2>11. WhileProvisioning'
    <3>1. ASSUME evidence.op = "provision"
          PROVE  /\ \A i \in DOMAIN sent' : sent'[i].step \in Grants
                 /\ \A u \in Tabs : tab'[u].step \notin Revokes
      BY <2>5, <2>6, <2>10, <3>1 DEF BrowserInv, WhileProvisioning, BrowserSteps
    <3>2. ASSUME evidence.op = "provision", ~Done(evidence, "grantSession"),
                 evidence.pending # "grantSession"
          PROVE  (\A u \in Tabs : ~GrantBegun(u)') /\ \A i \in DOMAIN sent' : ~GrantSent(i)'
      BY <2>5, <2>8, <3>2 DEF BrowserInv, WhileProvisioning
    <3>3. QED
      BY <2>3, <2>9, <3>1, <3>2 DEF BrowserInv, WhileProvisioning, Done
  <2>12. WhileRevoking'
    BY <2>3, <2>9 DEF BrowserInv, WhileRevoking, Done
  <2>13. QED
    BY <2>3, <2>7, <2>9, <2>11, <2>12 DEF BrowserInv, Done
<1>4. QED
  BY <1>2, <1>3

\* Handlers that only take the session out of use.
LEMMA DisableStep ==
  ASSUME BrowserInv, record' = Disabled(record), halts' \in 0..MaxHalts,
         record.status # "deleted", UNCHANGED <<evidence, tab, sent, account>>
  PROVE  BrowserInv'
<1>1. record' \in RecordState /\ record'.status = "invalid" /\ record'.granted = record.granted
  BY DEF BrowserInv, BrowserTypeOK, Disabled, RecordState
<1>2. QED
  BY <1>1 DEF BrowserInv, BrowserTypeOK, GrantedOnce, WhileProvisioning, WhileRevoking,
     NoGrantOpen, GrantBegun, GrantSent, Done

LEMMA PrepareStep ==
  ASSUME BrowserInv, Prepare
  PROVE  BrowserInv'
<1> DEFINE e == [evidence EXCEPT !.status = "invalid"]
<1>1. /\ BrowserTypeOK /\ record.status = "none" /\ UNCHANGED <<tab, sent, account>>
      /\ record' = Disabled(record) /\ evidence' \in {evidence, e} /\ MaxHalts \in Nat
      /\ UNCHANGED halts \/ Halt
  BY BrowserAssumption DEF BrowserInv, Prepare, Saves, Disabled
<1>2. record' \in RecordState /\ record'.status = "invalid" /\ record'.granted = record.granted
  BY <1>1 DEF BrowserTypeOK, Disabled, RecordState
<1>3. /\ evidence' \in EvidenceState /\ evidence'.op = evidence.op
      /\ evidence'.pending = evidence.pending /\ evidence'.hashes = evidence.hashes
      /\ evidence'.status \in {evidence.status, "invalid"}
  BY <1>1 DEF BrowserTypeOK, EvidenceState
<1>4. halts' \in 0..MaxHalts
  BY <1>1 DEF Halt, BrowserTypeOK
<1>5. QED
  BY <1>1, <1>2, <1>3, <1>4 DEF BrowserInv, BrowserTypeOK, GrantedOnce, WhileProvisioning,
     WhileRevoking, NoGrantOpen, GrantBegun, GrantSent, Done

\* A revocation, or the next step of what is under way.
LEMMA BeginStepKeeps ==
  ASSUME BrowserInv, NEW t \in Tabs, NEW s \in BrowserSteps, BeginStep(t, s)
  PROVE  BrowserInv'
<1>1. /\ BrowserTypeOK /\ tab[t].at = "open" /\ record.status # "deleted"
      /\ UNCHANGED <<sent, account>> /\ BeginAllowed(record, evidence, s) /\ MaxHalts \in Nat
      /\ evidence.op \in {"provision", "revoke"} /\ evidence \in EvidenceState
      /\ record \in RecordState
  BY BrowserAssumption DEF BeginStep, BrowserInv, BrowserTypeOK, EvidenceState
<1>2. s \in Grants \/ s \in Revokes
  BY DEF BrowserSteps
<1>3. ASSUME tab' = [tab EXCEPT ![t] = [at |-> "begun", step |-> s, tx |-> NoTx]]
      PROVE  /\ tab' \in [Tabs -> TabState] /\ \A u \in Tabs : tab'[u].at = "begun" => tab'[u].step # "none"
             /\ tab'[t].at = "begun" /\ tab'[t].step = s /\ \A u \in Tabs \ {t} : tab'[u] = tab[u]
  BY <1>1, <1>3, StepSets DEF BrowserTypeOK, TabState
<1>4. CASE s \in Revokes /\ evidence.op # "revoke"
  <2> DEFINE e == [evidence EXCEPT !.status = Disabled(record).status, !.op = "revoke",
                     !.phase = "in-progress", !.pending = s, !.hashes = NoHashes]
  <2>1. Saves(Disabled(record), e, TRUE)
    BY <1>4 DEF BeginStep
  <2>2. record.granted /\ evidence.op = "provision"
    BY <1>1, <1>4 DEF BeginAllowed
  <2>3. NoGrantOpen
    BY <2>2 DEF BrowserInv, WhileProvisioning
  <2>4. record' = Disabled(record) /\ record' \in RecordState /\ record'.status = "invalid"
    BY <1>1, <2>1 DEF Saves, Disabled, RecordState
  <2>5. CASE UNCHANGED evidence /\ Halt
    <3>1. halts' \in 0..MaxHalts /\ halts' # halts
      BY <1>1, <2>5 DEF Halt, BrowserTypeOK
    <3>2. UNCHANGED tab
      BY <3>1 DEF BeginStep
    <3>3. QED
      BY <1>1, <2>4, <2>5, <3>1, <3>2, DisableStep
  <2>6. CASE evidence' = e /\ UNCHANGED halts
    <3>1. tab' = [tab EXCEPT ![t] = [at |-> "begun", step |-> s, tx |-> NoTx]]
      BY <2>6 DEF BeginStep
    <3>2. /\ e \in EvidenceState /\ e.op = "revoke" /\ e.pending = s
          /\ \A p \in BrowserSteps : ~Done(e, p)
      BY <1>1 DEF EvidenceState, Disabled, RecordState, NoHashes, Done
    <3> HIDE DEF e
    <3>3. s # "grantSession" /\ s \notin Grants /\ "revokeSession" \in BrowserSteps
      BY <1>4, StepSets
    <3>4. NoGrantOpen' /\ GrantedOnce'
      BY <1>1, <1>3, <2>3, <3>1, <3>3 DEF BrowserInv, NoGrantOpen, GrantedOnce, GrantBegun, GrantSent
    <3>5. BrowserTypeOK'
      BY <1>1, <1>3, <2>4, <2>6, <3>1, <3>2 DEF BrowserTypeOK
    <3>6. WhileProvisioning' /\ WhileRevoking'
      BY <2>6, <3>2, <3>3, <3>4 DEF WhileProvisioning, WhileRevoking, Done
    <3>7. QED
      BY <2>4, <3>4, <3>5, <3>6 DEF BrowserInv
  <2>7. QED
    BY <2>1, <2>5, <2>6 DEF Saves
<1>5. CASE ~(s \in Revokes /\ evidence.op # "revoke")
  <2> DEFINE e == [evidence EXCEPT !.pending = s, !.phase = "in-progress"]
  <2>1. evidence' = e /\ UNCHANGED <<record, halts>>
    BY <1>5 DEF BeginStep
  <2>2. tab' = [tab EXCEPT ![t] = [at |-> "begun", step |-> s, tx |-> NoTx]]
    BY <1>5, <2>1 DEF BeginStep
  <2>3. /\ e \in EvidenceState /\ e.op = evidence.op /\ e.pending = s
        /\ e.status = evidence.status /\ e.hashes = evidence.hashes
    BY <1>1 DEF EvidenceState
  <2> HIDE DEF e
  <2>4. \/ s \in Grants /\ s \notin Revokes /\ evidence.op = "provision"
        \/ s \in Revokes /\ s \notin Grants /\ evidence.op = "revoke"
    BY <1>1, <1>2, <1>5, StepSets DEF BeginAllowed
  <2>5. /\ ~Done(evidence, s) /\ evidence.pending = "none"
        /\ s \in {"approveChecker", "approveAllowance"} => Done(evidence, "grantSession")
    BY <1>1, <1>5, <2>4, StepSets DEF BeginAllowed
  <2>6. BrowserTypeOK'
    BY <1>1, <1>3, <2>1, <2>2, <2>3 DEF BrowserTypeOK
  <2>7. s = "grantSession" => (\A u \in Tabs : ~GrantBegun(u)) /\ \A i \in DOMAIN sent : ~GrantSent(i)
    BY <2>4, <2>5, StepSets DEF BrowserInv, WhileProvisioning
  <2>8. GrantedOnce'
    BY <1>1, <1>3, <2>2, <2>7 DEF BrowserInv, GrantedOnce, GrantBegun, GrantSent
  <2>9. s # "grantSession" /\ NoGrantOpen => NoGrantOpen'
    BY <1>1, <1>3, <2>2 DEF NoGrantOpen, GrantBegun, GrantSent
  <2>10. s # "grantSession" => \A u \in Tabs : GrantBegun(u)' => GrantBegun(u)
    BY <1>3, <2>2 DEF GrantBegun
  <2>11. WhileProvisioning'
    BY <1>1, <1>3, <2>1, <2>2, <2>3, <2>4, <2>5, <2>9, <2>10
       DEF BrowserInv, WhileProvisioning, Done, GrantSent
  <2>12. WhileRevoking'
    BY <1>1, <2>1, <2>3, <2>4, <2>9, StepSets DEF BrowserInv, WhileRevoking, Done
  <2>13. QED
    BY <2>1, <2>3, <2>6, <2>8, <2>11, <2>12 DEF BrowserInv, Done
<1>6. QED
  BY <1>4, <1>5

\* A receipt and the wallet's state are found for the pending step.
LEMMA ConfirmStep ==
  ASSUME BrowserInv, NEW t \in Tabs, NEW x \in DOMAIN sent, Confirm(t, x)
  PROVE  BrowserInv'
<1> DEFINE s == evidence.pending
           r == [record EXCEPT !.granted = @ \/ s \in {"grantSession", "approveAllowance"},
                               !.status = IF s = "approveAllowance" THEN "active" ELSE @]
           e == [evidence EXCEPT !.hashes[s] = x, !.pending = "none", !.status = r.status,
                    !.phase = IF s = "approveAllowance" THEN "complete" ELSE @]
<1>1. /\ BrowserTypeOK /\ MaxHalts \in Nat /\ MaxSent \in Nat /\ x \in TxId
      /\ evidence \in EvidenceState /\ record \in RecordState
      /\ tab[t].at \in {"open", "sent"} /\ tab[t] \in TabState
  BY BrowserAssumption DEF Confirm, BrowserInv, BrowserTypeOK, TxId
<1>2. /\ record.status \notin {"none", "deleted"} /\ s # "none" /\ Proves(x, s)
      /\ Saves(r, e, FALSE) /\ UNCHANGED <<sent, account>>
      /\ tab' = [tab EXCEPT ![t] = [@ EXCEPT !.at = "open", !.tx = NoTx]]
  BY DEF Confirm
<1>3. s \in BrowserSteps
  BY <1>1, <1>2 DEF EvidenceState
<1>4. /\ r \in RecordState /\ r.granted = (record.granted \/ s \in {"grantSession", "approveAllowance"})
      /\ r.status = IF s = "approveAllowance" THEN "active" ELSE record.status
  BY <1>1 DEF RecordState
<1> HIDE DEF r
<1>5. /\ e \in EvidenceState /\ e.op = evidence.op /\ e.pending = "none" /\ e.status = r.status
      /\ Done(e, s) /\ \A p \in BrowserSteps \ {s} : Done(e, p) <=> Done(evidence, p)
  <2>1. r.status \in {"none", "invalid", "active", "revoked"}
    BY <1>1, <1>2, <1>4 DEF RecordState
  <2>2. x # NoTx
    BY <1>1 DEF TxId, NoTx
  <2>3. QED
    BY <1>1, <1>3, <2>1, <2>2 DEF EvidenceState, Done
<1>6. e.pending = "none" /\ "none" \notin BrowserSteps /\ "none" \notin Grants /\ "none" \notin Revokes
  BY StepSets
<1> HIDE DEF e
<1>7. /\ evidence' = e /\ record' \in {record, r} /\ halts' \in 0..MaxHalts
  BY <1>1, <1>2 DEF Saves, Halt, BrowserTypeOK
<1>8. /\ tab'[t].at = "open" /\ tab'[t].step = tab[t].step /\ tab'[t] \in TabState
      /\ \A u \in Tabs \ {t} : tab'[u] = tab[u]
  BY <1>1, <1>2 DEF BrowserTypeOK, TabState
<1>9. BrowserTypeOK'
  BY <1>1, <1>2, <1>4, <1>5, <1>7, <1>8 DEF BrowserTypeOK
<1>10. GrantedOnce' /\ (NoGrantOpen => NoGrantOpen')
  BY <1>2, <1>8 DEF BrowserInv, GrantedOnce, NoGrantOpen, GrantBegun, GrantSent
<1>11. /\ sent[x].state = "mined" /\ sent[x].step = s /\ Holds(s)
  BY <1>2 DEF Proves
<1>12. s = "grantSession" => NoGrantOpen
  BY <1>11 DEF BrowserInv, GrantedOnce, NoGrantOpen, GrantBegun, GrantSent
<1>13. \A u \in Tabs : (GrantBegun(u)' => GrantBegun(u)) /\ tab'[u].step = tab[u].step
  BY <1>1, <1>8 DEF GrantBegun
<1>14. CASE evidence.op = "provision"
  <2>1. s \notin Revokes /\ s \in Grants /\ "grantSession" \in BrowserSteps /\ Revokes \subseteq BrowserSteps
    BY <1>3, <1>14, StepSets DEF BrowserInv, WhileProvisioning
  <2>2. s \in {"approveChecker", "approveAllowance"} => Done(evidence, "grantSession")
    BY <1>14 DEF BrowserInv, WhileProvisioning
  <2>3. Done(e, "grantSession")
    BY <1>5, <2>1, <2>2, StepSets
  <2>4. NoGrantOpen'
    BY <1>10, <1>12, <1>14, <2>1, <2>2, StepSets DEF BrowserInv, WhileProvisioning
  <2>5. record'.status = "active" \/ e.status = "active" => account.key /\ account.checker /\ account.allowance
    BY <1>4, <1>5, <1>7, <1>11, <1>14 DEF BrowserInv, WhileProvisioning, Holds
  <2>6. \A p \in Revokes : ~Done(e, p)
    BY <1>5, <1>14, <2>1 DEF BrowserInv, WhileProvisioning
  <2>7. WhileProvisioning'
    BY <1>2, <1>6, <1>7, <1>13, <1>14, <2>3, <2>4, <2>5, <2>6, StepSets
       DEF BrowserInv, WhileProvisioning, Done
  <2>8. QED
    BY <1>2, <1>4, <1>5, <1>7, <1>9, <1>10, <1>14, <2>7 DEF BrowserInv, WhileRevoking
<1>15. CASE evidence.op = "revoke"
  <2>1. s \notin Grants /\ NoGrantOpen'
    BY <1>10, <1>15 DEF BrowserInv, WhileRevoking
  <2>2. Done(e, "revokeSession") => ~account.key
    BY <1>5, <1>11, <1>15, StepSets DEF BrowserInv, WhileRevoking, Holds
  <2>3. WhileRevoking'
    BY <1>2, <1>5, <1>6, <1>7, <1>15, <2>1, <2>2 DEF WhileRevoking, Done
  <2>4. record'.status # "deleted"
    BY <1>2, <1>4, <1>7
  <2>5. QED
    BY <1>5, <1>7, <1>9, <1>10, <1>15, <2>3, <2>4 DEF BrowserInv, WhileProvisioning
<1>16. QED
  BY <1>1, <1>14, <1>15 DEF EvidenceState

LEMMA FinishStepKeeps ==
  ASSUME BrowserInv, NEW outcome \in {"rejected", "inconclusive", "died"}, FinishRevoke(outcome)
  PROVE  BrowserInv'
<1>1. /\ BrowserTypeOK /\ MaxHalts \in Nat /\ evidence \in EvidenceState /\ record \in RecordState
      /\ \A s \in Revokes : Done(evidence, s)
      /\ UNCHANGED <<tab, sent, account>> /\ (UNCHANGED halts \/ Halt)
  BY BrowserAssumption DEF FinishRevoke, FullyRevoked, BrowserInv, BrowserTypeOK
<1>2. evidence.op = "revoke" /\ Done(evidence, "revokeSession")
  BY <1>1, StepSets DEF BrowserInv, WhileProvisioning, EvidenceState
<1>3. record' \in RecordState
  BY <1>1 DEF FinishRevoke, RecordState
<1>4. /\ evidence' \in EvidenceState /\ evidence'.op = evidence.op
      /\ evidence'.pending = evidence.pending /\ evidence'.hashes = evidence.hashes
  BY <1>1 DEF FinishRevoke, EvidenceState
<1>5. halts' \in 0..MaxHalts
  BY <1>1 DEF Halt, BrowserTypeOK
<1>6. BrowserTypeOK' /\ GrantedOnce' /\ WhileProvisioning'
  BY <1>1, <1>2, <1>3, <1>4, <1>5 DEF BrowserInv, BrowserTypeOK, GrantedOnce, WhileProvisioning,
     GrantBegun, GrantSent
<1>7. WhileRevoking' /\ Done(evidence, "revokeSession")'
  BY <1>1, <1>2, <1>4 DEF BrowserInv, WhileRevoking, NoGrantOpen, GrantBegun, GrantSent, Done
<1>8. QED
  BY <1>2, <1>4, <1>6, <1>7 DEF BrowserInv

LEMMA BrowserInvNext == BrowserInv /\ [BrowserNext]_browserVars => BrowserInv'
<1> SUFFICES ASSUME BrowserInv, [BrowserNext]_browserVars PROVE BrowserInv'
  OBVIOUS
<1>1. ASSUME NEW t \in Tabs, NEW s \in BrowserSteps, BeginOutOfTurn(t, s)
      PROVE  BrowserInv'
  BY <1>1, DisableStep DEF BeginOutOfTurn, BrowserInv, BrowserTypeOK
<1>2. CASE BrowserNext
  BY <1>1, <1>2, PrepareStep, PageStep, BeginStepKeeps, ConfirmStep, FinishStepKeeps, TxStep
     DEF BrowserNext
<1>3. CASE UNCHANGED browserVars
  BY <1>3 DEF browserVars, BrowserInv, BrowserTypeOK, GrantedOnce, WhileProvisioning,
     WhileRevoking, NoGrantOpen, GrantBegun, GrantSent, Done
<1>4. QED
  BY <1>2, <1>3

THEOREM BrowserInvariant == BrowserSpec => []BrowserInv
<1>1. QED
  BY BrowserInvInit, BrowserInvNext, PTL DEF BrowserSpec

(* An authority loadActiveAltanaAuthority accepts is backed by the account:
   confirm called it active when it saw key, checker and allowance, and until
   begin has disabled the record no page can send anything but grants.      *)
THEOREM UsableIsAlwaysBacked == BrowserSpec => []UsableWhileBacked
<1>1. BrowserInv => UsableWhileBacked
  BY DEF BrowserInv, UsableWhileBacked, BrowserUsable, WhileProvisioning
<1>2. QED
  BY <1>1, BrowserInvariant, PTL

(* The key deleted by revokeAuthority is dead for good: begin lets one grant
   be sent, and only after its receipt can a revocation begin.              *)
THEOREM CertifiedKeyStaysDead == BrowserSpec => []CertifiedKeyIsDead
<1>1. BrowserInv => CertifiedKeyIsDead
  BY DEF BrowserInv, CertifiedKeyIsDead, WhileRevoking
<1>2. QED
  BY <1>1, BrowserInvariant, PTL

-----------------------------------------------------------------------------
(* MissionRecovery: the purchase journal admits one payment, and what is    *)
(* added to a mission is added to its run.                                  *)

Events == {LiveEvent, VerifierPaidEvent, EvidenceEvent} \cup {ToString(k) : k \in Nat}
Histories == Seq(Events)
Runs == [status : {"running", "failed", "cancelled", "completed"}, events : Histories,
         result : Nat, full : BOOLEAN, told : BOOLEAN]
Missions == [status : {"none", "failed", "cancelled", "completed"},
             source : {"none", "live", "recovered"}, events : Histories, result : Nat]
Attempt == [at : {"idle", "locked", "hiring", "paying", "hired", "saved", "leaving"}, lock : LockNames,
            attempt : Nat, verifier : Verifiers \cup {"none"},
            base : Histories, adds : Histories, result : Nat]
LockHolders == [DOMAIN recoveryLock -> Recoverers \cup {"free"}]

RecoveryTypeOK ==
  /\ run \in Runs /\ mission \in Missions
  /\ remembered \in BOOLEAN /\ rebuilding \in BOOLEAN
  /\ intents \in [Verifiers -> {"none", "intent", "delivered"}]
  /\ payments \subseteq Verifiers \X Nat
  /\ job \in [Recoverers -> Attempt] /\ \A p \in Recoverers : job[p].lock \in DOMAIN recoveryLock
  /\ "own" \in DOMAIN recoveryLock /\ recoveryLock \in LockHolders /\ attempts \in Nat

Paid(v) == \E d \in payments : d[1] = v
PayingFor(p, v) == job[p].at = "paying" /\ job[p].verifier = v

\* Each verifier is paid at most once, and only behind its own intent.
PaidBehindIntent ==
  /\ \A d, e \in payments : d[1] = e[1] => d = e
  /\ \A v \in Verifiers : intents[v] = "none" => ~Paid(v)
  /\ \A p \in Recoverers : job[p].at = "paying" =>
       /\ job[p].verifier \in Verifiers
       /\ intents[job[p].verifier] # "none" /\ ~Paid(job[p].verifier)
       /\ \A q \in Recoverers : PayingFor(q, job[p].verifier) => q = p

\* This holds whatever locks the attempts take.
PaymentInv == RecoveryTypeOK /\ PaidBehindIntent

OneRecoverer == \A p \in Recoverers : job[p].at # "idle" => recoveryLock["own"] = p

PaidHistory == Append(<<LiveEvent>>, VerifierPaidEvent)

\* An attempt that has done nothing yet, or has nothing left to do.
Harmless(j) == j.at \in {"idle", "locked", "leaving"}

\* A mission that has been rebuilt from evidence is never recovered.
Rebuilding ==
  /\ rebuilding => remembered
  /\ remembered => /\ run.events = PaidHistory /\ run.status # "completed"
                   /\ \A p \in Recoverers : Harmless(job[p])
                   /\ mission.status = "completed" => mission.events = <<EvidenceEvent>>

\* How the mission follows the run: until onTerminal it can only be rebuilt.
MissionFollows ==
  /\ run.status = "running" =>
       /\ ~run.told
       /\ (\A v \in Verifiers : intents[v] = "none") => run.events = <<LiveEvent>>
  /\ ~run.told => /\ mission.status = "none" \/ (mission.status = "completed" /\ remembered)
                  /\ run.status # "completed"
  /\ mission.status = "failed" => run.status = "failed" /\ mission.events = run.events
  /\ mission.status = "completed" => mission.source = "recovered"
  /\ run.status = "completed" => /\ mission.status = "completed"
                                 /\ run.events = mission.events /\ run.result = mission.result

\* What a recovery knows of the run and its mission at each step.
AttemptFine(j) ==
  /\ j.at \in {"hiring", "paying", "hired"} => mission.status = "failed" /\ j.base = mission.events
  /\ j.at = "saved" =>
       /\ mission.status = "completed"
       /\ run.status = "failed" => /\ run.events \o j.adds = mission.events
                                   /\ j.result = mission.result

\* This holds while no stranger recovers the mission.
AgreementInv ==
  OneRecoverer /\ Rebuilding /\ MissionFollows /\ \A p \in Recoverers : AttemptFine(job[p])

OwnLockOnly == DOMAIN recoveryLock = {"own"}

RecoveryInv == PaymentInv /\ (OwnLockOnly => AgreementInv)

\* A history and what another one, that agrees with it, has beyond it.
LEMMA PrefixAndRest ==
  ASSUME NEW S, NEW s \in Seq(S), NEW t \in Seq(S), Len(s) <= Len(t),
         \A i \in 1..Len(s) : s[i] = t[i]
  PROVE  s \o SubSeq(t, Len(s) + 1, Len(t)) = t
<1> DEFINE r == SubSeq(t, Len(s) + 1, Len(t))
<1>1. r \in Seq(S) /\ Len(r) = Len(t) - Len(s)
      /\ \A i \in 1..(Len(t) - Len(s)) : r[i] = t[Len(s) + i]
  OBVIOUS
<1>2. s \o r \in Seq(S) /\ Len(s \o r) = Len(t)
  BY <1>1
<1>3. \A i \in 1..Len(t) : (s \o r)[i] = t[i]
  BY <1>1, <1>2
<1>4. QED
  BY <1>2, <1>3

LEMMA BlankAttempts ==
  /\ <<>> \in Histories /\ <<LiveEvent>> \in Histories /\ <<EvidenceEvent>> \in Histories
  /\ NoMission \in Missions /\ NoMission.status = "none"
  /\ NoJob \in Attempt /\ NoJob.at = "idle" /\ NoJob.lock = "own"
<1>1. <<>> \in Histories /\ <<LiveEvent>> \in Histories /\ <<EvidenceEvent>> \in Histories
  BY DEF Histories, Events
<1>2. QED
  BY <1>1 DEF NoMission, NoJob, Missions, Attempt, LockNames

LEMMA PaidHistoryHas ==
  PaidHistory \in Histories /\ Len(PaidHistory) = 2 /\ PaidHistory[2] = VerifierPaidEvent
<1>1. LiveEvent \in Events /\ VerifierPaidEvent \in Events
  BY DEF Events
<1>2. QED
  BY <1>1 DEF Histories, PaidHistory


LEMMA RecoveryInvInit == RecoveryInit => RecoveryInv
<1> SUFFICES ASSUME RecoveryInit PROVE RecoveryInv
  OBVIOUS
<1>1. PICK nearLimit \in BOOLEAN :
        run = [status |-> "running", events |-> <<LiveEvent>>, result |-> 0, full |-> nearLimit,
               told |-> FALSE]
  BY DEF RecoveryInit
<1>2. run \in Runs /\ run.status = "running" /\ run.events = <<LiveEvent>> /\ ~run.told
  BY <1>1, BlankAttempts DEF Runs
<1>3. PICK names \in Deployments : recoveryLock = [l \in names |-> "free"]
  BY DEF RecoveryInit
<1>4. "own" \in DOMAIN recoveryLock /\ recoveryLock \in LockHolders
  BY <1>3 DEF Deployments, LockHolders
<1>5. /\ payments = {} /\ remembered = FALSE /\ rebuilding = FALSE /\ mission.status = "none"
      /\ \A p \in Recoverers : job[p] = NoJob /\ job[p].at = "idle" /\ job[p].lock = "own"
  BY BlankAttempts DEF RecoveryInit
<1>6. RecoveryTypeOK
  BY <1>2, <1>4, <1>5, BlankAttempts DEF RecoveryInit, RecoveryTypeOK
<1>7. PaidBehindIntent
  BY <1>5 DEF PaidBehindIntent, Paid
<1>8. AgreementInv
  BY <1>2, <1>5 DEF AgreementInv, OneRecoverer, Rebuilding, MissionFollows, AttemptFine
<1>9. QED
  BY <1>6, <1>7, <1>8 DEF RecoveryInv, PaymentInv

\* A step of one attempt that pays nothing and saves nothing.
LEMMA AttemptMoves ==
  ASSUME RecoveryInv, NEW p \in Recoverers, NEW j \in Attempt, j.lock \in DOMAIN recoveryLock,
         job' = [job EXCEPT ![p] = j], UNCHANGED <<run, mission, remembered, payments, rebuilding>>,
         recoveryLock' \in LockHolders, attempts' \in Nat,
         OwnLockOnly =>
           /\ j.at # "idle" => /\ recoveryLock'["own"] = p
                               /\ \A q \in Recoverers \ {p} : job[q].at = "idle"
           /\ \A q \in Recoverers \ {p} : job[q].at # "idle" => recoveryLock'["own"] = recoveryLock["own"]
           /\ remembered => Harmless(j)
           /\ AttemptFine(j),
         \/ j.at # "paying" /\ UNCHANGED intents
         \/ /\ j.verifier \in Verifiers /\ intents[j.verifier] = "none"
            /\ intents' = [intents EXCEPT ![j.verifier] = "intent"]
  PROVE  RecoveryInv'
<1>1. RecoveryTypeOK /\ intents' \in [Verifiers -> {"none", "intent", "delivered"}]
      /\ \A v \in Verifiers : intents'[v] # "none" \/ intents'[v] = intents[v]
  BY DEF RecoveryInv, PaymentInv, RecoveryTypeOK
<1>2. DOMAIN recoveryLock' = DOMAIN recoveryLock /\ recoveryLock' \in LockHolders'
  BY DEF LockHolders
<1>3. job' \in [Recoverers -> Attempt] /\ job'[p] = j /\ \A q \in Recoverers \ {p} : job'[q] = job[q]
  BY <1>1 DEF RecoveryTypeOK
<1>4. RecoveryTypeOK'
  <2>1. \A q \in Recoverers : job'[q].lock \in DOMAIN recoveryLock'
    BY <1>1, <1>2, <1>3 DEF RecoveryTypeOK
  <2>2. QED
    BY <1>1, <1>2, <1>3, <2>1 DEF RecoveryTypeOK
<1>5. PaidBehindIntent'
  <2>1. ASSUME NEW q \in Recoverers, job'[q].at = "paying"
        PROVE  /\ job'[q].verifier \in Verifiers
               /\ intents'[job'[q].verifier] # "none" /\ ~Paid(job'[q].verifier)
               /\ \A r \in Recoverers :
                    job'[r].at = "paying" /\ job'[r].verifier = job'[q].verifier => r = q
    <3>1. CASE q = p
      BY <1>1, <1>3, <2>1, <3>1 DEF RecoveryInv, PaymentInv, PaidBehindIntent, Paid, RecoveryTypeOK
    <3>2. CASE q # p
      BY <1>1, <1>3, <2>1, <3>2 DEF RecoveryInv, PaymentInv, PaidBehindIntent, Paid, PayingFor
    <3>3. QED
      BY <3>1, <3>2
  <2>2. QED
    BY <1>1, <2>1 DEF RecoveryInv, PaymentInv, PaidBehindIntent, Paid, PayingFor
<1>6. ASSUME OwnLockOnly' PROVE AgreementInv'
  <2>1. AgreementInv /\ OwnLockOnly
    BY <1>2, <1>6 DEF OwnLockOnly, RecoveryInv
  <2>2. OneRecoverer'
    BY <1>3, <2>1 DEF AgreementInv, OneRecoverer
  <2>3. Rebuilding'
    <3>1. remembered' => \A q \in Recoverers : job'[q].at \in {"idle", "locked", "leaving"}
      BY <1>3, <2>1 DEF AgreementInv, Rebuilding, Harmless
    <3>2. QED
      BY <2>1, <3>1 DEF AgreementInv, Rebuilding, Harmless
  <2>4. ASSUME NEW q \in Recoverers PROVE AttemptFine(job[q])'
    <3>1. ASSUME NEW i, i = job'[q], AttemptFine(i) PROVE AttemptFine(job[q])'
      BY <2>1, <3>1 DEF AttemptFine
    <3>2. QED
      BY <1>3, <2>1, <3>1 DEF AgreementInv
  <2>5. MissionFollows'
    BY <1>1, <1>3, <2>1 DEF AgreementInv, MissionFollows
  <2>6. QED
    BY <2>2, <2>3, <2>4, <2>5 DEF AgreementInv
<1>7. QED
  BY <1>4, <1>5, <1>6 DEF RecoveryInv, PaymentInv

LEMMA AttemptTyped ==
  ASSUME RecoveryInv, NEW p \in Recoverers
  PROVE  /\ job[p] \in Attempt /\ job[p].lock \in DOMAIN recoveryLock
         /\ p # "free" /\ "own" \in DOMAIN recoveryLock /\ recoveryLock \in LockHolders /\ attempts \in Nat
         /\ OwnLockOnly /\ job[p].at # "idle" =>
              /\ recoveryLock["own"] = p /\ \A q \in Recoverers \ {p} : job[q].at = "idle"
<1>1. /\ job[p] \in Attempt /\ job[p].lock \in DOMAIN recoveryLock
      /\ "own" \in DOMAIN recoveryLock /\ recoveryLock \in LockHolders /\ attempts \in Nat
  BY DEF RecoveryInv, PaymentInv, RecoveryTypeOK
<1>2. p # "free"
  BY RecoveryAssumption
<1>3. ASSUME OwnLockOnly, job[p].at # "idle"
      PROVE  recoveryLock["own"] = p /\ \A q \in Recoverers \ {p} : job[q].at = "idle"
  BY <1>3 DEF RecoveryInv, AgreementInv, OneRecoverer
<1>4. QED
  BY <1>1, <1>2, <1>3

\* Until onTerminal the mission gives no attempt anything to do.
LEMMA NothingToRecover ==
  ASSUME RecoveryInv, OwnLockOnly, ~run.told
  PROVE  /\ \A p \in Recoverers : Harmless(job[p])
         /\ mission.status # "failed" /\ run.status # "completed"
<1>1. /\ mission.status = "none" \/ (mission.status = "completed" /\ remembered)
      /\ run.status # "completed"
  BY DEF RecoveryInv, AgreementInv, MissionFollows
<1>2. ASSUME NEW p \in Recoverers PROVE Harmless(job[p])
  <2>1. job[p].at \in {"idle", "locked", "hiring", "paying", "hired", "saved", "leaving"}
    BY AttemptTyped DEF Attempt
  <2>2. AttemptFine(job[p]) /\ (remembered => Harmless(job[p]))
    BY DEF RecoveryInv, AgreementInv, Rebuilding
  <2>3. QED
    BY <1>1, <2>1, <2>2 DEF AttemptFine, Harmless
<1>3. QED
  BY <1>1, <1>2

LEMMA BeginRecoveryStep ==
  ASSUME RecoveryInv, NEW p \in Recoverers, NEW l \in LockNames, RecoveryBegins(p, l)
  PROVE  RecoveryInv'
<1>1. attempts \in Nat /\ attempts + 1 \in Nat /\ recoveryLock \in LockHolders
  BY AttemptTyped
<1>2. PICK j \in Attempt : j = [NoJob EXCEPT !.at = "locked", !.lock = l, !.attempt = attempts + 1]
  BY <1>1, BlankAttempts DEF Attempt
<1>3. j.at = "locked" /\ j.lock = l
  BY <1>2, BlankAttempts DEF Attempt
<1>4. /\ job' = [job EXCEPT ![p] = j] /\ recoveryLock' = [recoveryLock EXCEPT ![l] = p]
      /\ l \in DOMAIN recoveryLock /\ recoveryLock[l] = "free" /\ attempts' = attempts + 1
      /\ UNCHANGED <<run, mission, remembered, intents, payments, rebuilding>>
  BY <1>2 DEF RecoveryBegins
<1>5. recoveryLock' \in LockHolders
  BY <1>1, <1>4 DEF LockHolders
<1>6. ASSUME OwnLockOnly
      PROVE  recoveryLock'["own"] = p /\ \A q \in Recoverers : job[q].at = "idle"
  <2>1. l = "own"
    BY <1>4, <1>6 DEF OwnLockOnly
  <2>2. \A q \in Recoverers : job[q].at = "idle"
    BY <1>4, <1>6, <2>1, RecoveryAssumption DEF RecoveryInv, AgreementInv, OneRecoverer
  <2>3. QED
    BY <1>1, <1>4, <2>1, <2>2 DEF LockHolders
<1>7. AttemptFine(j) /\ Harmless(j)
  BY <1>3 DEF AttemptFine, Harmless
<1>8. QED
  BY <1>1, <1>3, <1>4, <1>5, <1>6, <1>7, AttemptMoves

\* What recoverPaidAudit finds: a mission it may hire for, or one that an
\* earlier attempt saved and whose history extends the run's.
LEMMA ReadStep ==
  ASSUME RecoveryInv, NEW p \in Recoverers, RecoveryReads(p)
  PROVE  RecoveryInv'
<1> DEFINE rest == SubSeq(mission.events, Len(run.events) + 1, Len(mission.events))
           hasVerifier == \E i \in 1..Len(mission.events) : mission.events[i] = VerifierPaidEvent
           mayComplete == mission.status = "completed" /\ mission.source = "recovered"
           next == CASE mayComplete -> IF job[p].lock # "own" \/ Diverged THEN "leaving" ELSE "saved"
                     [] mission.status = "failed" /\ ~hasVerifier -> "hiring"
                     [] OTHER -> "leaving"
<1>1. /\ job[p] \in Attempt /\ job[p].at = "locked" /\ job[p].lock \in DOMAIN recoveryLock
      /\ OwnLockOnly => /\ recoveryLock["own"] = p /\ \A q \in Recoverers \ {p} : job[q].at = "idle"
  BY AttemptTyped DEF RecoveryReads
<1>2. /\ run.events \in Seq(Events) /\ mission.events \in Seq(Events) /\ mission.result \in Nat
      /\ <<>> \in Histories
  BY BlankAttempts DEF RecoveryInv, PaymentInv, RecoveryTypeOK, Runs, Missions, Histories
<1>3. rest \in Histories
  BY <1>2 DEF Histories
<1>4. PICK j : j = [job[p] EXCEPT !.at = next, !.base = mission.events,
                  !.adds = IF next = "saved" THEN rest ELSE <<>>,
                  !.result = IF next = "saved" THEN mission.result ELSE 0]
  OBVIOUS
<1>5. job' = [job EXCEPT ![p] = j]
  BY <1>4 DEF RecoveryReads
<1>6. next \in {"leaving", "saved", "hiring"}
  OBVIOUS
<1>7. /\ j.at = next /\ j.base = mission.events
      /\ next = "saved" => j.adds = rest /\ j.result = mission.result
      /\ j \in Attempt /\ j.lock = job[p].lock
  <2>1. PICK a \in Histories, r \in Nat :
          /\ j = [job[p] EXCEPT !.at = next, !.base = mission.events, !.adds = a, !.result = r]
          /\ next = "saved" => a = rest /\ r = mission.result
    BY <1>2, <1>3, <1>4
  <2> HIDE DEF next, rest
  <2>2. mission.events \in Histories
    BY <1>2 DEF Histories
  <2>3. j \in Attempt
    BY <1>1, <1>6, <2>1, <2>2 DEF Attempt
  <2>4. /\ j.at = next /\ j.base = mission.events /\ j.adds = a /\ j.result = r
        /\ j.lock = job[p].lock
    BY <1>1, <2>1 DEF Attempt
  <2>5. QED
    BY <2>1, <2>3, <2>4
<1>8. ASSUME OwnLockOnly, remembered PROVE next = "leaving"
  <2>1. run.events = PaidHistory
    BY <1>8 DEF RecoveryInv, AgreementInv, Rebuilding
  <2>2. CASE mayComplete
    <3>1. mission.events = <<EvidenceEvent>>
      BY <1>8, <2>2 DEF RecoveryInv, AgreementInv, Rebuilding
    <3>2. Len(run.events) > Len(mission.events)
      BY <2>1, <3>1, PaidHistoryHas
    <3>3. QED
      BY <2>2, <3>2 DEF Diverged
  <2>3. CASE ~mayComplete
    <3>1. ASSUME mission.status = "failed" PROVE hasVerifier
      <4>1. mission.events = PaidHistory
        BY <1>8, <2>1, <3>1 DEF RecoveryInv, AgreementInv, MissionFollows
      <4>2. 2 \in 1..Len(mission.events) /\ mission.events[2] = VerifierPaidEvent
        BY <4>1, PaidHistoryHas
      <4>3. QED
        BY <4>2
    <3>2. QED
      BY <2>3, <3>1
  <2>4. QED
    BY <2>2, <2>3
<1>9. next = "saved" => mayComplete /\ ~Diverged
  OBVIOUS
<1>10. next = "hiring" => mission.status = "failed"
  OBVIOUS
<1>11. next = "saved" => run.events \o rest = mission.events
  <2>1. ~Diverged => Len(run.events) <= Len(mission.events)
                     /\ \A i \in 1..Len(run.events) : run.events[i] = mission.events[i]
    BY <1>2 DEF Diverged
  <2>2. QED
    BY <1>2, <1>9, <2>1, PrefixAndRest
<1> HIDE DEF next, rest
<1>12. AttemptFine(j)
  <2>1. j.at \notin {"paying", "hired"}
    BY <1>6, <1>7
  <2>2. j.at = "hiring" => mission.status = "failed" /\ j.base = mission.events
    BY <1>7, <1>10
  <2>3. j.at = "saved" => mission.status = "completed" /\ run.events \o j.adds = mission.events
                          /\ j.result = mission.result
    BY <1>7, <1>9, <1>11
  <2>4. QED
    BY <2>1, <2>2, <2>3 DEF AttemptFine
<1>13. UNCHANGED <<run, mission, remembered, intents, payments, rebuilding, recoveryLock, attempts>>
  BY DEF RecoveryReads
<1>14. recoveryLock' \in LockHolders /\ attempts' \in Nat
  BY <1>13, AttemptTyped
<1>15. j.at # "paying" /\ (OwnLockOnly /\ remembered => Harmless(j))
  BY <1>6, <1>7, <1>8 DEF Harmless
<1>16. QED
  BY <1>1, <1>5, <1>7, <1>12, <1>13, <1>14, <1>15, AttemptMoves

LEMMA HireStep ==
  ASSUME RecoveryInv, NEW p \in Recoverers, NEW v \in Verifiers, RecoveryHires(p, v)
  PROVE  RecoveryInv'
<1> DEFINE next == IF PurchaseIsNew(v) THEN "paying"
                   ELSE IF intents[v] = "delivered" THEN "hired" ELSE "leaving"
<1>1. /\ job[p] \in Attempt /\ job[p].at = "hiring" /\ job[p].lock \in DOMAIN recoveryLock
      /\ OwnLockOnly => /\ recoveryLock["own"] = p /\ \A q \in Recoverers \ {p} : job[q].at = "idle"
  BY AttemptTyped DEF RecoveryHires
<1>2. OwnLockOnly => ~remembered /\ mission.status = "failed" /\ job[p].base = mission.events
  BY <1>1 DEF RecoveryInv, AgreementInv, Rebuilding, Harmless, AttemptFine
<1>3. next \in {"paying", "hired", "leaving"} /\ (next = "paying" <=> PurchaseIsNew(v))
  BY DEF PurchaseIsNew
<1>4. PICK j \in Attempt : j = [job[p] EXCEPT !.verifier = v, !.at = next]
  BY <1>1, <1>3 DEF Attempt
<1>5. job' = [job EXCEPT ![p] = j]
  BY <1>4 DEF RecoveryHires
<1> HIDE DEF next
<1>6. j.at = next /\ j.verifier = v /\ j.base = job[p].base /\ j.lock = job[p].lock
  BY <1>1, <1>4 DEF Attempt
<1>7. OwnLockOnly => AttemptFine(j)
  BY <1>2, <1>3, <1>6 DEF AttemptFine
<1>8. UNCHANGED <<run, mission, remembered, payments, rebuilding, recoveryLock, attempts>>
  BY DEF RecoveryHires
<1>9. recoveryLock' \in LockHolders /\ attempts' \in Nat
  BY <1>8, AttemptTyped
<1>10. \/ j.at # "paying" /\ UNCHANGED intents
       \/ /\ j.verifier \in Verifiers /\ intents[j.verifier] = "none"
          /\ intents' = [intents EXCEPT ![j.verifier] = "intent"]
  <2>1. CASE PurchaseIsNew(v)
    BY <1>6, <2>1 DEF RecoveryHires, PurchaseIsNew
  <2>2. CASE ~PurchaseIsNew(v)
    <3>1. next # "paying"
      BY <2>2 DEF next
    <3>2. QED
      BY <1>6, <2>2, <3>1 DEF RecoveryHires
  <2>3. QED
    BY <2>1, <2>2
<1>11. QED
  BY <1>1, <1>2, <1>5, <1>6, <1>7, <1>8, <1>9, <1>10, AttemptMoves

LEMMA LeaveStep ==
  ASSUME RecoveryInv, NEW p \in Recoverers, RecoveryLeaves(p) \/ RecovererDies(p)
  PROVE  RecoveryInv'
<1>1. /\ job[p].at # "idle" /\ "own" \in DOMAIN recoveryLock /\ recoveryLock \in LockHolders /\ attempts \in Nat
      /\ OwnLockOnly => \A q \in Recoverers \ {p} : job[q].at = "idle"
  BY AttemptTyped DEF RecoveryLeaves, RecovererDies
<1>2. PICK left \in {p, "free"} : recoveryLock' = [recoveryLock EXCEPT ![job[p].lock] = left]
  BY DEF RecoveryLeaves, RecovererDies
<1>3. /\ job' = [job EXCEPT ![p] = NoJob]
      /\ UNCHANGED <<run, mission, remembered, intents, payments, attempts, rebuilding>>
  BY DEF RecoveryLeaves, RecovererDies
<1>4. recoveryLock' \in LockHolders
  <2>1. ASSUME NEW f \in LockHolders, NEW k, NEW x \in Recoverers \cup {"free"}
        PROVE  [f EXCEPT ![k] = x] \in LockHolders
    BY <2>1 DEF LockHolders
  <2>2. left \in Recoverers \cup {"free"}
    OBVIOUS
  <2>3. QED
    BY <1>1, <1>2, <2>1, <2>2
<1>5. AttemptFine(NoJob) /\ Harmless(NoJob)
  BY BlankAttempts DEF AttemptFine, Harmless
<1>6. PICK j \in Attempt : j = NoJob /\ j.at = "idle" /\ j.lock = "own"
  BY BlankAttempts
<1>7. QED
  BY <1>1, <1>3, <1>4, <1>5, <1>6, AttemptMoves

\* What a step adds to a history, and where an attempt stands after it.
LEMMA HistoryGrows ==
  ASSUME NEW h \in Histories
  PROVE  /\ \A x \in Events : /\ Append(h, x) \in Histories /\ <<x>> \in Histories
                              /\ Append(h, x) = h \o <<x>>
         /\ \A t \in Histories : h \o t \in Histories
BY DEF Histories

LEMMA AttemptStands ==
  ASSUME NEW j \in Attempt, NEW a \in {"hired", "leaving"}
  PROVE  \E k \in Attempt : k = [j EXCEPT !.at = a] /\ k.at = a /\ k.base = j.base /\ k.lock = j.lock
<1>1. PICK k : k = [j EXCEPT !.at = a]
  OBVIOUS
<1>2. k \in Attempt /\ k.at = a /\ k.base = j.base /\ k.lock = j.lock
  BY <1>1 DEF Attempt
<1>3. QED
  BY <1>1, <1>2

\* A step that leaves the journal alone and starts no payment.
LEMMA PaymentKept ==
  ASSUME PaymentInv, UNCHANGED <<intents, payments, recoveryLock, attempts>>,
         run' \in Runs, mission' \in Missions, remembered' \in BOOLEAN, rebuilding' \in BOOLEAN,
         job' \in [Recoverers -> Attempt],
         \A p \in Recoverers : job'[p].lock = job[p].lock /\ (job'[p].at = "paying" => job'[p] = job[p])
  PROVE  PaymentInv'
<1>1. RecoveryTypeOK'
  BY DEF PaymentInv, RecoveryTypeOK, LockHolders
<1>2. PaidBehindIntent'
  BY DEF PaymentInv, PaidBehindIntent, Paid, PayingFor
<1>3. QED
  BY <1>1, <1>2 DEF PaymentInv

(* The purchase: the money moves while the intent of this attempt is the
   only one for its verifier, and the attempt pays no second time.          *)
LEMMA PayStep ==
  ASSUME RecoveryInv, NEW p \in Recoverers, RecoveryPays(p)
  PROVE  RecoveryInv'
<1> DEFINE v == job[p].verifier
<1>1. /\ job[p] \in Attempt /\ job[p].at = "paying" /\ job[p].lock \in DOMAIN recoveryLock
      /\ OwnLockOnly => /\ recoveryLock["own"] = p /\ \A q \in Recoverers \ {p} : job[q].at = "idle"
  BY AttemptTyped DEF RecoveryPays
<1>2. /\ v \in Verifiers /\ intents[v] # "none" /\ ~Paid(v)
      /\ \A q \in Recoverers : job[q].at = "paying" /\ job[q].verifier = v => q = p
  BY <1>1 DEF RecoveryInv, PaymentInv, PaidBehindIntent, PayingFor
<1>3. PICK outcome \in {"delivered", "uncertain", "unpaid"} :
        /\ payments' = IF outcome = "unpaid" THEN payments ELSE payments \cup {<<v, job[p].attempt>>}
        /\ intents' = IF outcome = "delivered" THEN [intents EXCEPT ![v] = "delivered"] ELSE intents
        /\ job' = [job EXCEPT ![p].at = IF outcome = "delivered" THEN "hired" ELSE "leaving"]
  BY DEF RecoveryPays
<1>4. UNCHANGED <<run, mission, remembered, recoveryLock, attempts, rebuilding>>
  BY DEF RecoveryPays
<1>5. PICK d \in Verifiers \X Nat : d = <<v, job[p].attempt>> /\ d[1] = v
  <2>1. job[p].attempt \in Nat
    BY <1>1 DEF Attempt
  <2>2. <<v, job[p].attempt>> \in Verifiers \X Nat /\ <<v, job[p].attempt>>[1] = v
    BY <1>2, <2>1
  <2>3. QED
    BY <2>2
<1>6. /\ job' \in [Recoverers -> Attempt] /\ job'[p].at \in {"hired", "leaving"}
      /\ job'[p].base = job[p].base /\ job'[p].lock = job[p].lock
      /\ \A q \in Recoverers \ {p} : job'[q] = job[q]
  <2>1. job \in [Recoverers -> Attempt]
    BY DEF RecoveryInv, PaymentInv, RecoveryTypeOK
  <2>2. PICK a \in {"hired", "leaving"} : job' = [job EXCEPT ![p].at = a]
    BY <1>3
  <2>3. PICK j \in Attempt : j = [job[p] EXCEPT !.at = a] /\ j.at = a /\ j.base = job[p].base
                             /\ j.lock = job[p].lock
    BY <1>1, AttemptStands
  <2>4. job' = [job EXCEPT ![p] = j]
    BY <2>2, <2>3
  <2>5. QED
    BY <2>1, <2>3, <2>4
<1>7. payments' \subseteq payments \cup {d} /\ intents' \in [Verifiers -> {"none", "intent", "delivered"}]
      /\ \A w \in Verifiers : intents'[w] = "none" => intents[w] = "none" /\ w # v
  BY <1>2, <1>3, <1>5 DEF RecoveryInv, PaymentInv, RecoveryTypeOK
<1> HIDE DEF v
<1>8. RecoveryTypeOK'
  BY <1>4, <1>6, <1>7 DEF RecoveryInv, PaymentInv, RecoveryTypeOK, LockHolders
<1>9. PaidBehindIntent'
  <2>1. \A e, f \in payments' : e[1] = f[1] => e = f
    BY <1>2, <1>5, <1>7 DEF RecoveryInv, PaymentInv, PaidBehindIntent, Paid
  <2>2. \A w \in Verifiers : intents'[w] = "none" => ~\E e \in payments' : e[1] = w
    BY <1>5, <1>7 DEF RecoveryInv, PaymentInv, PaidBehindIntent, Paid
  <2>3. ASSUME NEW q \in Recoverers, job'[q].at = "paying"
        PROVE  /\ job'[q].verifier \in Verifiers
               /\ intents'[job'[q].verifier] # "none" /\ ~\E e \in payments' : e[1] = job'[q].verifier
               /\ \A r \in Recoverers :
                    job'[r].at = "paying" /\ job'[r].verifier = job'[q].verifier => r = q
    <3>1. q # p /\ job'[q] = job[q] /\ job[q].verifier # v
      BY <1>2, <1>6, <2>3
    <3>2. /\ job[q].verifier \in Verifiers /\ intents[job[q].verifier] # "none"
          /\ ~\E e \in payments : e[1] = job[q].verifier
          /\ \A r \in Recoverers : job[r].at = "paying" /\ job[r].verifier = job[q].verifier => r = q
      BY <2>3, <3>1 DEF RecoveryInv, PaymentInv, PaidBehindIntent, Paid, PayingFor
    <3>3. QED
      BY <1>5, <1>6, <1>7, <3>1, <3>2
  <2>4. QED
    BY <2>1, <2>2, <2>3 DEF PaidBehindIntent, Paid, PayingFor
<1>10. ASSUME OwnLockOnly' PROVE AgreementInv'
  <2>1. AgreementInv /\ OwnLockOnly
    BY <1>4, <1>10 DEF OwnLockOnly, RecoveryInv
  <2>2. ~remembered /\ mission.status = "failed" /\ job[p].base = mission.events
    BY <1>1, <2>1 DEF AgreementInv, Rebuilding, Harmless, AttemptFine
  <2>3. OneRecoverer'
    BY <1>1, <1>4, <1>6, <2>1 DEF AgreementInv, OneRecoverer
  <2>4. Rebuilding' /\ \A q \in Recoverers : AttemptFine(job[q])'
    BY <1>1, <1>4, <1>6, <2>1, <2>2 DEF AgreementInv, Rebuilding, AttemptFine
  <2>5. MissionFollows'
    <3>1. run.status # "running"
      BY <2>1, <2>2 DEF AgreementInv, MissionFollows
    <3>2. QED
      BY <1>4, <2>1, <3>1 DEF AgreementInv, MissionFollows
  <2>6. QED
    BY <2>3, <2>4, <2>5 DEF AgreementInv
<1>11. QED
  BY <1>8, <1>9, <1>10 DEF RecoveryInv, PaymentInv

LEMMA ReconcileStep ==
  ASSUME RecoveryInv, NEW v \in Verifiers, OrderReconciled(v)
  PROVE  RecoveryInv'
<1>1. /\ intents[v] = "intent" /\ intents' = [intents EXCEPT ![v] = "delivered"]
      /\ \A p \in Recoverers : job[p].at # "paying"
      /\ UNCHANGED <<run, mission, remembered, payments, job, recoveryLock, attempts, rebuilding>>
  BY DEF OrderReconciled
<1>2. RecoveryTypeOK'
  BY <1>1 DEF RecoveryInv, PaymentInv, RecoveryTypeOK, LockHolders
<1>3. \A w \in Verifiers : intents'[w] = "none" <=> intents[w] = "none"
  BY <1>1 DEF RecoveryInv, PaymentInv, RecoveryTypeOK
<1>4. PaidBehindIntent'
  BY <1>1, <1>3 DEF RecoveryInv, PaymentInv, PaidBehindIntent, Paid
<1>5. (OwnLockOnly => AgreementInv)'
  BY <1>1, <1>3 DEF RecoveryInv, OwnLockOnly, AgreementInv, OneRecoverer, Rebuilding, Harmless,
     MissionFollows, AttemptFine
<1>6. QED
  BY <1>2, <1>4, <1>5 DEF RecoveryInv, PaymentInv

-----------------------------------------------------------------------------
(* MissionRecovery: the live run, the rebuilding and the saving. *)

LEMMA LiveHireStep ==
  ASSUME RecoveryInv, NEW v \in Verifiers, LiveHires(v)
  PROVE  RecoveryInv'
<1>1. /\ run.status = "running" /\ payments = {} /\ \A w \in Verifiers : intents[w] = "none"
      /\ UNCHANGED <<mission, job, recoveryLock, attempts, rebuilding>>
  BY DEF LiveHires
<1>2. run \in Runs /\ run.events \in Histories
  BY DEF RecoveryInv, PaymentInv, RecoveryTypeOK, Runs
<1>3. PICK outcome \in {"delivered", "uncertain", "unpaid"} :
        /\ intents' = [intents EXCEPT ![v] = IF outcome = "delivered" THEN "delivered" ELSE "intent"]
        /\ payments' = IF outcome = "unpaid" THEN payments ELSE {<<v, 0>>}
        /\ run' = IF outcome = "delivered"
                    THEN [run EXCEPT !.events = Append(@, VerifierPaidEvent)] ELSE run
        /\ \E kept \in {FALSE, outcome = "delivered"} : remembered' = kept
  BY DEF LiveHires
<1>4. PICK h \in Histories : h = Append(run.events, VerifierPaidEvent)
  BY <1>2, HistoryGrows DEF Events
<1>5. /\ run' \in Runs /\ run'.status = "running" /\ run'.told = run.told
      /\ outcome = "delivered" => run'.events = h
      /\ remembered' \in BOOLEAN /\ (remembered' => outcome = "delivered")
  BY <1>1, <1>2, <1>3, <1>4 DEF Runs
<1>6. /\ intents' \in [Verifiers -> {"none", "intent", "delivered"}] /\ intents'[v] # "none"
      /\ payments' \subseteq Verifiers \X Nat /\ \A d \in payments' : d = <<v, 0>> /\ d[1] = v
  <2>1. intents \in [Verifiers -> {"none", "intent", "delivered"}]
    BY DEF RecoveryInv, PaymentInv, RecoveryTypeOK
  <2>2. <<v, 0>> \in Verifiers \X Nat /\ <<v, 0>>[1] = v
    OBVIOUS
  <2>3. QED
    BY <1>1, <1>3, <2>1, <2>2
<1>7. RecoveryTypeOK'
  BY <1>1, <1>5, <1>6 DEF RecoveryInv, PaymentInv, RecoveryTypeOK, LockHolders
<1>8. PaidBehindIntent'
  <2>1. \A p \in Recoverers : job[p].at # "paying"
    BY <1>1 DEF RecoveryInv, PaymentInv, PaidBehindIntent
  <2>2. QED
    BY <1>1, <1>6, <2>1 DEF PaidBehindIntent, Paid
<1>9. ASSUME OwnLockOnly' PROVE AgreementInv'
  <2>1. AgreementInv /\ OwnLockOnly
    BY <1>1, <1>9 DEF OwnLockOnly, RecoveryInv
  <2>2. ~run.told /\ run.events = <<LiveEvent>> /\ h = PaidHistory
    BY <1>1, <1>4, <2>1 DEF AgreementInv, MissionFollows, PaidHistory
  <2>3. ~remembered /\ ~rebuilding /\ mission.status = "none"
    <3>1. Len(<<LiveEvent>>) = 1 /\ Len(PaidHistory) = 2
      BY PaidHistoryHas
    <3>2. ~remembered
      BY <2>1, <2>2, <3>1 DEF AgreementInv, Rebuilding
    <3>3. QED
      BY <2>1, <2>2, <3>2 DEF AgreementInv, Rebuilding, MissionFollows
  <2>4. \A p \in Recoverers : Harmless(job[p])
    BY <2>1, <2>2, NothingToRecover
  <2>5. OneRecoverer'
    BY <1>1, <2>1 DEF AgreementInv, OneRecoverer
  <2>6. Rebuilding' /\ \A p \in Recoverers : AttemptFine(job[p])'
    BY <1>1, <1>5, <2>2, <2>3, <2>4 DEF Rebuilding, AttemptFine, Harmless
  <2>7. MissionFollows'
    BY <1>1, <1>5, <1>6, <2>2, <2>3 DEF MissionFollows
  <2>8. QED
    BY <2>5, <2>6, <2>7 DEF AgreementInv
<1>10. QED
  BY <1>7, <1>8, <1>9 DEF RecoveryInv, PaymentInv

LEMMA LiveEndStep ==
  ASSUME RecoveryInv, LiveEnds
  PROVE  RecoveryInv'
<1>1. /\ run.status = "running"
      /\ UNCHANGED <<mission, remembered, intents, payments, job, recoveryLock, attempts, rebuilding>>
  BY DEF LiveEnds
<1>2. PICK s \in {"failed", "cancelled"} : run' = [run EXCEPT !.status = s]
  BY DEF LiveEnds
<1>3. run' \in Runs /\ run'.status = s /\ run'.events = run.events /\ run'.told = run.told
  BY <1>2 DEF RecoveryInv, PaymentInv, RecoveryTypeOK, Runs
<1>4. PaymentInv'
  BY <1>1, <1>3, PaymentKept DEF RecoveryInv, PaymentInv, RecoveryTypeOK
<1>5. ASSUME OwnLockOnly' PROVE AgreementInv'
  <2>1. AgreementInv /\ OwnLockOnly
    BY <1>1, <1>5 DEF OwnLockOnly, RecoveryInv
  <2>2. ~run.told /\ mission.status # "failed" /\ \A p \in Recoverers : Harmless(job[p])
    <3>1. ~run.told
      BY <1>1, <2>1 DEF AgreementInv, MissionFollows
    <3>2. QED
      BY <2>1, <3>1, NothingToRecover
  <2>3. OneRecoverer' /\ Rebuilding' /\ \A p \in Recoverers : AttemptFine(job[p])'
    BY <1>1, <1>3, <2>1, <2>2 DEF AgreementInv, OneRecoverer, Rebuilding, Harmless, AttemptFine
  <2>4. MissionFollows'
    BY <1>1, <1>3, <2>1, <2>2 DEF AgreementInv, MissionFollows
  <2>5. QED
    BY <2>3, <2>4 DEF AgreementInv
<1>6. QED
  BY <1>4, <1>5 DEF RecoveryInv

LEMMA MissionSavedStep ==
  ASSUME RecoveryInv, LiveMissionSaved
  PROVE  RecoveryInv'
<1>1. /\ run.status # "running" /\ ~run.told /\ run' = [run EXCEPT !.told = TRUE]
      /\ mission' \in {mission, [status |-> run.status, source |-> "live", events |-> run.events, result |-> 0]}
      /\ UNCHANGED <<remembered, intents, payments, job, recoveryLock, attempts, rebuilding>>
  BY DEF LiveMissionSaved
<1>2. /\ run \in Runs /\ run' \in Runs
      /\ run'.told /\ run'.status = run.status /\ run'.events = run.events /\ run'.result = run.result
  BY <1>1 DEF RecoveryInv, PaymentInv, RecoveryTypeOK, Runs
<1>3. /\ mission' \in Missions
      /\ \/ mission' = mission
         \/ mission'.status = run.status /\ mission'.events = run.events
  BY <1>1, <1>2 DEF RecoveryInv, PaymentInv, RecoveryTypeOK, Runs, Missions
<1>4. PaymentInv'
  BY <1>1, <1>2, <1>3, PaymentKept DEF RecoveryInv, PaymentInv, RecoveryTypeOK
<1>5. ASSUME OwnLockOnly' PROVE AgreementInv'
  <2>1. AgreementInv /\ OwnLockOnly
    BY <1>1, <1>5 DEF OwnLockOnly, RecoveryInv
  <2>2. run.status # "completed" /\ mission.status # "failed" /\ \A p \in Recoverers : Harmless(job[p])
    BY <1>1, <2>1, NothingToRecover
  <2>3. OneRecoverer' /\ Rebuilding' /\ \A p \in Recoverers : AttemptFine(job[p])'
    BY <1>1, <1>2, <1>3, <2>1, <2>2 DEF AgreementInv, OneRecoverer, Rebuilding, Harmless, AttemptFine
  <2>4. MissionFollows'
    BY <1>1, <1>2, <1>3, <2>1, <2>2 DEF AgreementInv, MissionFollows
  <2>5. QED
    BY <2>3, <2>4 DEF AgreementInv
<1>6. QED
  BY <1>4, <1>5 DEF RecoveryInv

LEMMA RebuildStep ==
  ASSUME RecoveryInv, RebuildReads \/ RebuildSaves
  PROVE  RecoveryInv'
<1>1. CASE RebuildReads
  <2>1. /\ remembered /\ rebuilding' = TRUE
        /\ UNCHANGED <<run, mission, remembered, intents, payments, job, recoveryLock, attempts>>
    BY <1>1 DEF RebuildReads
  <2>2. PaymentInv'
    BY <2>1, PaymentKept DEF RecoveryInv, PaymentInv, RecoveryTypeOK
  <2>3. (OwnLockOnly => AgreementInv)'
    BY <2>1 DEF RecoveryInv, OwnLockOnly, AgreementInv, OneRecoverer, Rebuilding, Harmless, MissionFollows,
       AttemptFine
  <2>4. QED
    BY <2>2, <2>3 DEF RecoveryInv
<1>2. CASE RebuildSaves
  <2>1. /\ mission' = [status |-> "completed", source |-> "recovered", events |-> <<EvidenceEvent>>, result |-> 0]
        /\ rebuilding /\ rebuilding' = FALSE
        /\ UNCHANGED <<run, remembered, intents, payments, job, recoveryLock, attempts>>
    BY <1>2 DEF RebuildSaves
  <2>2. /\ mission' \in Missions /\ mission'.status = "completed" /\ mission'.source = "recovered"
        /\ mission'.events = <<EvidenceEvent>>
    BY <2>1, BlankAttempts DEF Missions
  <2>3. PaymentInv'
    BY <2>1, <2>2, PaymentKept DEF RecoveryInv, PaymentInv, RecoveryTypeOK
  <2>4. ASSUME OwnLockOnly' PROVE AgreementInv'
    <3>1. AgreementInv /\ OwnLockOnly
      BY <2>1, <2>4 DEF OwnLockOnly, RecoveryInv
    <3>2. remembered /\ run.status # "completed" /\ \A p \in Recoverers : Harmless(job[p])
      BY <2>1, <3>1 DEF AgreementInv, Rebuilding
    <3>3. OneRecoverer' /\ Rebuilding' /\ \A p \in Recoverers : AttemptFine(job[p])'
      BY <2>1, <2>2, <3>1, <3>2 DEF AgreementInv, OneRecoverer, Rebuilding, Harmless, AttemptFine
    <3>4. MissionFollows'
      BY <2>1, <2>2, <3>1, <3>2 DEF AgreementInv, MissionFollows
    <3>5. QED
      BY <3>3, <3>4 DEF AgreementInv
  <2>5. QED
    BY <2>3, <2>4 DEF RecoveryInv
<1>3. QED
  BY <1>1, <1>2

\* The recovered mission is the failed run's history and one event more,
\* which is also what the attempt will add to the run.
LEMMA SaveStep ==
  ASSUME RecoveryInv, NEW p \in Recoverers, RecoverySaves(p)
  PROVE  RecoveryInv'
<1>1. PICK k \in Nat : k = job[p].attempt
  BY AttemptTyped DEF Attempt
<1>2. /\ job[p] \in Attempt /\ job[p].at = "hired" /\ job[p].base \in Histories
      /\ OwnLockOnly => /\ recoveryLock["own"] = p /\ \A q \in Recoverers \ {p} : job[q].at = "idle"
  BY AttemptTyped DEF RecoverySaves, Attempt
<1>3. /\ mission' = [status |-> "completed", source |-> "recovered",
                     events |-> Append(job[p].base, ToString(k)), result |-> k]
      /\ job' = [job EXCEPT ![p] = [job[p] EXCEPT !.at = "saved", !.adds = <<ToString(k)>>, !.result = k]]
      /\ UNCHANGED <<run, remembered, intents, payments, recoveryLock, attempts, rebuilding>>
  BY <1>1 DEF RecoverySaves, RecoveryInv, PaymentInv, RecoveryTypeOK
<1>4. PICK x \in Events : x = ToString(k)
  BY DEF Events
<1>5. PICK h \in Histories : h = Append(job[p].base, x) /\ h = job[p].base \o <<x>>
  BY <1>2, HistoryGrows
<1>6. /\ mission' \in Missions /\ mission'.status = "completed" /\ mission'.source = "recovered"
      /\ mission'.events = h /\ mission'.result = k
  BY <1>1, <1>3, <1>4, <1>5 DEF Missions
<1>7. /\ job' \in [Recoverers -> Attempt] /\ \A q \in Recoverers \ {p} : job'[q] = job[q]
      /\ job'[p].at = "saved" /\ job'[p].adds = <<x>> /\ job'[p].result = k /\ job'[p].lock = job[p].lock
  <2>1. PICK j : j = [job[p] EXCEPT !.at = "saved", !.adds = <<x>>, !.result = k]
    OBVIOUS
  <2>2. <<x>> \in Histories
    BY <1>2, HistoryGrows
  <2>3. j \in Attempt /\ j.at = "saved" /\ j.adds = <<x>> /\ j.result = k /\ j.lock = job[p].lock
    BY <1>1, <1>2, <2>1, <2>2 DEF Attempt
  <2>4. job \in [Recoverers -> Attempt] /\ job' = [job EXCEPT ![p] = j]
    BY <1>3, <1>4, <2>1 DEF RecoveryInv, PaymentInv, RecoveryTypeOK
  <2>5. QED
    BY <2>3, <2>4
<1>8. PaymentInv'
  BY <1>3, <1>6, <1>7, PaymentKept DEF RecoveryInv, PaymentInv, RecoveryTypeOK
<1>9. ASSUME OwnLockOnly' PROVE AgreementInv'
  <2>1. AgreementInv /\ OwnLockOnly
    BY <1>3, <1>9 DEF OwnLockOnly, RecoveryInv
  <2>2. job[p].base = run.events /\ run.status = "failed" /\ ~remembered
    BY <1>2, <2>1 DEF AgreementInv, Rebuilding, Harmless, MissionFollows, AttemptFine
  <2>3. run.told
    BY <1>2, <2>1, NothingToRecover DEF Harmless
  <2>4. OneRecoverer'
    BY <1>2, <1>3, <1>7, <2>1 DEF OneRecoverer
  <2>5. Rebuilding'
    BY <1>3, <2>1, <2>2 DEF AgreementInv, Rebuilding
  <2>6. MissionFollows'
    BY <1>3, <1>6, <2>1, <2>2, <2>3 DEF AgreementInv, MissionFollows
  <2>7. \A q \in Recoverers : AttemptFine(job[q])'
    BY <1>2, <1>3, <1>5, <1>6, <1>7, <2>1, <2>2 DEF AttemptFine
  <2>8. QED
    BY <2>4, <2>5, <2>6, <2>7 DEF AgreementInv
<1>10. QED
  BY <1>8, <1>9 DEF RecoveryInv

LEMMA CompleteStep ==
  ASSUME RecoveryInv, NEW p \in Recoverers, RecoveryCompletes(p)
  PROVE  RecoveryInv'
<1>1. /\ job[p] \in Attempt /\ job[p].at = "saved"
      /\ OwnLockOnly => /\ recoveryLock["own"] = p /\ \A q \in Recoverers \ {p} : job[q].at = "idle"
  BY AttemptTyped DEF RecoveryCompletes
<1>2. /\ job' = [job EXCEPT ![p].at = "leaving"]
      /\ UNCHANGED <<mission, remembered, intents, payments, recoveryLock, attempts, rebuilding>>
  BY DEF RecoveryCompletes
<1>3. /\ run \in Runs /\ run.events \in Histories
      /\ job[p].adds \in Histories /\ job[p].result \in Nat
  BY <1>1 DEF RecoveryInv, PaymentInv, RecoveryTypeOK, Runs, Attempt
<1>4. PICK h \in Histories : h = run.events \o job[p].adds
  BY <1>3, HistoryGrows
<1>5. /\ run' \in Runs /\ run'.told = run.told
      /\ \/ run' = run
         \/ run.status = "failed" /\ run'.status = "completed" /\ run'.events = h /\ run'.result = job[p].result
  <2>1. CASE run.status = "failed" /\ ~run.full /\ job[p].lock # "other file"
    <3>1. run' = [run EXCEPT !.status = "completed", !.result = job[p].result, !.events = h]
      BY <1>4, <2>1 DEF RecoveryCompletes
    <3>2. QED
      BY <1>3, <2>1, <3>1 DEF Runs
  <2>2. CASE ~(run.status = "failed" /\ ~run.full /\ job[p].lock # "other file")
    BY <1>3, <2>2 DEF RecoveryCompletes
  <2>3. QED
    BY <2>1, <2>2
<1>6. /\ job' \in [Recoverers -> Attempt] /\ \A q \in Recoverers \ {p} : job'[q] = job[q]
      /\ job'[p].at = "leaving" /\ job'[p].lock = job[p].lock
  <2>1. PICK j \in Attempt : j = [job[p] EXCEPT !.at = "leaving"] /\ j.at = "leaving" /\ j.lock = job[p].lock
    BY <1>1, AttemptStands
  <2>2. job \in [Recoverers -> Attempt] /\ job' = [job EXCEPT ![p] = j]
    BY <1>2, <2>1 DEF RecoveryInv, PaymentInv, RecoveryTypeOK
  <2>3. QED
    BY <2>1, <2>2
<1>7. PaymentInv'
  BY <1>2, <1>5, <1>6, PaymentKept DEF RecoveryInv, PaymentInv, RecoveryTypeOK
<1>8. ASSUME OwnLockOnly' PROVE AgreementInv'
  <2>1. AgreementInv /\ OwnLockOnly
    BY <1>2, <1>8 DEF OwnLockOnly, RecoveryInv
  <2>2. /\ mission.status = "completed" /\ ~remembered
        /\ run.status = "failed" => h = mission.events /\ job[p].result = mission.result
    BY <1>1, <1>4, <2>1 DEF AgreementInv, Rebuilding, Harmless, AttemptFine
  <2>3. run.told /\ run.status # "running"
    <3>1. run.told
      BY <1>1, <2>1, NothingToRecover DEF Harmless
    <3>2. QED
      BY <2>1, <3>1 DEF AgreementInv, MissionFollows
  <2>4. OneRecoverer'
    BY <1>1, <1>2, <1>6, <2>1 DEF OneRecoverer
  <2>5. Rebuilding' /\ \A q \in Recoverers : AttemptFine(job[q])'
    BY <1>1, <1>2, <1>6, <2>1, <2>2 DEF AgreementInv, Rebuilding, AttemptFine
  <2>6. MissionFollows'
    BY <1>2, <1>5, <2>1, <2>2, <2>3 DEF AgreementInv, MissionFollows
  <2>7. QED
    BY <2>4, <2>5, <2>6 DEF AgreementInv
<1>9. QED
  BY <1>7, <1>8 DEF RecoveryInv

LEMMA RecoveryInvNext == RecoveryInv /\ [RecoveryNext]_recoveryVars => RecoveryInv'
<1> SUFFICES ASSUME RecoveryInv, [RecoveryNext]_recoveryVars PROVE RecoveryInv'
  OBVIOUS
<1>1. CASE UNCHANGED recoveryVars
  <2>1. PaymentInv'
    BY <1>1, PaymentKept DEF recoveryVars, RecoveryInv, PaymentInv, RecoveryTypeOK
  <2>2. (OwnLockOnly => AgreementInv)'
    BY <1>1 DEF recoveryVars, RecoveryInv, OwnLockOnly, AgreementInv, OneRecoverer, Rebuilding, Harmless,
       MissionFollows, AttemptFine
  <2>3. QED
    BY <2>1, <2>2 DEF RecoveryInv
<1>2. ASSUME NEW v \in Verifiers, LiveHires(v) \/ OrderReconciled(v) PROVE RecoveryInv'
  BY <1>2, LiveHireStep, ReconcileStep
<1>3. CASE LiveEnds \/ LiveMissionSaved \/ RebuildReads \/ RebuildSaves
  BY <1>3, LiveEndStep, MissionSavedStep, RebuildStep
<1>4. ASSUME NEW p \in Recoverers,
             \/ \E l \in LockNames : RecoveryBegins(p, l)
             \/ RecoveryReads(p) \/ RecoveryPays(p) \/ RecoverySaves(p)
             \/ RecoveryCompletes(p) \/ RecoveryLeaves(p) \/ RecovererDies(p)
             \/ \E v \in Verifiers : RecoveryHires(p, v)
      PROVE  RecoveryInv'
  BY <1>4, BeginRecoveryStep, ReadStep, PayStep, SaveStep, CompleteStep, LeaveStep, HireStep
<1>5. QED
  BY <1>1, <1>2, <1>3, <1>4 DEF RecoveryNext

THEOREM RecoveryInvariant == RecoverySpec => []RecoveryInv
<1>1. RecoverySpec => RecoveryInv /\ [][RecoveryNext]_recoveryVars
  BY RecoveryInvInit DEF RecoverySpec
<1>2. QED
  BY <1>1, RecoveryInvNext, PTL

\* No verifier is paid twice, by whichever attempts of whichever processes.
EachVerifierPaidOnce == \A d, e \in payments : d[1] = e[1] => d = e

(* Recovery and the live run together pay no verifier twice: the purchase
   journal admits one intent for it, and its payment is behind that intent. *)
THEOREM EachVerifierIsPaidOnce == RecoverySpec => []EachVerifierPaidOnce
<1>1. RecoveryInv => EachVerifierPaidOnce
  BY DEF RecoveryInv, PaymentInv, PaidBehindIntent, EachVerifierPaidOnce
<1>2. QED
  BY <1>1, RecoveryInvariant, PTL

(* "Mission already contains a confirmed Verifier payment" is true where one
   service offers finding-verification: recoverPaidAudit ranks anew, and with
   a second one the run MCSecondVerifier shows two payments.                *)
THEOREM OneVerifierIsPaidOnce ==
  ASSUME NEW only, Verifiers = {only}
  PROVE  RecoverySpec => []VerifierPaidOnce
<1>1. RecoveryInv => VerifierPaidOnce
  <2> SUFFICES ASSUME RecoveryInv PROVE VerifierPaidOnce
    OBVIOUS
  <2>1. \A d, e \in payments : d = e
    BY DEF RecoveryInv, PaymentInv, RecoveryTypeOK, PaidBehindIntent
  <2>2. CASE payments = {}
    BY <2>2, FS_EmptySet DEF VerifierPaidOnce
  <2>3. CASE payments # {}
    <3>1. PICK d : payments = {d}
      BY <2>1, <2>3
    <3>2. Cardinality(payments) = 1
      BY <3>1, FS_Singleton
    <3>3. QED
      BY <3>2 DEF VerifierPaidOnce
  <2>4. QED
    BY <2>2, <2>3
<1>2. QED
  BY <1>1, RecoveryInvariant, PTL

(* A recovered run and its recovered mission tell one history, whichever
   attempt wrote which: an attempt adds to the run exactly what the saved
   mission has beyond it, and refuses when they diverged.  It is said where
   every attempt takes the mission's own lock.                              *)
THEOREM HistoriesAlwaysAgree == RecoverySpec => []HistoriesAgree
<1>1. RecoveryInv => HistoriesAgree
  BY DEF RecoveryInv, OwnLockOnly, AgreementInv, MissionFollows, HistoriesAgree
<1>2. QED
  BY <1>1, RecoveryInvariant, PTL

-----------------------------------------------------------------------------
(* ServiceFeedback: what the table says of a service was said by missions. *)

GradeBehind(s, j, v) ==
  \E g \in graded : g.offer = s /\ g.job = j /\ g.value = v

FeedbackInv ==
  /\ IsFiniteSet(graded)
  /\ \A p \in posts : GradeBehind(p.offer, p.job, p.value)
  /\ \A k \in DOMAIN reviews : k = <<k[1], k[2]>> /\ GradeBehind(k[1], k[2], reviews[k])

\* The jobs that graded a service.
GradingJobs(s) == {g.job : g \in {h \in graded : h.offer = s}}

LEMMA FeedbackInvInit == FeedbackInit => FeedbackInv
<1> SUFFICES ASSUME FeedbackInit PROVE FeedbackInv
  OBVIOUS
<1>1. graded = {} /\ posts = {} /\ DOMAIN reviews = {}
  BY DEF FeedbackInit
<1>2. QED
  BY <1>1, FS_EmptySet DEF FeedbackInv

LEMMA FeedbackInvNext == FeedbackInv /\ [FeedbackNext]_feedbackVars => FeedbackInv'
<1> SUFFICES ASSUME FeedbackInv, [FeedbackNext]_feedbackVars PROVE FeedbackInv'
  OBVIOUS
<1>1. ASSUME UNCHANGED <<graded, reviews>>, posts' \subseteq posts
      PROVE  FeedbackInv'
  BY <1>1 DEF FeedbackInv, GradeBehind
<1>2. ASSUME NEW j \in Jobs, Grade(j)
      PROVE  FeedbackInv'
  <2>1. PICK v \in Grades :
          /\ graded' = graded \cup {[job |-> j, offer |-> hiring[j].offer, value |-> v]}
          /\ posts' = posts \cup {[job |-> j, offer |-> hiring[j].offer, value |-> v,
                                   execution |-> hiring[j].execution]}
          /\ reviews' = reviews
    BY <1>2 DEF Grade
  <2>2. IsFiniteSet(graded')
    BY <2>1, FS_AddElement DEF FeedbackInv
  <2>3. ASSUME NEW p \in posts'
        PROVE  \E g \in graded' : g.offer = p.offer /\ g.job = p.job /\ g.value = p.value
    <3>1. CASE p \in posts
      BY <2>1, <3>1 DEF FeedbackInv, GradeBehind
    <3>2. CASE p \notin posts
      <4>1. p.offer = hiring[j].offer /\ p.job = j /\ p.value = v
        BY <2>1, <3>2
      <4>2. PICK g \in graded' : g = [job |-> j, offer |-> hiring[j].offer, value |-> v]
        BY <2>1
      <4>3. g.offer = hiring[j].offer /\ g.job = j /\ g.value = v
        BY <4>2
      <4>4. QED
        BY <4>1, <4>3
    <3>3. QED
      BY <3>1, <3>2
  <2>4. \A k \in DOMAIN reviews' : k = <<k[1], k[2]>> /\ GradeBehind(k[1], k[2], reviews[k])'
    BY <2>1 DEF FeedbackInv, GradeBehind
  <2>5. QED
    BY <2>2, <2>3, <2>4 DEF FeedbackInv, GradeBehind
<1>3. ASSUME NEW p \in posts, Received(p)
      PROVE  FeedbackInv'
  <2>1. CASE p.offer \notin listed
    BY <1>1, <1>3, <2>1 DEF Received
  <2>2. CASE p.offer \in listed
    <3>1. PICK k : k = <<p.offer, p.job>>
      OBVIOUS
    <3>2. reviews' = [l \in DOMAIN reviews \cup {k} |-> IF l = k THEN p.value ELSE reviews[l]]
      BY <1>3, <2>2, <3>1 DEF Received, PostWritten, Key
    <3>3. /\ DOMAIN reviews' = {k} \cup DOMAIN reviews /\ reviews'[k] = p.value
          /\ \A l \in DOMAIN reviews \ {k} : reviews'[l] = reviews[l]
      BY <3>2
    <3>4. k[1] = p.offer /\ k[2] = p.job
      BY <3>1
    <3>5. graded' = graded /\ posts' \subseteq posts
      BY <1>3 DEF Received
    <3>6. \A l \in DOMAIN reviews' : l = <<l[1], l[2]>> /\ GradeBehind(l[1], l[2], reviews[l])'
      BY <3>1, <3>3, <3>4, <3>5 DEF FeedbackInv, GradeBehind
    <3>7. QED
      BY <3>5, <3>6 DEF FeedbackInv, GradeBehind
  <2>3. QED
    BY <2>1, <2>2
<1>4. ASSUME NEW p \in posts, LostPost(p)
      PROVE  FeedbackInv'
  BY <1>1, <1>4 DEF LostPost
<1>5. ASSUME NEW j \in Jobs, HireBest(j) \/ GoesOn(j) \/ ExecutedAgain(j)
      PROVE  FeedbackInv'
  BY <1>1, <1>5 DEF HireBest, GoesOn, ExecutedAgain
<1>6. CASE ListingChanges \/ UNCHANGED feedbackVars
  BY <1>1, <1>6 DEF ListingChanges, feedbackVars
<1>7. QED
  BY <1>2, <1>3, <1>4, <1>5, <1>6 DEF FeedbackNext

\* Different rows of a service are of different missions, and each of these
\* graded it: a service has no more rows than missions that graded it.
LEMMA RowsAreOfMissions ==
  ASSUME FeedbackInv, NEW s
  PROVE  /\ IsFiniteSet(GradingJobs(s)) /\ IsFiniteSet(Reviewed(s))
         /\ Cardinality(Reviewed(s)) <= Cardinality(GradingJobs(s))
<1> DEFINE G == {h \in graded : h.offer = s}
           R == Reviewed(s)
           J == GradingJobs(s)
<1>1. IsFiniteSet(J)
  <2>1. IsFiniteSet(G)
    BY FS_Subset DEF FeedbackInv
  <2>2. PICK f : f = [g \in G |-> g.job]
    OBVIOUS
  <2>3. f \in Surjection(G, J)
    BY <2>2 DEF Surjection, GradingJobs
  <2>4. QED
    BY <2>1, <2>3, FS_Surjection
<1>2. PICK f : f = [k \in R |-> k[2]]
  OBVIOUS
<1>3. \A k \in R : k = <<s, k[2]>> /\ k[2] \in J
  BY DEF FeedbackInv, GradeBehind, Reviewed, GradingJobs
<1>4. f \in Injection(R, J)
  BY <1>2, <1>3 DEF Injection, IsInjective
<1>5. QED
  BY <1>1, <1>4, FS_Injection

THEOREM FeedbackInvariant == FeedbackSpec => []FeedbackInv
<1>1. FeedbackSpec => FeedbackInv /\ [][FeedbackNext]_feedbackVars
  BY FeedbackInvInit DEF FeedbackSpec
<1>2. QED
  BY <1>1, FeedbackInvNext, PTL

(* However often a mission is executed and whenever its posts arrive, one
   mission is one sample: the bonus of the untried ends, and a service counts
   as qualified, only after as many missions as the code asks for.          *)
THEOREM QualifiedOnlyByMissions == FeedbackSpec => []QualifiedByMissions
<1>1. FeedbackInv => QualifiedByMissions
  <2> SUFFICES ASSUME FeedbackInv, NEW s \in Offers
               PROVE  /\ Qualified(s) => Cardinality(GradingJobs(s)) >= MinimumSamples
                      /\ \A k \in Reviewed(s) : GradeBehind(s, k[2], reviews[k])
    BY DEF QualifiedByMissions, GradingJobs, GradeBehind
  <2>1. Cardinality(GradingJobs(s)) \in Nat /\ Cardinality(Reviewed(s)) \in Nat
        /\ Cardinality(Reviewed(s)) <= Cardinality(GradingJobs(s))
    BY RowsAreOfMissions, FS_CardinalityType
  <2>2. Qualified(s) => Cardinality(GradingJobs(s)) >= MinimumSamples
    BY <2>1, FeedbackAssumption DEF Qualified, Count
  <2>3. \A k \in Reviewed(s) : GradeBehind(s, k[2], reviews[k])
    BY DEF FeedbackInv, Reviewed
  <2>4. QED
    BY <2>2, <2>3
<1>2. QED
  BY <1>1, FeedbackInvariant, PTL

-----------------------------------------------------------------------------
(* RunStream: an event may come twice, but none is skipped.                *)

StreamTypeOK ==
  /\ saved \in SavedRun
  /\ es \in [state : {"none", "connecting", "open", "closed"}, lastId : 0..NoId, stopped : BOOLEAN]
  /\ feed \in [open : BOOLEAN, sent : 0..MaxTrace, wire : Seq(StreamMessage)]
  /\ shown \in Seq(1..MaxTrace)
  /\ view \in {"IDLE", "RUNNING", "COMPLETED", "ERROR"}
  /\ drops \in 0..MaxDrops

\* The first n events have all been on the page.
SeenUpTo(n) == \A k \in 1..n : \E i \in 1..Len(shown) : shown[i] = k
InOrder == \A i \in 1..Len(shown) : \A n \in 1..(shown[i] - 1) : \E j \in 1..(i - 1) : shown[j] = n

\* What is in flight: a ready message or not, then c events that end with the
\* last one sent, each with its number, then an outcome or not.
InFlight(a, c, b) ==
  /\ Len(feed.wire) = a + c + b /\ c <= feed.sent
  /\ \A i \in 1..a : feed.wire[i] = [kind |-> "ready", id |-> 0]
  /\ \A i \in (a + 1)..(a + c) : feed.wire[i] = [kind |-> "trace", id |-> feed.sent - c + (i - a)]
  /\ \A i \in (a + c + 1)..(a + c + b) :
       /\ feed.wire[i].kind \in {"done", "error"} /\ ~feed.open
       /\ feed.wire[i].kind = "done" => (saved.status = "completed" /\ feed.sent = saved.len)

\* The page has every event before those in flight, and so before the id the
\* browser would resume from.
StreamInv ==
  /\ StreamTypeOK
  /\ feed.sent <= saved.len
  /\ es.state # "open" => feed = NoFeed
  /\ \E a, b \in 0..1, c \in 0..MaxTrace :
       /\ InFlight(a, c, b)
       /\ es.state = "open" => (es.lastId <= feed.sent - c /\ SeenUpTo(feed.sent - c))
  /\ es.state # "closed" => (es.lastId <= saved.len /\ SeenUpTo(es.lastId))
  /\ InOrder
  /\ view = "COMPLETED" => (saved.status = "completed" /\ SeenUpTo(saved.len))

\* With nothing in flight the shape of the connection says nothing.
LEMMA IdleFeed ==
  ASSUME feed = NoFeed, saved \in SavedRun
  PROVE  /\ feed \in [open : BOOLEAN, sent : 0..MaxTrace, wire : Seq(StreamMessage)]
         /\ feed.sent <= saved.len /\ InFlight(0, 0, 0)
<1>1. <<>> \in Seq(StreamMessage) /\ Len(<<>>) = 0
  OBVIOUS
<1>2. MaxTrace \in Nat
  BY StreamAssumption
<1>3. QED
  BY <1>1, <1>2 DEF NoFeed, InFlight, SavedRun

LEMMA StreamInvInit == StreamInit => StreamInv
<1> SUFFICES ASSUME StreamInit PROVE StreamInv
  OBVIOUS
<1>1. MaxTrace \in Nat /\ MaxDrops \in Nat
  BY StreamAssumption
<1>2. saved \in SavedRun /\ shown \in Seq(1..MaxTrace) /\ Len(shown) = 0
  BY <1>1 DEF StreamInit, SavedRun
<1>3. /\ feed \in [open : BOOLEAN, sent : 0..MaxTrace, wire : Seq(StreamMessage)]
      /\ feed.sent <= saved.len /\ InFlight(0, 0, 0)
  BY <1>2, IdleFeed DEF StreamInit
<1>4. StreamTypeOK
  BY <1>1, <1>2, <1>3 DEF StreamInit, StreamTypeOK, NoId
<1>5. SeenUpTo(0) /\ InOrder
  BY <1>2 DEF SeenUpTo, InOrder
<1>6. \E a, b \in 0..1, c \in 0..MaxTrace :
        /\ InFlight(a, c, b)
        /\ es.state = "open" => (es.lastId <= feed.sent - c /\ SeenUpTo(feed.sent - c))
  BY <1>1, <1>3 DEF StreamInit
<1>7. QED
  BY <1>1, <1>2, <1>3, <1>4, <1>5, <1>6 DEF StreamInv, StreamInit

\* The run moves on; what was completed keeps its length.
RunGrows ==
  /\ saved' \in SavedRun /\ saved'.len >= saved.len
  /\ saved.status = "completed" => (saved'.status = "completed" /\ saved'.len = saved.len)

LEMMA RunMoves ==
  ASSUME StreamInv, RunAppends \/ RunEnds \/ RunRecovered
  PROVE  RunGrows /\ UNCHANGED <<es, feed, shown, view, drops>>
<1>0. saved \in SavedRun /\ MaxTrace \in Nat
  BY StreamAssumption DEF StreamInv, StreamTypeOK
<1>1. CASE RunAppends
  <2>1. PICK failure \in BOOLEAN :
          saved' = [saved EXCEPT !.len = @ + 1,
                      !.failedAt = IF failure /\ @ = 0 THEN saved.len + 1 ELSE @]
    BY <1>1 DEF RunAppends
  <2>5. saved.status = "running" /\ saved.len < MaxTrace /\ UNCHANGED <<es, feed, shown, view, drops>>
    BY <1>1, Zenon DEF RunAppends
  <2>6. saved.len \in 0..MaxTrace
    BY <1>0 DEF SavedRun
  <2>2. saved.len + 1 \in 0..MaxTrace /\ saved.status = "running"
    BY <1>0, <2>5, <2>6
  <2>3. saved' \in SavedRun /\ saved'.len = saved.len + 1
    BY <1>0, <2>1, <2>2 DEF SavedRun
  <2>4. QED
    BY <2>2, <2>3, <2>5, <2>6 DEF RunGrows
<1>2. CASE RunEnds
  <2>1. PICK s \in {"completed", "failed", "cancelled"} : saved' = [saved EXCEPT !.status = s]
    BY <1>2 DEF RunEnds
  <2>2. QED
    BY <1>0, <1>2, <2>1 DEF RunEnds, RunGrows, SavedRun
<1>3. CASE RunRecovered
  <2>1. PICK n \in (saved.len + 1)..MaxTrace : saved' = [saved EXCEPT !.status = "completed", !.len = n]
    BY <1>3 DEF RunRecovered
  <2>2. n \in 0..MaxTrace /\ n >= saved.len
    BY <1>0 DEF SavedRun
  <2>3. QED
    BY <1>0, <1>3, <2>1, <2>2 DEF RunRecovered, RunGrows, SavedRun
<1>4. QED
  BY <1>1, <1>2, <1>3

LEMMA RunGrowsInv ==
  ASSUME StreamInv, RunGrows, UNCHANGED <<es, feed, shown, view, drops>>
  PROVE  StreamInv'
<1>0. saved \in SavedRun /\ saved' \in SavedRun /\ MaxTrace \in Nat
  BY StreamAssumption DEF StreamInv, StreamTypeOK, RunGrows
<1>1. PICK a \in 0..1, b \in 0..1, c \in 0..MaxTrace :
        /\ InFlight(a, c, b)
        /\ es.state = "open" => (es.lastId <= feed.sent - c /\ SeenUpTo(feed.sent - c))
  BY DEF StreamInv
<1>2. InFlight(a, c, b)'
  BY <1>1 DEF InFlight, RunGrows
<1>3. /\ es'.state = "open" => (es'.lastId <= feed'.sent - c /\ SeenUpTo(feed.sent - c)')
  BY <1>1 DEF SeenUpTo
<1>4. StreamTypeOK'
  BY <1>0 DEF StreamInv, StreamTypeOK
<1>5. feed'.sent <= saved'.len
  BY <1>0 DEF StreamInv, StreamTypeOK, SavedRun, RunGrows
<1>6. es'.state # "closed" => (es'.lastId <= saved'.len /\ SeenUpTo(es.lastId)')
  BY <1>0 DEF StreamInv, StreamTypeOK, SavedRun, RunGrows, SeenUpTo
<1>7. InOrder'
  BY DEF StreamInv, InOrder
<1>8. view' = "COMPLETED" => (saved'.status = "completed" /\ SeenUpTo(saved.len)')
  <2> SUFFICES ASSUME view' = "COMPLETED" PROVE saved'.status = "completed" /\ SeenUpTo(saved.len)'
    OBVIOUS
  <2>1. saved.status = "completed" /\ SeenUpTo(saved.len) /\ saved'.len = saved.len
    BY DEF StreamInv, RunGrows
  <2>2. QED
    BY <2>1 DEF RunGrows, SeenUpTo
<1>9. es'.state # "open" => feed' = NoFeed'
  BY DEF StreamInv, NoFeed
<1>10. QED
  BY <1>2, <1>3, <1>4, <1>5, <1>6, <1>7, <1>8, <1>9 DEF StreamInv

\* The connection is gone, and the page has nothing new.
LEMMA NothingInFlight ==
  ASSUME StreamInv, StreamTypeOK', saved' = saved \/ RunGrows, feed' = NoFeed, shown' = shown,
         view' = view \/ view' # "COMPLETED", es'.state # "open", es'.lastId = es.lastId,
         es'.state # "closed" => es.state # "closed"
  PROVE  StreamInv'
<1>0. saved \in SavedRun /\ saved' \in SavedRun /\ MaxTrace \in Nat
  BY StreamAssumption DEF StreamInv, StreamTypeOK, RunGrows
<1>1. feed'.sent <= saved'.len /\ InFlight(0, 0, 0)'
  BY <1>0 DEF NoFeed, InFlight, SavedRun
<1>2. \E a, b \in 0..1, c \in 0..MaxTrace :
        /\ InFlight(a, c, b)'
        /\ es'.state = "open" => (es'.lastId <= feed'.sent - c /\ SeenUpTo(feed.sent - c)')
  BY <1>0, <1>1
<1>3. saved'.len >= saved.len /\ (saved.status = "completed" => (saved'.status = "completed" /\ saved'.len = saved.len))
  BY <1>0 DEF RunGrows, SavedRun
<1>4. es'.state # "closed" => (es'.lastId <= saved'.len /\ SeenUpTo(es.lastId)')
  BY <1>0, <1>3, SMTT(40) DEF StreamInv, StreamTypeOK, SavedRun, SeenUpTo
<1>5. InOrder'
  BY DEF StreamInv, InOrder
<1>6. view' = "COMPLETED" => (saved'.status = "completed" /\ SeenUpTo(saved.len)')
  <2> SUFFICES ASSUME view' = "COMPLETED" PROVE saved'.status = "completed" /\ SeenUpTo(saved.len)'
    OBVIOUS
  <2>1. saved.status = "completed" /\ SeenUpTo(saved.len) /\ saved'.len = saved.len
    BY <1>3 DEF StreamInv
  <2>2. QED
    BY <1>3, <2>1 DEF SeenUpTo
<1>7. es'.state # "open" => feed' = NoFeed'
  BY DEF NoFeed
<1>8. QED
  BY <1>1, <1>2, <1>4, <1>5, <1>6, <1>7 DEF StreamInv

LEMMA ConnectionEndsInv ==
  ASSUME StreamInv, StreamRefused \/ StreamLost \/ HunterRestarts \/ PageStops \/ StreamStarts
  PROVE  StreamInv'
<1>0. /\ saved \in SavedRun /\ MaxTrace \in Nat /\ MaxDrops \in Nat
      /\ es \in [state : {"none", "connecting", "open", "closed"}, lastId : 0..NoId, stopped : BOOLEAN]
      /\ drops \in 0..MaxDrops
  BY StreamAssumption DEF StreamInv, StreamTypeOK
<1>1. /\ saved' = saved \/ RunGrows
      /\ saved' \in SavedRun
  <2>1. CASE HunterRestarts
    <3>1. saved.status = "running" /\ saved' = [saved EXCEPT !.here = FALSE]
      BY <2>1, Zenon DEF HunterRestarts
    <3>4. saved \in SavedRun
      BY <1>0
    <3>2. saved' \in SavedRun /\ saved'.len = saved.len /\ saved.len \in Nat
      <4>1. saved.len \in Nat /\ saved = [status |-> saved.status, len |-> saved.len, failedAt |-> saved.failedAt, here |-> saved.here]
        BY <3>4, StreamAssumption DEF SavedRun
      <4>2. saved' = [status |-> saved.status, len |-> saved.len, failedAt |-> saved.failedAt, here |-> FALSE]
        BY <3>1, <4>1
      <4>3. saved.status \in {"absent", "running", "completed", "failed", "cancelled"} /\ saved.len \in 0..MaxTrace /\ saved.failedAt \in 0..MaxTrace
        BY <3>4 DEF SavedRun
      <4>4. QED
        BY <4>1, <4>2, <4>3 DEF SavedRun
    <3>3. QED
      BY <3>1, <3>2 DEF RunGrows
  <2>2. CASE ~HunterRestarts
    BY <1>0, <2>2 DEF StreamRefused, StreamLost, PageStops, StreamStarts
  <2>3. QED
    BY <2>1, <2>2
<1>2. feed' = NoFeed /\ shown' = shown
  BY DEF StreamInv, StreamRefused, StreamLost, HunterRestarts, PageStops, StreamStarts
<1>3. (view' = view \/ view' # "COMPLETED") /\ view' \in {"IDLE", "RUNNING", "COMPLETED", "ERROR"}
  BY DEF StreamInv, StreamTypeOK, StreamRefused, StreamLost, HunterRestarts, PageStops, StreamStarts
<1>4. /\ es' \in [state : {"none", "connecting", "open", "closed"}, lastId : 0..NoId, stopped : BOOLEAN]
      /\ es'.state # "open" /\ es'.lastId = es.lastId
      /\ es'.state # "closed" => es.state # "closed"
  <2>1. CASE HunterRestarts
    BY <1>0, <2>1 DEF HunterRestarts
  <2>2. CASE StreamRefused \/ StreamLost \/ PageStops \/ StreamStarts
    BY <1>0, <2>2 DEF StreamRefused, StreamLost, PageStops, StreamStarts
  <2>3. QED
    BY <2>1, <2>2
<1>5. drops' \in 0..MaxDrops
  BY <1>0 DEF StreamRefused, StreamLost, HunterRestarts, PageStops, StreamStarts
<1>6. feed' \in [open : BOOLEAN, sent : 0..MaxTrace, wire : Seq(StreamMessage)]
  BY <1>0, <1>2 DEF NoFeed
<1>7. StreamTypeOK'
  BY <1>1, <1>2, <1>3, <1>4, <1>5, <1>6 DEF StreamInv, StreamTypeOK, SavedRun, NoId, StreamMessage
<1>8. QED
  BY <1>1, <1>2, <1>3, <1>4, <1>7, NothingInFlight

LEMMA StreamOpensInv == ASSUME StreamInv, StreamOpens PROVE StreamInv'
<1>0. /\ saved \in SavedRun /\ MaxTrace \in Nat /\ saved.len \in Nat /\ saved.len <= MaxTrace
      /\ es \in [state : {"none", "connecting", "open", "closed"}, lastId : 0..NoId, stopped : BOOLEAN]
  BY StreamAssumption DEF StreamInv, StreamTypeOK, SavedRun
<1>1. es.state = "connecting" /\ es.lastId \in Nat /\ es.lastId <= saved.len /\ SeenUpTo(es.lastId)
  BY <1>0 DEF StreamOpens, StreamInv, NoId
<1> DEFINE ready == [kind |-> "ready", id |-> 0]
<1>2. ready \in StreamMessage /\ <<ready>> \in Seq(StreamMessage) /\ Len(<<ready>>) = 1 /\ <<ready>>[1] = ready
  BY <1>0 DEF StreamMessage, NoId
<1>3. feed' = [open |-> TRUE, sent |-> es.lastId, wire |-> <<ready>>]
  BY DEF StreamOpens
<1>4. saved' \in SavedRun /\ saved'.len = saved.len /\ (saved.status = "completed" => saved'.status = "completed")
  BY <1>0 DEF StreamOpens, SavedRun
<1>5. es'.state = "open" /\ es'.lastId = es.lastId
      /\ es' \in [state : {"none", "connecting", "open", "closed"}, lastId : 0..NoId, stopped : BOOLEAN]
  BY <1>0 DEF StreamOpens
<1>6. shown' = shown /\ view' = view /\ drops' = drops
  BY DEF StreamOpens
<1>7. es.lastId \in 0..MaxTrace
  BY <1>0, <1>1
<1>8. feed' \in [open : BOOLEAN, sent : 0..MaxTrace, wire : Seq(StreamMessage)]
  BY <1>2, <1>3, <1>7
<1>9. StreamTypeOK'
  BY <1>4, <1>5, <1>6, <1>8 DEF StreamInv, StreamTypeOK, SavedRun, NoId, StreamMessage
<1>10. InFlight(1, 0, 0)'
  <2> DEFINE w == <<ready>>
  <2>1. feed'.wire = w /\ feed'.sent = es.lastId /\ Len(w) = 1 /\ w[1] = ready
    BY <1>2, <1>3
  <2>2. \A i \in 1..1 : feed'.wire[i] = ready
    BY <2>1
  <2>3. (1 + 1)..(1 + 0) = {} /\ (1 + 0 + 1)..(1 + 0 + 0) = {}
    OBVIOUS
  <2> HIDE DEF w
  <2>4. QED
    BY <1>1, <2>1, <2>2, <2>3 DEF InFlight
<1>11. SeenUpTo(es.lastId)' /\ InOrder'
  <2>1. InOrder'
    BY <1>6 DEF StreamInv, InOrder
  <2>2. SeenUpTo(es.lastId)'
    BY <1>1, <1>5, <1>6 DEF SeenUpTo
  <2>3. QED
    BY <2>1, <2>2
<1>12. SeenUpTo(feed.sent - 0)' /\ es'.lastId <= feed'.sent - 0 /\ feed'.sent <= saved'.len
  <2>1. feed'.sent = es.lastId /\ feed'.sent - 0 = es.lastId
    BY <1>1, <1>3
  <2>2. QED
    BY <1>1, <1>4, <1>5, <1>6, <2>1 DEF SeenUpTo
<1>13. \E a, b \in 0..1, c \in 0..MaxTrace :
        /\ InFlight(a, c, b)'
        /\ es'.state = "open" => (es'.lastId <= feed'.sent - c /\ SeenUpTo(feed.sent - c)')
  <2>1. 1 \in 0..1 /\ 0 \in 0..1 /\ 0 \in 0..MaxTrace
    BY <1>0
  <2>2. QED
    BY <1>10, <1>12, <2>1
<1>14. view' = "COMPLETED" => (saved'.status = "completed" /\ SeenUpTo(saved.len)')
  BY <1>4, <1>6 DEF StreamInv, SeenUpTo
<1>15. es'.lastId <= saved'.len
  BY <1>1, <1>4, <1>5
<1>16. QED
  BY <1>5, <1>9, <1>11, <1>12, <1>13, <1>14, <1>15 DEF StreamInv

\* The messages of an interval of the wire are as many as its length.
LEMMA EventsInFlight ==
  ASSUME NEW a \in 0..1, NEW b \in 0..1, NEW c \in 0..MaxTrace, InFlight(a, c, b)
  PROVE  EventAtHead = feed.sent + 1 - c
<1>0. MaxTrace \in Nat /\ a \in Nat /\ b \in Nat /\ c \in Nat
  BY StreamAssumption
<1> DEFINE T == {i \in 1..Len(feed.wire) : feed.wire[i].kind = "trace"}
<1>1. Len(feed.wire) = a + c + b
  BY DEF InFlight
<1>2. \A i \in 1..a : feed.wire[i].kind = "ready"
  BY DEF InFlight
<1>3. \A i \in (a + 1)..(a + c) : feed.wire[i].kind = "trace"
  <2>1. \A i \in (a + 1)..(a + c) : feed.wire[i] = [kind |-> "trace", id |-> feed.sent - c + (i - a)]
    BY DEF InFlight
  <2>2. \A x : [kind |-> "trace", id |-> x].kind = "trace"
    OBVIOUS
  <2>3. QED
    BY <2>1, <2>2, Zenon
<1>4. \A i \in (a + c + 1)..(a + c + b) : feed.wire[i].kind \in {"done", "error"}
  BY DEF InFlight
<1>5. T = (a + 1)..(a + c)
  <2>1. ASSUME NEW i \in 1..Len(feed.wire), feed.wire[i].kind = "trace" PROVE i \in (a + 1)..(a + c)
    <3>1. i \in 1..a \/ i \in (a + 1)..(a + c) \/ i \in (a + c + 1)..(a + c + b)
      BY <1>0, <1>1
    <3>2. QED
      BY <1>2, <1>4, <2>1, <3>1
  <2>2. ASSUME NEW i \in (a + 1)..(a + c) PROVE i \in 1..Len(feed.wire) /\ feed.wire[i].kind = "trace"
    <3>1. i \in 1..Len(feed.wire)
      BY <1>0, <1>1
    <3>2. QED
      BY <1>3, <3>1
  <2>3. QED
    BY <2>1, <2>2
<1>6. Cardinality((a + 1)..(a + c)) = c
  <2>1. a + 1 \in Int /\ a + c \in Int
    BY <1>0
  <2>2. Cardinality((a + 1)..(a + c)) = IF a + 1 > a + c THEN 0 ELSE a + c - (a + 1) + 1
    BY <2>1, FS_Interval
  <2>3. QED
    BY <1>0, <2>2
<1>7. Cardinality(T) = c
  BY <1>5, <1>6
<1>8. QED
  BY <1>7 DEF EventAtHead

LEMMA StreamPollsInv == ASSUME StreamInv, StreamPolls PROVE StreamInv'
<1>0. /\ saved \in SavedRun /\ MaxTrace \in Nat /\ saved.len \in Nat /\ saved.len <= MaxTrace
      /\ feed \in [open : BOOLEAN, sent : 0..MaxTrace, wire : Seq(StreamMessage)]
      /\ feed.sent \in Nat /\ feed.sent <= saved.len
  BY StreamAssumption DEF StreamInv, StreamTypeOK, SavedRun
<1> DEFINE n == saved.len - feed.sent
           traces == Traces(feed.sent, saved.len)
           end == [kind |-> IF saved.status = "completed" THEN "done" ELSE "error",
                   id   |-> IF saved.status = "running" THEN NoId ELSE saved.len + 1]
           ends == saved.status # "running" \/ (~saved.here /\ ~AnyReplica)
           outcome == IF ends THEN <<end>> ELSE <<>>
           e == IF ends THEN 1 ELSE 0
<1>1. /\ feed.open = TRUE
      /\ feed' = [open |-> ~ends, sent |-> feed.sent + Len(traces), wire |-> feed.wire \o traces \o outcome]
      /\ UNCHANGED <<saved, es, shown, view, drops>>
  BY <1>0 DEF StreamPolls
<1>2. n \in Nat /\ n <= MaxTrace /\ e \in 0..1
  BY <1>0
<1>3. /\ traces \in Seq(StreamMessage) /\ Len(traces) = n
      /\ \A i \in 1..n : traces[i] = [kind |-> "trace", id |-> feed.sent + i]
  <2>1. traces = [i \in 1..n |-> [kind |-> "trace", id |-> feed.sent + i]]
    BY <1>0 DEF Traces, TraceId
  <2>2. \A i \in 1..n : [kind |-> "trace", id |-> feed.sent + i] \in StreamMessage
    BY <1>0 DEF StreamMessage, NoId
  <2> HIDE DEF traces, n
  <2>3. traces \in [1..n -> StreamMessage]
    BY <2>1, <2>2
  <2>4. traces \in Seq(StreamMessage)
    BY <1>2, <2>3, IsASeq
  <2>5. Len(traces) = n
    BY <1>2, <2>3, <2>4, LenProperties
  <2>6. QED
    BY <2>1, <2>4, <2>5
<1>4. /\ outcome \in Seq(StreamMessage) /\ Len(outcome) = e
      /\ \A i \in 1..e : outcome[i] = end
  <2>1. end \in StreamMessage
    BY <1>0 DEF StreamMessage, NoId, SavedRun
  <2>2. CASE ends
    <3> HIDE DEF end, ends
    <3>1. outcome = <<end>> /\ e = 1
      BY <2>2
    <3>2. <<end>> \in Seq(StreamMessage) /\ Len(<<end>>) = 1 /\ <<end>>[1] = end
      BY <2>1
    <3>3. QED
      BY <3>1, <3>2
  <2>3. CASE ~ends
    <3> HIDE DEF end, ends
    <3>1. outcome = <<>> /\ e = 0
      BY <2>3
    <3>2. <<>> \in Seq(StreamMessage) /\ Len(<<>>) = 0
      OBVIOUS
    <3>3. QED
      BY <3>1, <3>2
  <2>4. QED
    BY <2>2, <2>3
<1>5. PICK a \in 0..1, b \in 0..1, c \in 0..MaxTrace :
        /\ InFlight(a, c, b)
        /\ es.state = "open" => (es.lastId <= feed.sent - c /\ SeenUpTo(feed.sent - c))
  BY DEF StreamInv
<1>6. b = 0
  <2> SUFFICES ASSUME b # 0 PROVE FALSE
    OBVIOUS
  <2>1. b = 1 /\ a + c + 1 \in (a + c + 1)..(a + c + b)
    BY <1>0
  <2>2. ~feed.open
    BY <1>5, <2>1 DEF InFlight
  <2>3. QED
    BY <1>1, <2>2
<1>7. /\ Len(feed.wire) = a + c /\ c <= feed.sent /\ a \in Nat /\ c \in Nat
      /\ \A i \in 1..a : feed.wire[i] = [kind |-> "ready", id |-> 0]
      /\ \A i \in (a + 1)..(a + c) : feed.wire[i] = [kind |-> "trace", id |-> feed.sent - c + (i - a)]
  BY <1>0, <1>5, <1>6 DEF InFlight
<1> DEFINE part == feed.wire \o traces
           wire == part \o outcome
           d == c + n
<1> HIDE DEF traces, outcome, end, ends
<1>8. /\ part \in Seq(StreamMessage) /\ Len(part) = a + d
      /\ \A i \in 1..(a + c) : part[i] = feed.wire[i]
      /\ \A i \in (a + c + 1)..(a + d) : part[i] = traces[i - (a + c)]
  <2>1. feed.wire \in Seq(StreamMessage)
    BY <1>0
  <2>2. /\ part \in Seq(StreamMessage) /\ Len(part) = Len(feed.wire) + Len(traces)
        /\ \A i \in 1..(Len(feed.wire) + Len(traces)) :
             part[i] = IF i <= Len(feed.wire) THEN feed.wire[i] ELSE traces[i - Len(feed.wire)]
    BY <1>3, <2>1, ConcatProperties
  <2> HIDE DEF part, n
  <2>3. Len(feed.wire) + Len(traces) = a + d /\ n \in Nat /\ a + c <= a + d
    BY <1>2, <1>3, <1>7
  <2>4. ASSUME NEW i \in 1..(a + c) PROVE part[i] = feed.wire[i]
    <3>1. i \in 1..(Len(feed.wire) + Len(traces)) /\ i <= Len(feed.wire)
      BY <1>7, <2>3
    <3>2. QED
      BY <2>2, <3>1
  <2>5. ASSUME NEW i \in (a + c + 1)..(a + d) PROVE part[i] = traces[i - (a + c)]
    <3>1. i \in 1..(Len(feed.wire) + Len(traces)) /\ ~(i <= Len(feed.wire))
      BY <1>7, <2>3
    <3>2. QED
      BY <1>7, <2>2, <3>1
  <2>6. QED
    BY <2>2, <2>3, <2>4, <2>5
<1>9. /\ wire \in Seq(StreamMessage) /\ Len(wire) = a + d + e
      /\ \A i \in 1..(a + d) : wire[i] = part[i]
      /\ \A i \in (a + d + 1)..(a + d + e) : wire[i] = end
  <2> HIDE DEF part
  <2>1. /\ wire \in Seq(StreamMessage) /\ Len(wire) = Len(part) + Len(outcome)
        /\ \A i \in 1..(Len(part) + Len(outcome)) :
             wire[i] = IF i <= Len(part) THEN part[i] ELSE outcome[i - Len(part)]
    BY <1>4, <1>8, ConcatProperties
  <2> HIDE DEF wire, n, e
  <2>2. Len(part) + Len(outcome) = a + d + e /\ a + d \in Nat /\ e \in Nat
    BY <1>2, <1>4, <1>7, <1>8
  <2> HIDE DEF d
  <2>3. ASSUME NEW i \in 1..(a + d) PROVE wire[i] = part[i]
    <3>1. i \in 1..(Len(part) + Len(outcome)) /\ i <= Len(part)
      BY <1>8, <2>2
    <3>2. QED
      BY <2>1, <3>1
  <2>4. ASSUME NEW i \in (a + d + 1)..(a + d + e) PROVE wire[i] = end
    <3>1. i \in 1..(Len(part) + Len(outcome)) /\ ~(i <= Len(part)) /\ i - Len(part) \in 1..e
      BY <1>8, <2>2
    <3>2. QED
      BY <1>4, <2>1, <3>1
  <2>5. QED
    BY <2>1, <2>2, <2>3, <2>4
<1>10. feed' = [open |-> ~ends, sent |-> saved.len, wire |-> wire]
  <2>1. feed.sent + Len(traces) = saved.len
    BY <1>0, <1>3
  <2> HIDE DEF n
  <2>2. QED
    BY <1>1, <2>1
<1> HIDE DEF wire, part
<1>11. /\ feed'.open = ~ends /\ feed'.sent = saved.len /\ feed'.wire = wire
       /\ feed' \in [open : BOOLEAN, sent : 0..MaxTrace, wire : Seq(StreamMessage)]
  BY <1>0, <1>9, <1>10 DEF ends
<1>12. d \in 0..MaxTrace /\ d <= saved.len /\ saved.len - d = feed.sent - c
  <2>1. \A x, y, z, t \in Nat : (z <= y /\ y <= x /\ x <= t) =>
          (z + (x - y) \in 0..t /\ z + (x - y) <= x /\ x - (z + (x - y)) = y - z)
    OBVIOUS
  <2>2. saved.len \in Nat /\ feed.sent \in Nat /\ c \in Nat /\ MaxTrace \in Nat
        /\ c <= feed.sent /\ feed.sent <= saved.len /\ saved.len <= MaxTrace
    BY <1>0, <1>7
  <2>3. d = c + (saved.len - feed.sent)
    OBVIOUS
  <2> HIDE DEF d, n
  <2>4. QED
    BY <2>1, <2>2, <2>3
<1> HIDE DEF d, e
<1>22. PICK k \in 0..MaxTrace : k = d
  BY <1>12
<1>23. PICK g \in 0..1 : g = e
  BY <1>2
<1>24. k = c + n
  BY <1>22 DEF d
<1>25. ends <=> g = 1
  BY <1>23 DEF e
<1> HIDE DEF n
<1>26. /\ k \in Nat /\ k <= saved.len /\ saved.len - k = feed.sent - c /\ n \in Nat
       /\ Len(wire) = a + k + g
       /\ \A i \in 1..(a + c) : part[i] = feed.wire[i]
       /\ \A i \in (a + c + 1)..(a + k) : part[i] = traces[i - (a + c)]
       /\ \A i \in 1..(a + k) : wire[i] = part[i]
       /\ \A i \in (a + k + 1)..(a + k + g) : wire[i] = end
  BY <1>0, <1>2, <1>8, <1>9, <1>12, <1>22, <1>23, SMTT(40)
<1>13. InFlight(a, k, g)'
  <2>1. Len(feed'.wire) = a + k + g /\ k <= feed'.sent
    BY <1>11, <1>26
  <2>2. \A i \in 1..a : feed'.wire[i] = [kind |-> "ready", id |-> 0]
    BY <1>7, <1>11, <1>24, <1>26
  <2>3. \A i \in (a + 1)..(a + k) : feed'.wire[i] = [kind |-> "trace", id |-> feed'.sent - k + (i - a)]
    <3> SUFFICES ASSUME NEW i \in (a + 1)..(a + k)
                 PROVE  feed'.wire[i] = [kind |-> "trace", id |-> feed'.sent - k + (i - a)]
      OBVIOUS
    <3>1. feed'.wire[i] = part[i]
      BY <1>7, <1>11, <1>26
    <3>2. CASE i <= a + c
      <4>1. i \in (a + 1)..(a + c) /\ i \in 1..(a + c)
        BY <1>7, <1>24, <1>26, <3>2
      <4>2. part[i] = [kind |-> "trace", id |-> feed.sent - c + (i - a)]
        BY <1>7, <1>26, <4>1
      <4>3. QED
        BY <1>11, <1>26, <3>1, <4>2
    <3>3. CASE i > a + c
      <4>1. i \in (a + c + 1)..(a + k) /\ i - (a + c) \in 1..n
        BY <1>7, <1>24, <1>26, <3>3
      <4>2. part[i] = [kind |-> "trace", id |-> feed.sent + (i - (a + c))]
        BY <1>3, <1>26, <4>1
      <4>3. feed.sent + (i - (a + c)) = feed'.sent - k + (i - a)
        BY <1>0, <1>7, <1>11, <1>24, <1>26
      <4>4. QED
        BY <3>1, <4>2, <4>3
    <3>4. QED
      BY <1>2, <1>7, <3>2, <3>3
  <2>4. \A i \in (a + k + 1)..(a + k + g) :
          /\ feed'.wire[i].kind \in {"done", "error"} /\ ~feed'.open
          /\ feed'.wire[i].kind = "done" => (saved'.status = "completed" /\ feed'.sent = saved'.len)
    <3> SUFFICES ASSUME NEW i \in (a + k + 1)..(a + k + g)
                 PROVE  /\ feed'.wire[i].kind \in {"done", "error"} /\ ~feed'.open
                        /\ feed'.wire[i].kind = "done" => (saved'.status = "completed" /\ feed'.sent = saved'.len)
      OBVIOUS
    <3>1. feed'.wire[i] = end
      BY <1>11, <1>26
    <3>2. ends
      BY <1>7, <1>25, <1>26
    <3>3. end.kind \in {"done", "error"} /\ (end.kind = "done" => saved.status = "completed")
      BY DEF end
    <3>4. QED
      BY <1>1, <1>11, <3>1, <3>2, <3>3
  <2>5. QED
    BY <2>1, <2>2, <2>3, <2>4 DEF InFlight
<1>14. es'.state = "open" => (es'.lastId <= feed'.sent - k /\ SeenUpTo(feed.sent - k)')
  <2>1. feed'.sent - k = feed.sent - c /\ es' = es /\ shown' = shown
    BY <1>1, <1>11, <1>12, <1>22
  <2>2. QED
    BY <1>5, <2>1 DEF SeenUpTo
<1>15. StreamTypeOK'
  BY <1>1, <1>11 DEF StreamInv, StreamTypeOK, SavedRun, NoId, StreamMessage
<1>16. es'.state = "open"
  BY <1>1 DEF StreamInv, NoFeed
<1>17. es'.state # "closed" => (es'.lastId <= saved'.len /\ SeenUpTo(es.lastId)')
  BY <1>1 DEF StreamInv, SeenUpTo
<1>18. InOrder' /\ (view' = "COMPLETED" => (saved'.status = "completed" /\ SeenUpTo(saved.len)'))
  BY <1>1 DEF StreamInv, SeenUpTo, InOrder
<1>19. feed'.sent <= saved'.len
  BY <1>0, <1>1, <1>11
<1>20. \E aa, bb \in 0..1, cc \in 0..MaxTrace :
        /\ InFlight(aa, cc, bb)'
        /\ es'.state = "open" => (es'.lastId <= feed'.sent - cc /\ SeenUpTo(feed.sent - cc)')
  BY <1>13, <1>14
<1>21. QED
  BY <1>15, <1>16, <1>17, <1>18, <1>19, <1>20 DEF StreamInv

\* The head of the wire is gone: the ready message, or the oldest event.
LEMMA ShorterWire ==
  ASSUME NEW c \in Nat, NEW b \in Nat, InFlight(1, c, b), saved' = saved,
         Len(feed.wire) = 1 + c + b, c <= feed.sent, feed.sent \in Nat,
         feed'.sent = feed.sent, feed'.open = feed.open, feed'.wire = Tail(feed.wire),
         Len(Tail(feed.wire)) = Len(feed.wire) - 1,
         \A i \in 1..(Len(feed.wire) - 1) : Tail(feed.wire)[i] = feed.wire[i + 1]
  PROVE  InFlight(0, c, b)'
<1> DEFINE w == feed.wire
           v == feed'.wire
           Outcome(m) == /\ m.kind \in {"done", "error"} /\ ~feed.open
                         /\ m.kind = "done" => (saved.status = "completed" /\ feed.sent = saved.len)
<1>1. \A i \in (1 + 1)..(1 + c) : w[i] = [kind |-> "trace", id |-> feed.sent - c + (i - 1)]
  BY DEF InFlight
<1>2. \A i \in (1 + c + 1)..(1 + c + b) : Outcome(w[i])
  BY DEF InFlight
<1>3. Len(v) = c + b /\ \A i \in 1..(c + b) : v[i] = w[i + 1]
  OBVIOUS
<1> HIDE DEF w, v, Outcome
<1>4. \A i \in (0 + 1)..(0 + c) : v[i] = [kind |-> "trace", id |-> feed'.sent - c + (i - 0)]
  <2> SUFFICES ASSUME NEW i \in (0 + 1)..(0 + c)
               PROVE  v[i] = [kind |-> "trace", id |-> feed'.sent - c + (i - 0)]
    OBVIOUS
  <2>1. i + 1 \in (1 + 1)..(1 + c) /\ i \in 1..(c + b)
    OBVIOUS
  <2>2. feed.sent - c + ((i + 1) - 1) = feed'.sent - c + (i - 0)
    BY <2>1
  <2>3. v[i] = [kind |-> "trace", id |-> feed.sent - c + ((i + 1) - 1)]
    BY <1>1, <1>3, <2>1
  <2>4. QED
    BY <2>2, <2>3
<1>5. \A i \in (0 + c + 1)..(0 + c + b) : Outcome(v[i])
  <2> SUFFICES ASSUME NEW i \in (0 + c + 1)..(0 + c + b) PROVE Outcome(v[i])
    OBVIOUS
  <2>1. i + 1 \in (1 + c + 1)..(1 + c + b) /\ i \in 1..(c + b)
    OBVIOUS
  <2>2. QED
    BY <1>2, <1>3, <2>1
<1>6. \A i \in (0 + c + 1)..(0 + c + b) :
         /\ v[i].kind \in {"done", "error"} /\ ~feed'.open
         /\ v[i].kind = "done" => (saved'.status = "completed" /\ feed'.sent = saved'.len)
  BY <1>5 DEF Outcome
<1>7. Len(v) = 0 + c + b /\ c <= feed'.sent /\ 1..0 = {}
  BY <1>3
<1>8. QED
  BY <1>4, <1>6, <1>7 DEF InFlight, v

LEMMA ShorterEvents ==
  ASSUME NEW d \in Nat, NEW b \in Nat, InFlight(0, (d + 1), b), saved' = saved,
         Len(feed.wire) = 0 + (d + 1) + b, (d + 1) <= feed.sent, feed.sent \in Nat,
         feed'.sent = feed.sent, feed'.open = feed.open, feed'.wire = Tail(feed.wire),
         Len(Tail(feed.wire)) = Len(feed.wire) - 1,
         \A i \in 1..(Len(feed.wire) - 1) : Tail(feed.wire)[i] = feed.wire[i + 1]
  PROVE  InFlight(0, d, b)'
<1> DEFINE w == feed.wire
           v == feed'.wire
           Outcome(m) == /\ m.kind \in {"done", "error"} /\ ~feed.open
                         /\ m.kind = "done" => (saved.status = "completed" /\ feed.sent = saved.len)
<1>1. \A i \in (0 + 1)..(0 + (d + 1)) : w[i] = [kind |-> "trace", id |-> feed.sent - (d + 1) + (i - 0)]
  BY DEF InFlight
<1>2. \A i \in (0 + (d + 1) + 1)..(0 + (d + 1) + b) : Outcome(w[i])
  BY DEF InFlight
<1>3. Len(v) = d + b /\ \A i \in 1..(d + b) : v[i] = w[i + 1]
  OBVIOUS
<1> HIDE DEF w, v, Outcome
<1>4. \A i \in (0 + 1)..(0 + d) : v[i] = [kind |-> "trace", id |-> feed'.sent - d + (i - 0)]
  <2> SUFFICES ASSUME NEW i \in (0 + 1)..(0 + d)
               PROVE  v[i] = [kind |-> "trace", id |-> feed'.sent - d + (i - 0)]
    OBVIOUS
  <2>1. i + 1 \in (0 + 1)..(0 + (d + 1)) /\ i \in 1..(d + b)
    OBVIOUS
  <2>2. feed.sent - (d + 1) + ((i + 1) - 0) = feed'.sent - d + (i - 0)
    <3>1. i \in Nat /\ feed'.sent \in Nat /\ feed'.sent = feed.sent
      BY <2>1
    <3>2. \A x, y, z \in Nat : x - (y + 1) + ((z + 1) - 0) = x - y + (z - 0)
      OBVIOUS
    <3>3. feed.sent - (d + 1) + ((i + 1) - 0) = feed.sent - d + (i - 0)
      BY <3>1, <3>2, Zenon
    <3>4. QED
      BY <3>1, <3>3, Zenon
  <2>3. v[i] = [kind |-> "trace", id |-> feed.sent - (d + 1) + ((i + 1) - 0)]
    BY <1>1, <1>3, <2>1
  <2>4. QED
    BY <2>2, <2>3
<1>5. \A i \in (0 + d + 1)..(0 + d + b) : Outcome(v[i])
  <2> SUFFICES ASSUME NEW i \in (0 + d + 1)..(0 + d + b) PROVE Outcome(v[i])
    OBVIOUS
  <2>1. i + 1 \in (0 + (d + 1) + 1)..(0 + (d + 1) + b) /\ i \in 1..(d + b)
    OBVIOUS
  <2>2. QED
    BY <1>2, <1>3, <2>1
<1>6. \A i \in (0 + d + 1)..(0 + d + b) :
         /\ v[i].kind \in {"done", "error"} /\ ~feed'.open
         /\ v[i].kind = "done" => (saved'.status = "completed" /\ feed'.sent = saved'.len)
  BY <1>5 DEF Outcome
<1>7. Len(v) = 0 + d + b /\ d <= feed'.sent /\ 1..0 = {}
  BY <1>3
<1>8. QED
  BY <1>4, <1>6, <1>7 DEF InFlight, v

\* One message reaches the page.
LEMMA DispatchInv == ASSUME StreamInv, Dispatch PROVE StreamInv'
<1>0. /\ saved \in SavedRun /\ MaxTrace \in Nat /\ saved.len \in Nat /\ saved.len <= MaxTrace
      /\ feed \in [open : BOOLEAN, sent : 0..MaxTrace, wire : Seq(StreamMessage)]
      /\ es \in [state : {"none", "connecting", "open", "closed"}, lastId : 0..NoId, stopped : BOOLEAN]
      /\ feed.sent \in Nat /\ feed.sent <= saved.len
      /\ shown \in Seq(1..MaxTrace) /\ InOrder /\ drops \in 0..MaxDrops
      /\ view \in {"IDLE", "RUNNING", "COMPLETED", "ERROR"}
      /\ view = "COMPLETED" => (saved.status = "completed" /\ SeenUpTo(saved.len))
  BY StreamAssumption DEF StreamInv, StreamTypeOK, SavedRun
<1> DEFINE msg   == Head(feed.wire)
           fails == msg.kind = "error" \/ (msg.kind = "trace" /\ EventAtHead = saved.failedAt)
           ends  == fails \/ msg.kind = "done"
<1>1. /\ es.state = "open" /\ feed.wire # <<>>
      /\ es' = [es EXCEPT !.lastId = IF msg.id = NoId THEN @ ELSE msg.id,
                          !.state = IF ends THEN "closed" ELSE @]
      /\ shown' = IF msg.kind = "trace" THEN Append(shown, EventAtHead) ELSE shown
      /\ view' = CASE msg.kind = "done" -> "COMPLETED"
                   [] fails             -> "ERROR"
                   [] OTHER             -> view
      /\ feed' = IF ends THEN NoFeed ELSE [feed EXCEPT !.wire = Tail(@)]
      /\ saved' = saved /\ drops' = drops
  BY DEF Dispatch
<1>2. PICK a \in 0..1, b \in 0..1, c \in 0..MaxTrace :
        /\ InFlight(a, c, b)
        /\ es.state = "open" => (es.lastId <= feed.sent - c /\ SeenUpTo(feed.sent - c))
  BY DEF StreamInv
<1>3. /\ a \in Nat /\ b \in Nat /\ c \in Nat /\ Len(feed.wire) = a + c + b /\ c <= feed.sent
      /\ EventAtHead = feed.sent + 1 - c /\ SeenUpTo(feed.sent - c) /\ es.lastId <= feed.sent - c
  <2>1. EventAtHead = feed.sent + 1 - c
    BY <1>2, EventsInFlight
  <2>2. Len(feed.wire) = a + c + b /\ c <= feed.sent
    BY <1>2 DEF InFlight
  <2>3. SeenUpTo(feed.sent - c) /\ es.lastId <= feed.sent - c
    BY <1>1, <1>2
  <2>4. a \in Nat /\ b \in Nat /\ c \in Nat
    BY <1>0, SMT
  <2>5. QED
    BY <2>1, <2>2, <2>3, <2>4
<1>4. /\ msg \in StreamMessage /\ msg = feed.wire[1]
      /\ Tail(feed.wire) \in Seq(StreamMessage) /\ Len(Tail(feed.wire)) = Len(feed.wire) - 1
      /\ \A i \in 1..(Len(feed.wire) - 1) : Tail(feed.wire)[i] = feed.wire[i + 1]
      /\ Len(feed.wire) >= 1
  <2>1. feed.wire \in Seq(StreamMessage) /\ feed.wire # <<>>
    BY <1>0, <1>1
  <2>2. Len(feed.wire) \in Nat /\ Len(feed.wire) # 0
    BY <2>1, EmptySeq
  <2>3. QED
    BY <2>1, <2>2, HeadTailProperties
<1> DEFINE lastId == IF msg.id = NoId THEN es.lastId ELSE msg.id
<1>5. /\ es'.state = (IF ends THEN "closed" ELSE "open") /\ es'.lastId = lastId
      /\ es' \in [state : {"none", "connecting", "open", "closed"}, lastId : 0..NoId, stopped : BOOLEAN]
  <2>1. lastId \in 0..NoId
    BY <1>0, <1>4 DEF StreamMessage
  <2> HIDE DEF msg, ends
  <2>2. QED
    BY <1>0, <1>1, <2>1
<1>6. view' \in {"IDLE", "RUNNING", "COMPLETED", "ERROR"}
  <2> HIDE DEF msg, fails
  <2>1. QED
    BY <1>0, <1>1
\* What the page shows: the next event, or nothing.
<1>7. ASSUME msg.kind = "trace"
      PROVE  /\ a = 0 /\ c >= 1 /\ msg.id = EventAtHead /\ EventAtHead \in 1..MaxTrace
             /\ EventAtHead = feed.sent - (c - 1)
             /\ shown' \in Seq(1..MaxTrace) /\ InOrder'
             /\ \A k \in 1..(feed.sent - c + 1) : \E i \in 1..Len(shown') : shown'[i] = k
             /\ Len(shown) \in Nat /\ Len(shown') = Len(shown) + 1
             /\ \A i \in 1..Len(shown) : shown'[i] = shown[i]
  <2>1. a = 0
    <3> SUFFICES ASSUME a # 0 PROVE FALSE
      OBVIOUS
    <3>1. 1 \in 1..a
      BY <1>3
    <3>2. feed.wire[1] = [kind |-> "ready", id |-> 0]
      BY <1>2, <3>1 DEF InFlight
    <3>3. QED
      BY <1>4, <1>7, <3>2
  <2>2. c >= 1
    <3> SUFFICES ASSUME c = 0 PROVE FALSE
      BY <1>3
    <3>1. 1 \in (a + c + 1)..(a + c + b)
      BY <1>3, <1>4, <2>1
    <3>2. feed.wire[1].kind \in {"done", "error"}
      BY <1>2, <3>1 DEF InFlight
    <3>3. QED
      BY <1>4, <1>7, <3>2
  <2>3. msg = [kind |-> "trace", id |-> feed.sent - c + (1 - a)]
    <3>1. 1 \in (a + 1)..(a + c)
      BY <1>3, <2>1, <2>2
    <3>2. feed.wire[1] = [kind |-> "trace", id |-> feed.sent - c + (1 - a)]
      BY <1>2, <3>1 DEF InFlight
    <3>3. QED
      BY <1>4, <3>2
  <2>4. msg.id = feed.sent - c + (1 - a) /\ feed.sent - c + (1 - a) = EventAtHead
    BY <1>0, <1>3, <2>1, <2>3
  <2>5. EventAtHead \in 1..MaxTrace /\ EventAtHead = feed.sent - (c - 1) /\ EventAtHead = feed.sent - c + 1
    BY <1>0, <1>3, <2>2, SMTT(40)
  <2> DEFINE next == EventAtHead
  <2>6. shown' = Append(shown, next)
    BY <1>1, <1>7
  <2> HIDE DEF next
  <2>7. next \in 1..MaxTrace /\ next = feed.sent - c + 1
    BY <2>5 DEF next
  <2>8. /\ shown' \in Seq(1..MaxTrace) /\ Len(shown') = Len(shown) + 1 /\ Len(shown) \in Nat
        /\ \A i \in 1..Len(shown) : shown'[i] = shown[i]
        /\ shown'[Len(shown) + 1] = next
    BY <1>0, <2>6, <2>7, AppendProperties
  <2>9. InOrder'
    <3> SUFFICES ASSUME NEW i \in 1..Len(shown'), NEW n \in 1..(shown'[i] - 1)
                 PROVE  \E j \in 1..(i - 1) : shown'[j] = n
      BY DEF InOrder
    <3>1. CASE i \in 1..Len(shown)
      <4>1. shown'[i] = shown[i] /\ shown[i] \in 1..MaxTrace
        BY <1>0, <2>8, <3>1, ElementOfSeq
      <4>2. PICK j \in 1..(i - 1) : shown[j] = n
        BY <1>0, <3>1, <4>1 DEF InOrder
      <4>3. j \in 1..Len(shown)
        BY <2>8, <3>1
      <4>4. QED
        BY <2>8, <4>2, <4>3
    <3>2. CASE i = Len(shown) + 1
      <4>1. n \in 1..(feed.sent - c)
        BY <1>0, <1>3, <2>7, <2>8, <3>2, SMTT(40)
      <4>2. PICK j \in 1..Len(shown) : shown[j] = n
        BY <1>3, <4>1 DEF SeenUpTo
      <4>3. QED
        BY <2>8, <3>2, <4>2
    <3>3. QED
      BY <2>8, <3>1, <3>2
  <2>10. ASSUME NEW k \in 1..(feed.sent - c + 1) PROVE \E i \in 1..Len(shown') : shown'[i] = k
    <3>1. CASE k = feed.sent - c + 1
      BY <2>7, <2>8, <3>1
    <3>2. CASE k # feed.sent - c + 1
      <4>1. k \in 1..(feed.sent - c)
        BY <1>0, <1>3, <3>2
      <4>2. PICK i \in 1..Len(shown) : shown[i] = k
        BY <1>3, <4>1 DEF SeenUpTo
      <4>3. QED
        BY <2>8, <4>2
    <3>3. QED
      BY <3>1, <3>2
  <2>11. QED
    BY <2>1, <2>2, <2>4, <2>5, <2>8, <2>9, <2>10
<1>8. /\ shown' \in Seq(1..MaxTrace) /\ InOrder' /\ (msg.kind # "trace" => shown' = shown)
      /\ \A n \in Nat : SeenUpTo(n) => SeenUpTo(n)'
  <2>1. CASE msg.kind = "trace"
    <3> HIDE DEF msg
    <3>1. ASSUME NEW n \in Nat, SeenUpTo(n), NEW k \in 1..n PROVE \E i \in 1..Len(shown') : shown'[i] = k
      <4>1. PICK i \in 1..Len(shown) : shown[i] = k
        BY <3>1 DEF SeenUpTo
      <4>2. QED
        BY <1>7, <2>1, <4>1
    <3>2. \A n \in Nat : SeenUpTo(n) => SeenUpTo(n)'
      BY <3>1 DEF SeenUpTo
    <3>3. QED
      BY <1>7, <2>1, <3>2
  <2>2. CASE msg.kind # "trace"
    <3>1. shown' = shown
      BY <1>1, <2>2
    <3>2. QED
      BY <1>0, <2>2, <3>1 DEF SeenUpTo, InOrder
  <2>3. QED
    BY <2>1, <2>2
\* A result arrives after every event.
<1>9. msg.kind = "done" => (saved.status = "completed" /\ SeenUpTo(saved.len))
  <2> SUFFICES ASSUME msg.kind = "done" PROVE saved.status = "completed" /\ SeenUpTo(saved.len)
    OBVIOUS
  <2>1. a = 0
    <3> SUFFICES ASSUME a # 0 PROVE FALSE
      OBVIOUS
    <3>1. 1 \in 1..a
      BY <1>3
    <3>2. feed.wire[1] = [kind |-> "ready", id |-> 0]
      BY <1>2, <3>1 DEF InFlight
    <3>3. QED
      BY <1>4, <3>2
  <2>2. c = 0
    <3> SUFFICES ASSUME c # 0 PROVE FALSE
      OBVIOUS
    <3>1. 1 \in (a + 1)..(a + c)
      BY <1>3, <2>1
    <3>2. feed.wire[1] = [kind |-> "trace", id |-> feed.sent - c + (1 - a)]
      BY <1>2, <3>1 DEF InFlight
    <3>3. QED
      BY <1>4, <3>2
  <2>3. 1 \in (a + c + 1)..(a + c + b)
    BY <1>3, <1>4, <2>1, <2>2
  <2>4. saved.status = "completed" /\ feed.sent = saved.len
    BY <1>2, <1>4, <2>3 DEF InFlight
  <2>5. QED
    BY <1>0, <1>3, <2>2, <2>4
<1>10. view' = "COMPLETED" => (saved'.status = "completed" /\ SeenUpTo(saved.len)')
  <2> SUFFICES ASSUME view' = "COMPLETED" PROVE saved'.status = "completed" /\ SeenUpTo(saved.len)'
    OBVIOUS
  <2>1. msg.kind = "done" \/ view = "COMPLETED"
    <3> HIDE DEF msg, fails
    <3>1. QED
      BY <1>1
  <2>2. saved.status = "completed" /\ SeenUpTo(saved.len)
    BY <1>0, <1>9, <2>1
  <2>3. QED
    BY <1>0, <1>1, <1>8, <2>2 DEF SeenUpTo
<1> HIDE DEF fails
<1>11. CASE ends
  <2>1. feed' = NoFeed /\ es'.state = "closed"
    BY <1>1, <1>5, <1>11
  <2>2. /\ feed' \in [open : BOOLEAN, sent : 0..MaxTrace, wire : Seq(StreamMessage)]
        /\ feed'.sent <= saved'.len /\ InFlight(0, 0, 0)'
    BY <1>0, <1>1, <2>1 DEF NoFeed, InFlight
  <2>3. StreamTypeOK'
    BY <1>0, <1>1, <1>5, <1>6, <1>8, <2>2 DEF StreamTypeOK, SavedRun, NoId, StreamMessage
  <2>4. \E aa, bb \in 0..1, cc \in 0..MaxTrace :
          /\ InFlight(aa, cc, bb)'
          /\ es'.state = "open" => (es'.lastId <= feed'.sent - cc /\ SeenUpTo(feed.sent - cc)')
    BY <1>0, <2>1, <2>2
  <2>5. es'.state # "open" => feed' = NoFeed'
    BY <2>1 DEF NoFeed
  <2>6. QED
    BY <1>8, <1>10, <2>1, <2>2, <2>3, <2>4, <2>5 DEF StreamInv
<1>12. CASE ~ends
  <2>1. feed' = [feed EXCEPT !.wire = Tail(feed.wire)] /\ es'.state = "open" /\ es'.lastId = lastId
    BY <1>1, <1>5, <1>12
  <2>2. /\ feed'.sent = feed.sent /\ feed'.open = feed.open /\ feed'.wire = Tail(feed.wire)
        /\ feed' \in [open : BOOLEAN, sent : 0..MaxTrace, wire : Seq(StreamMessage)]
    BY <1>0, <1>4, <2>1
  <2>3. StreamTypeOK' /\ feed'.sent <= saved'.len
    BY <1>0, <1>1, <1>5, <1>6, <1>8, <2>2 DEF StreamTypeOK, SavedRun, NoId, StreamMessage
  <2>4. msg.kind \in {"ready", "trace"}
    BY <1>4, <1>12 DEF StreamMessage, fails
  <2>5. CASE msg.kind = "ready"
    <3>1. a = 1
      <4> SUFFICES ASSUME a = 0 PROVE FALSE
        BY <1>3
      <4>1. 1 \in (a + 1)..(a + c) \/ 1 \in (a + c + 1)..(a + c + b)
        BY <1>3, <1>4
      <4>2. CASE 1 \in (a + 1)..(a + c)
        <5>1. feed.wire[1] = [kind |-> "trace", id |-> feed.sent - c + (1 - a)]
          BY <1>2, <4>2 DEF InFlight
        <5>2. QED
          BY <1>4, <2>5, <5>1
      <4>3. CASE 1 \in (a + c + 1)..(a + c + b)
        <5>1. feed.wire[1].kind \in {"done", "error"}
          BY <1>2, <4>3 DEF InFlight
        <5>2. QED
          BY <1>4, <2>5, <5>1
      <4>4. QED
        BY <4>1, <4>2, <4>3
    <3>2. msg = [kind |-> "ready", id |-> 0]
      <4>1. 1 \in 1..a
        BY <3>1
      <4>2. QED
        BY <1>2, <1>4, <4>1 DEF InFlight
    <3>3. lastId = 0
      BY <1>0, <3>2 DEF NoId
    <3>4. InFlight(0, c, b)'
      <4>1. InFlight(1, c, b) /\ Len(feed.wire) = 1 + c + b
        BY <1>2, <1>3, <3>1
      <4>2. saved' = saved /\ feed.sent \in Nat
        BY <1>0, <1>1
      <4>3. QED
        BY <1>3, <1>4, <2>2, <4>1, <4>2, ShorterWire
    <3>5. SeenUpTo(feed.sent - c)'
      <4>1. shown' = shown /\ feed'.sent - c = feed.sent - c
        BY <1>8, <2>2, <2>5
      <4>2. QED
        BY <1>3, <4>1 DEF SeenUpTo
    <3>6. es'.lastId <= feed'.sent - c /\ es'.lastId <= saved'.len /\ SeenUpTo(es.lastId)'
      <4>1. es'.lastId = 0
        BY <2>1, <3>3
      <4>2. 1..es'.lastId = {} /\ 0 <= feed'.sent - c /\ 0 <= saved'.len
        <5>1. feed'.sent = feed.sent /\ saved'.len = saved.len /\ 1..0 = {}
          BY <1>1, <2>2
        <5>2. 0 <= feed.sent - c /\ 0 <= saved.len
          BY <1>0, <1>3
        <5>3. QED
          BY <4>1, <5>1, <5>2
      <4>3. SeenUpTo(es.lastId)'
        BY <4>2 DEF SeenUpTo
      <4>4. QED
        BY <4>1, <4>2, <4>3
    <3>7. \E aa, bb \in 0..1, cc \in 0..MaxTrace :
            /\ InFlight(aa, cc, bb)'
            /\ es'.state = "open" => (es'.lastId <= feed'.sent - cc /\ SeenUpTo(feed.sent - cc)')
      <4>1. 0 \in 0..1
        OBVIOUS
      <4>2. QED
        BY <3>4, <3>5, <3>6, <4>1
    <3>8. QED
      BY <1>8, <1>10, <2>1, <2>3, <3>6, <3>7 DEF StreamInv
  <2>6. CASE msg.kind = "trace"
    <3>1. a = 0 /\ c >= 1 /\ msg.id = EventAtHead /\ EventAtHead \in 1..MaxTrace /\ EventAtHead = feed.sent - (c - 1)
      BY <1>7, <2>6
    <3>2. PICK d \in 0..MaxTrace : d = c - 1
      BY <1>0, <1>3, <3>1
    <3>3. lastId = feed.sent - d
      BY <1>0, <3>1, <3>2 DEF NoId
    <3>4. InFlight(0, d, b)'
      <4>1. c = d + 1 /\ d \in Nat
        BY <1>3, <3>1, <3>2
      <4>2. InFlight(0, d + 1, b) /\ Len(feed.wire) = 0 + (d + 1) + b /\ d + 1 <= feed.sent
        BY <1>2, <1>3, <3>1, <4>1
      <4>3. saved' = saved /\ feed.sent \in Nat
        BY <1>0, <1>1
      <4>4. QED
        BY <1>3, <1>4, <2>2, <4>1, <4>2, <4>3, ShorterEvents
    <3>5. SeenUpTo(feed.sent - d)'
      <4>1. feed'.sent - d = feed.sent - c + 1
        BY <1>0, <1>3, <2>2, <3>2
      <4>2. \A k \in 1..(feed.sent - c + 1) : \E i \in 1..Len(shown') : shown'[i] = k
        BY <1>7, <2>6
      <4>3. QED
        BY <4>1, <4>2 DEF SeenUpTo
    <3>6. es'.lastId <= feed'.sent - d /\ es'.lastId <= saved'.len /\ SeenUpTo(es.lastId)'
      <4>1. es'.lastId = feed'.sent - d
        BY <2>1, <2>2, <3>3
      <4>2. SeenUpTo(es.lastId)'
        BY <3>5, <4>1 DEF SeenUpTo
      <4>3. es'.lastId = feed.sent - d /\ saved'.len = saved.len
        BY <1>1, <2>1, <3>3
      <4>4. QED
        BY <1>0, <2>2, <4>1, <4>2, <4>3
    <3>7. \E aa, bb \in 0..1, cc \in 0..MaxTrace :
            /\ InFlight(aa, cc, bb)'
            /\ es'.state = "open" => (es'.lastId <= feed'.sent - cc /\ SeenUpTo(feed.sent - cc)')
      <4>1. 0 \in 0..1
        OBVIOUS
      <4>2. QED
        BY <3>4, <3>5, <3>6, <4>1
    <3>8. QED
      BY <1>8, <1>10, <2>1, <2>3, <3>6, <3>7 DEF StreamInv
  <2>7. QED
    BY <2>4, <2>5, <2>6
<1>13. QED
  BY <1>11, <1>12

THEOREM StreamInvariant == StreamSpec => []StreamInv
<1>1. StreamInv /\ [StreamNext]_streamVars => StreamInv'
  <2> SUFFICES ASSUME StreamInv, [StreamNext]_streamVars PROVE StreamInv'
    OBVIOUS
  <2>1. CASE RunAppends \/ RunEnds \/ RunRecovered
    BY <2>1, RunMoves, RunGrowsInv
  <2>2. CASE StreamRefused \/ StreamLost \/ HunterRestarts \/ PageStops \/ StreamStarts
    BY <2>2, ConnectionEndsInv
  <2>3. CASE StreamOpens
    BY <2>3, StreamOpensInv
  <2>4. CASE StreamPolls
    BY <2>4, StreamPollsInv
  <2>5. CASE Dispatch
    BY <2>5, DispatchInv
  <2>6. CASE UNCHANGED streamVars
    <3>1. RunGrows /\ UNCHANGED <<es, feed, shown, view, drops>>
      <4>1. saved \in SavedRun /\ saved' = saved /\ saved.len \in Nat
        BY <2>6, StreamAssumption DEF streamVars, StreamInv, StreamTypeOK, SavedRun
      <4>2. QED
        BY <2>6, <4>1 DEF RunGrows, streamVars
    <3>2. QED
      BY <3>1, RunGrowsInv
  <2>7. QED
    BY <2>1, <2>2, <2>3, <2>4, <2>5, <2>6 DEF StreamNext
<1>2. QED
  BY <1>1, StreamInvInit, PTL DEF StreamSpec

\* An EventSource that is cut off and resumed, any number of times, with its id
\* reset by each ready message, never shows an event before every earlier one,
\* and a page that says the run is complete shows every event of the run, for
\* runs and lists of losses of any length (streamRun, useAgentStream).
THEOREM NothingIsSkipped == StreamSpec => []NothingSkipped
<1>1. StreamInv => NothingSkipped
  BY DEF StreamInv, NothingSkipped, InOrder, SeenUpTo
<1>2. QED
  BY <1>1, StreamInvariant, PTL
=============================================================================
