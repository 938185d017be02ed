---------------------------- MODULE Relay_proofs ----------------------------
(***************************************************************************)
(* Theorems about the relay, for any number of requests, keys and          *)
(* accounts, any limit and any number of faults and restarts.              *)
(***************************************************************************)
EXTENDS Relay, FiniteSetTheorems, TLAPS

(* The exits a request that holds a slot may take. *)
Exits == {Refusal, BuildFailed, RefundAndError, RefundOnError, Exhausted,
          StreamDone, StreamPanicked, ForcedDone, BufferedDone}

ReleasedOnce(s) ==
  \A i, j \in 1..Len(s) : s[i] = "release" /\ s[j] = "release" => i = j

(* Every exit frees the slot, and frees it once. *)
LEMMA ExitsRelease ==
  ASSUME NEW exit \in Exits
  PROVE  /\ exit \in Seq(Operations)
         /\ \E i \in 1..Len(exit) : exit[i] = "release"
         /\ ReleasedOnce(exit)
<1> USE DEF Operations, ReleasedOnce
<1>1. CASE exit = Refusal
  BY <1>1 DEF Refusal
<1>2. CASE exit = BuildFailed
  BY <1>2 DEF BuildFailed
<1>3. CASE exit = RefundAndError
  BY <1>3 DEF RefundAndError
<1>4. CASE exit = RefundOnError
  BY <1>4 DEF RefundOnError
<1>5. CASE exit = Exhausted
  BY <1>5 DEF Exhausted
<1>6. CASE exit = StreamDone
  BY <1>6 DEF StreamDone
<1>7. CASE exit = StreamPanicked
  BY <1>7 DEF StreamPanicked
<1>8. CASE exit = ForcedDone
  BY <1>8 DEF ForcedDone
<1>9. CASE exit = BufferedDone
  BY <1>9 DEF BufferedDone
<1>10. QED
  BY <1>1, <1>2, <1>3, <1>4, <1>5, <1>6, <1>7, <1>8, <1>9 DEF Exits

(* What a step of an exit leaves to do. *)
LEMMA TailReleases ==
  ASSUME NEW s \in Seq(Operations), s # <<>>, ReleasedOnce(s)
  PROVE  /\ Tail(s) \in Seq(Operations)
         /\ ReleasedOnce(Tail(s))
         /\ Head(s) = "release" => ~ \E i \in 1..Len(Tail(s)) : Tail(s)[i] = "release"
         /\ Head(s) # "release" =>
              ((\E i \in 1..Len(Tail(s)) : Tail(s)[i] = "release")
                 <=> (\E i \in 1..Len(s) : s[i] = "release"))
<1>1. /\ Len(s) \in Nat \ {0} /\ Len(Tail(s)) = Len(s) - 1
      /\ Head(s) = s[1]
      /\ \A i \in 1..Len(Tail(s)) : Tail(s)[i] = s[i + 1]
  OBVIOUS
<1>2. Tail(s) \in Seq(Operations)
  OBVIOUS
<1>3. ReleasedOnce(Tail(s))
  BY <1>1 DEF ReleasedOnce
<1>4. Head(s) = "release" => ~ \E i \in 1..Len(Tail(s)) : Tail(s)[i] = "release"
  BY <1>1 DEF ReleasedOnce
<1>5. ASSUME Head(s) # "release", NEW i \in 1..Len(s), s[i] = "release"
      PROVE  \E j \in 1..Len(Tail(s)) : Tail(s)[j] = "release"
  <2>1. i # 1 /\ i - 1 \in 1..Len(Tail(s))
    BY <1>1, <1>5
  <2>2. Tail(s)[i - 1] = s[i]
    BY <1>1, <2>1
  <2>3. QED
    BY <1>5, <2>1, <2>2
<1>6. ASSUME NEW j \in 1..Len(Tail(s)), Tail(s)[j] = "release"
      PROVE  \E i \in 1..Len(s) : s[i] = "release"
  BY <1>1, <1>6
<1>7. QED
  BY <1>2, <1>3, <1>4, <1>5, <1>6

----------------------------------------------------------------------------
(* What the actions may change: the slots move only by Admit, by the       *)
(* release step of an exit, and by a crash.                                *)

(* Nothing a slot depends on changes. *)
SlotFrame ==
  /\ UNCHANGED <<counts, crashes>>
  /\ \A q \in Requests : HoldsSlot(q)' <=> HoldsSlot(q)

(* The exit a request is on stays well formed. *)
ExitOK ==
  \A r \in Requests : /\ pc[r] # "leaving" => todo[r] = <<>>
                      /\ ReleasedOnce(todo[r])

(* A request moves on inside its handler. *)
LEMMA GoFrame ==
  ASSUME TypeOK, ExitOK, NEW r \in Requests, NEW from, NEW to,
         from \in Holding, to \in Holding,
         Go(r, from, to), UNCHANGED <<todo, counts, crashes>>
  PROVE  /\ pc' \in [Requests -> Holding \cup {"idle", "leaving"}]
         /\ ExitOK' /\ SlotFrame
<1>1. pc' = [pc EXCEPT ![r] = to] /\ pc[r] = from
  BY DEF Go
<1>2. "leaving" \notin Holding
  BY DEF Holding
<1>3. ExitOK'
  BY <1>1, <1>2 DEF TypeOK, ExitOK, ReleasedOnce
<1>4. ASSUME NEW q \in Requests
      PROVE  HoldsSlot(q)' <=> HoldsSlot(q)
  BY <1>1 DEF TypeOK, HoldsSlot, WillRelease
<1>5. QED
  BY <1>1, <1>3, <1>4 DEF TypeOK, SlotFrame

(* A request that holds its slot takes an exit. *)
LEMMA LeaveFrame ==
  ASSUME TypeOK, ExitOK, NEW r \in Requests, NEW from \in Holding,
         NEW exit \in Exits, LeaveBy(r, from, exit), UNCHANGED <<counts, crashes>>
  PROVE  /\ pc' \in [Requests -> Holding \cup {"idle", "leaving"}]
         /\ todo' \in [Requests -> Seq(Operations)]
         /\ ExitOK' /\ SlotFrame
<1>1. /\ pc' = [pc EXCEPT ![r] = "leaving"] /\ pc[r] = from
      /\ todo' = [todo EXCEPT ![r] = exit]
  BY DEF LeaveBy, Go
<1>2. todo' \in [Requests -> Seq(Operations)]
  BY <1>1, ExitsRelease DEF TypeOK
<1>3. \A q \in Requests : q # r => todo'[q] = todo[q] /\ pc'[q] = pc[q]
  BY <1>1 DEF TypeOK
<1>4. todo'[r] = exit /\ pc'[r] = "leaving"
  BY <1>1 DEF TypeOK
<1>5. ExitOK'
  BY <1>3, <1>4, ExitsRelease DEF ExitOK, ReleasedOnce
<1>6. HoldsSlot(r) /\ HoldsSlot(r)'
  BY <1>1, <1>4, ExitsRelease DEF HoldsSlot, WillRelease
<1>7. \A q \in Requests : q # r => (HoldsSlot(q)' <=> HoldsSlot(q))
  BY <1>3 DEF HoldsSlot, WillRelease
<1>8. pc' \in [Requests -> Holding \cup {"idle", "leaving"}]
  BY <1>1 DEF TypeOK
<1>9. QED
  BY <1>2, <1>5, <1>6, <1>7, <1>8 DEF SlotFrame

----------------------------------------------------------------------------
(* What holds between any two steps, but for the count of the slots.       *)
Shape == TypeOK /\ ExitOK

(* The handler's steps up to the dispatch, other than Admit. *)
LEMMA ServedFrame ==
  ASSUME Shape, NEW r \in Requests, Served(r), ~Admit(r)
  PROVE  Shape' /\ SlotFrame
<1> USE RelayAssumption DEF Shape
<1>1. CASE TurnAway(r)
  <2>1. /\ pc' = [pc EXCEPT ![r] = "leaving"] /\ pc[r] = "idle"
        /\ todo' = [todo EXCEPT ![r] = <<>>]
    BY <1>1 DEF TurnAway, LeaveBy, Go
  <2>2. todo[r] = <<>> /\ todo' = todo
    BY <2>1 DEF TypeOK, ExitOK
  <2>3. TypeOK'
    BY <1>1, <2>1, <2>2 DEF TurnAway, LeaveBy, Apart, Outside, rotationVars, booksVars, TypeOK
  <2>4. ExitOK'
    BY <2>1, <2>2 DEF TypeOK, ExitOK, ReleasedOnce
  <2>5. \A q \in Requests : HoldsSlot(q)' <=> HoldsSlot(q)
    BY <2>1, <2>2 DEF TypeOK, HoldsSlot, WillRelease, Holding
  <2>6. QED
    BY <1>1, <2>3, <2>4, <2>5 DEF TurnAway, Apart, Outside, SlotFrame
<1>2. CASE Refuse(r)
  <2>1. LeaveBy(r, "admitted", Refusal) /\ Apart
    BY <1>2 DEF Refuse
  <2>2. "admitted" \in Holding /\ Refusal \in Exits
    BY DEF Holding, Exits
  <2>3. /\ pc' \in [Requests -> Holding \cup {"idle", "leaving"}]
        /\ todo' \in [Requests -> Seq(Operations)]
        /\ ExitOK' /\ SlotFrame
    BY <2>1, <2>2, LeaveFrame DEF Apart, Outside
  <2>4. QED
    BY <2>1, <2>3 DEF LeaveBy, Apart, Outside, rotationVars, booksVars, TypeOK
<1>3. CASE Resolve(r)
  <2>1. "admitted" \in Holding /\ "resolved" \in Holding
    BY DEF Holding
  <2>2. /\ pc' \in [Requests -> Holding \cup {"idle", "leaving"}]
        /\ ExitOK' /\ SlotFrame
    BY <1>3, <2>1, GoFrame DEF Resolve, Apart, Outside
  <2>3. account' \in [Requests -> Accounts \cup {NoAccount}]
    BY <1>3 DEF Resolve, Answers, TypeOK
  <2>4. QED
    BY <1>3, <2>2, <2>3 DEF Resolve, Apart, Outside, rotationVars, booksVars, TypeOK
<1>4. CASE PreConsume(r)
  <2>1. "resolved" \in Holding /\ "reserved" \in Holding
    BY DEF Holding
  <2>2. /\ pc' \in [Requests -> Holding \cup {"idle", "leaving"}]
        /\ ExitOK' /\ SlotFrame
    BY <1>4, <2>1, GoFrame DEF PreConsume
  <2>3. charge' \in [Requests -> {"unasked", "refused", "held", "returned", "settled"}]
    BY <1>4 DEF PreConsume, TypeOK
  <2>4. QED
    BY <1>4, <2>2, <2>3 DEF PreConsume, rotationVars, TypeOK
<1>5. CASE FailBuild(r)
  <2>1. LeaveBy(r, "reserved", BuildFailed) /\ Apart
    BY <1>5 DEF FailBuild
  <2>2. "reserved" \in Holding /\ BuildFailed \in Exits
    BY DEF Holding, Exits
  <2>3. /\ pc' \in [Requests -> Holding \cup {"idle", "leaving"}]
        /\ todo' \in [Requests -> Seq(Operations)]
        /\ ExitOK' /\ SlotFrame
    BY <2>1, <2>2, LeaveFrame DEF Apart, Outside
  <2>4. QED
    BY <2>1, <2>3 DEF LeaveBy, Apart, Outside, rotationVars, booksVars, TypeOK
<1>6. CASE Dispatch(r)
  <2>1. PICK to \in {"trying", "reading", "sending"} : Go(r, "reserved", to)
    BY <1>6 DEF Dispatch
  <2>2. "reserved" \in Holding /\ to \in Holding
    BY <2>1 DEF Holding
  <2>3. /\ pc' \in [Requests -> Holding \cup {"idle", "leaving"}]
        /\ ExitOK' /\ SlotFrame
    BY <1>6, <2>1, <2>2, GoFrame DEF Dispatch, Apart, Outside
  <2>4. attempt' \in [Requests -> 0..Attempts]
    BY <1>6 DEF Dispatch, TypeOK
  <2>5. QED
    BY <1>6, <2>3, <2>4 DEF Dispatch, Apart, Outside, rotationVars, booksVars, TypeOK
<1>7. QED
  BY <1>1, <1>2, <1>3, <1>4, <1>5, <1>6 DEF Served

(* A step that takes an exit and touches nothing else. *)
LEMMA ExitFrame ==
  ASSUME Shape, NEW r \in Requests, NEW from \in Holding,
         NEW exit \in Exits, LeaveBy(r, from, exit), Apart
  PROVE  Shape' /\ SlotFrame
<1>1. /\ pc' \in [Requests -> Holding \cup {"idle", "leaving"}]
      /\ todo' \in [Requests -> Seq(Operations)]
      /\ ExitOK' /\ SlotFrame
  BY LeaveFrame DEF Shape, Apart, Outside
<1>2. QED
  BY <1>1 DEF Shape, LeaveBy, Apart, Outside, rotationVars, booksVars, TypeOK

(* The streaming handlers. *)
LEMMA StreamedFrame ==
  ASSUME Shape, NEW r \in Requests, Streamed(r)
  PROVE  Shape' /\ SlotFrame
<1>1. /\ {"sending", "streaming", "reading"} \subseteq Holding
      /\ {RefundAndError, RefundOnError, StreamDone, StreamPanicked, ForcedDone} \subseteq Exits
  BY DEF Holding, Exits
<1>2. CASE StreamStarts(r)
  <2>1. /\ pc' \in [Requests -> Holding \cup {"idle", "leaving"}]
        /\ ExitOK' /\ SlotFrame
    BY <1>1, <1>2, GoFrame DEF Shape, StreamStarts, Apart, Outside
  <2>2. QED
    BY <1>2, <2>1 DEF Shape, StreamStarts, Apart, Outside, rotationVars, booksVars, TypeOK
<1>3. CASE ~StreamStarts(r)
  <2>1. PICK from \in {"sending", "streaming", "reading"},
             exit \in {RefundAndError, RefundOnError, StreamDone, StreamPanicked, ForcedDone} :
               LeaveBy(r, from, exit) /\ Apart
    BY <1>3 DEF Streamed, StreamFails, StreamRefused, StreamEnds, StreamPanics,
                ForcedFails, ForcedRefused, ForcedEnds
  <2>2. QED
    BY <1>1, <2>1, ExitFrame
<1>4. QED
  BY <1>2, <1>3

(* The buffered handler and its retry loop. *)
LEMMA BufferedFrame ==
  ASSUME Shape, NEW r \in Requests, Buffered(r)
  PROVE  Shape' /\ SlotFrame
<1> USE RelayAssumption
<1>1. /\ {"trying", "cooling", "picking", "loading",
          "recooling", "repicking", "reloading"} \subseteq Holding
      /\ {RefundAndError, RefundOnError, Exhausted, BufferedDone} \subseteq Exits
  BY DEF Holding, Exits
<1>2. ASSUME NEW from \in Holding, GiveUp(r, from), Apart
      PROVE  Shape' /\ SlotFrame
  <2>1. PICK exit \in Exits : LeaveBy(r, from, exit)
    BY <1>1, <1>2 DEF GiveUp
  <2>2. QED
    BY <1>2, <2>1, ExitFrame
<1>3. CASE SetupFails(r) \/ TryAnswers(r)
  <2>1. PICK exit \in Exits : LeaveBy(r, "trying", exit) /\ Apart
    BY <1>1, <1>3 DEF SetupFails, TryAnswers
  <2>2. QED
    BY <1>1, <2>1, ExitFrame
<1>4. CASE TryFails(r)
  <2>1. /\ pc' \in [Requests -> Holding \cup {"idle", "leaving"}]
        /\ ExitOK' /\ SlotFrame
    BY <1>1, <1>4, GoFrame DEF Shape, TryFails, Apart, Outside
  <2>2. body' \in [Requests -> BOOLEAN]
    <3>1. PICK five \in BOOLEAN : body' = [body EXCEPT ![r] = @ \/ five]
      BY <1>4 DEF TryFails
    <3>2. body \in [Requests -> BOOLEAN] /\ (body[r] \/ five) \in BOOLEAN
      BY DEF Shape, TypeOK
    <3>3. QED
      BY <3>1, <3>2, Zenon
  <2>3. QED
    BY <1>4, <2>1, <2>2 DEF Shape, TryFails, Apart, Outside, rotationVars, booksVars, TypeOK
<1>5. CASE CoolDown(r)
  <2>1. PICK from \in Holding, to \in Holding : Go(r, from, to)
    BY <1>1, <1>5 DEF CoolDown
  <2>2. /\ pc' \in [Requests -> Holding \cup {"idle", "leaving"}]
        /\ ExitOK' /\ SlotFrame
    BY <1>5, <2>1, GoFrame DEF Shape, CoolDown, Outside
  <2>3. rotation' \in SUBSET Accounts /\ cooling' \in SUBSET Accounts
    BY <1>5 DEF Shape, TypeOK, CoolDown, TakeOut
  <2>4. QED
    BY <1>5, <2>2, <2>3 DEF Shape, CoolDown, Outside, booksVars, TypeOK
<1>6. CASE PickNext(r)
  <2>1. CASE NoAccount \in Answers /\ (GiveUp(r, "picking") \/ GiveUp(r, "repicking"))
    BY <1>1, <1>2, <1>6, <2>1 DEF PickNext
  <2>2. ASSUME NEW a \in Answers \ {NoAccount},
               Go(r, "picking", "loading") \/ Go(r, "repicking", "reloading"),
               account' = [account EXCEPT ![r] = a],
               UNCHANGED <<attempt, body, todo>>
        PROVE  Shape' /\ SlotFrame
    <3>1. PICK from \in Holding, to \in Holding : Go(r, from, to)
      BY <1>1, <2>2
    <3>2. /\ pc' \in [Requests -> Holding \cup {"idle", "leaving"}]
          /\ ExitOK' /\ SlotFrame
      BY <1>6, <2>2, <3>1, GoFrame DEF Shape, PickNext, Apart, Outside
    <3>3. account' \in [Requests -> Accounts \cup {NoAccount}]
      BY <2>2 DEF Answers, Shape, TypeOK
    <3>4. QED
      BY <1>6, <2>2, <3>2, <3>3
      DEF Shape, PickNext, Apart, Outside, rotationVars, booksVars, TypeOK
  <2>3. QED
    BY <1>6, <2>1, <2>2 DEF PickNext
<1>7. CASE LoadCredentials(r)
  <2>1. PICK from \in {"loading", "reloading"} :
          IF attempt[r] < Attempts
            THEN /\ Go(r, from, "trying")
                 /\ attempt' = [attempt EXCEPT ![r] = @ + 1]
                 /\ UNCHANGED <<account, body, todo>>
            ELSE GiveUp(r, from)
    BY <1>7 DEF LoadCredentials
  <2>2. CASE attempt[r] < Attempts
    <3>1. /\ pc' \in [Requests -> Holding \cup {"idle", "leaving"}]
          /\ ExitOK' /\ SlotFrame
      BY <1>1, <1>7, <2>1, <2>2, GoFrame DEF Shape, LoadCredentials, Apart, Outside
    <3>2. attempt' \in [Requests -> 0..Attempts]
      <4>1. attempt[r] \in 0..Attempts /\ attempt[r] + 1 \in 0..Attempts
        BY <2>2 DEF Shape, TypeOK
      <4>2. QED
        BY <2>1, <2>2, <4>1 DEF Shape, TypeOK
    <3>3. QED
      BY <1>7, <2>1, <2>2, <3>1, <3>2
      DEF Shape, LoadCredentials, Apart, Outside, rotationVars, booksVars, TypeOK
  <2>3. CASE ~(attempt[r] < Attempts)
    BY <1>1, <1>2, <1>7, <2>1, <2>3 DEF LoadCredentials
  <2>4. QED
    BY <2>2, <2>3
<1>8. CASE LoadFails(r)
  <2>1. CASE Go(r, "loading", "recooling") /\ UNCHANGED <<account, attempt, body, todo>>
    <3>1. /\ pc' \in [Requests -> Holding \cup {"idle", "leaving"}]
          /\ ExitOK' /\ SlotFrame
      BY <1>1, <1>8, <2>1, GoFrame DEF Shape, LoadFails, Apart, Outside
    <3>2. QED
      BY <1>8, <2>1, <3>1
      DEF Shape, LoadFails, Apart, Outside, rotationVars, booksVars, TypeOK
  <2>2. CASE GiveUp(r, "reloading")
    BY <1>1, <1>2, <1>8, <2>2 DEF LoadFails
  <2>3. QED
    BY <1>8, <2>1, <2>2 DEF LoadFails
<1>9. QED
  BY <1>3, <1>4, <1>5, <1>6, <1>7, <1>8 DEF Buffered

(* The limiter grants a slot. *)
LEMMA AdmitMoves ==
  ASSUME Shape, NEW r \in Requests, Admit(r)
  PROVE  /\ Shape'
         /\ ~HoldsSlot(r) /\ HoldsSlot(r)'
         /\ \A q \in Requests \ {r} : HoldsSlot(q)' <=> HoldsSlot(q)
<1> USE RelayAssumption DEF Shape
<1>1. /\ pc' = [pc EXCEPT ![r] = "admitted"] /\ pc[r] = "idle"
      /\ UNCHANGED todo
  BY DEF Admit, Go
<1>2. "admitted" \in Holding /\ "idle" \notin Holding /\ KeyOf[r] \in Keys
  BY DEF Holding
<1>3. counts' \in [Keys -> Nat]
  BY <1>2 DEF Admit, TypeOK
<1>4. TypeOK'
  BY <1>1, <1>2, <1>3 DEF Admit, rotationVars, booksVars, TypeOK
<1>5. ExitOK'
  BY <1>1 DEF TypeOK, ExitOK, ReleasedOnce
<1>6. ~HoldsSlot(r) /\ HoldsSlot(r)'
  BY <1>1, <1>2 DEF TypeOK, ExitOK, HoldsSlot, WillRelease
<1>7. \A q \in Requests \ {r} : HoldsSlot(q)' <=> HoldsSlot(q)
  BY <1>1 DEF TypeOK, HoldsSlot, WillRelease
<1>8. QED
  BY <1>4, <1>5, <1>6, <1>7

(* A refund or a settlement keeps the books well typed. *)
LEMMA CloseChargeTypes ==
  ASSUME TypeOK, NEW r \in Requests, NEW how \in {"returned", "settled"},
         CloseCharge(r, how)
  PROVE  /\ charge' \in [Requests -> {"unasked", "refused", "held", "returned", "settled"}]
         /\ closings' \in [Requests -> Nat]
         /\ faults' \in Nat
<1>1. closings' \in [Requests -> Nat]
  BY DEF CloseCharge, TypeOK
<1>2. /\ \/ charge' = [charge EXCEPT ![r] = IF charge[r] = "held" THEN how ELSE charge[r]]
         \/ charge' = charge
      /\ faults' \in {faults, faults + 1}
  BY DEF CloseCharge
<1>3. (IF charge[r] = "held" THEN how ELSE charge[r])
        \in {"unasked", "refused", "held", "returned", "settled"}
  BY DEF TypeOK
<1>4. charge' \in [Requests -> {"unasked", "refused", "held", "returned", "settled"}]
  BY <1>2, <1>3 DEF TypeOK
<1>5. faults' \in Nat
  BY <1>2 DEF TypeOK
<1>6. QED
  BY <1>1, <1>4, <1>5

(* A step of an exit: the slot goes with the release, and only with it. *)
LEMMA TakeStepMoves ==
  ASSUME Shape, NEW r \in Requests, TakeStep(r)
  PROVE  /\ Shape'
         /\ \A q \in Requests \ {r} : HoldsSlot(q)' <=> HoldsSlot(q)
         /\ Head(todo[r]) = "release" =>
              HoldsSlot(r) /\ ~HoldsSlot(r)' /\ Release(KeyOf[r])
         /\ Head(todo[r]) # "release" => SlotFrame
<1> USE RelayAssumption DEF Shape
<1>1. /\ pc[r] = "leaving" /\ todo[r] # <<>> /\ UNCHANGED pc
      /\ todo' = [todo EXCEPT ![r] = Tail(todo[r])]
  BY DEF TakeStep, requestVars
<1>2. todo[r] \in Seq(Operations) /\ ReleasedOnce(todo[r])
  BY DEF TypeOK, ExitOK
<1>3. /\ todo'[r] = Tail(todo[r])
      /\ \A q \in Requests \ {r} : todo'[q] = todo[q]
      /\ todo' \in [Requests -> Seq(Operations)]
  BY <1>1, <1>2, TailReleases DEF TypeOK
<1>4. ExitOK'
  BY <1>1, <1>2, <1>3, TailReleases DEF ExitOK, ReleasedOnce
<1>5. counts' \in [Keys -> Nat]
  <2>1. CASE Head(todo[r]) = "release"
    <3>1. Release(KeyOf[r]) /\ KeyOf[r] \in Keys
      BY <2>1 DEF TakeStep
    <3>2. QED
      BY <3>1 DEF Release, TypeOK
  <2>2. CASE Head(todo[r]) # "release"
    BY <2>2 DEF TakeStep, TypeOK
  <2>3. QED
    BY <2>1, <2>2
<1>6. jobs' \in [Requests -> SUBSET {"refund", "settle", "log"}]
  <2>1. \/ jobs' = jobs
        \/ \E job \in {"refund", "settle", "log"} : Spawn(r, job)
    BY DEF TakeStep
  <2>2. jobs \in [Requests -> SUBSET {"refund", "settle", "log"}]
    BY DEF TypeOK
  <2>3. QED
    BY <2>1, <2>2 DEF Spawn
<1>7. /\ charge' \in [Requests -> {"unasked", "refused", "held", "returned", "settled"}]
      /\ closings' \in [Requests -> Nat]
      /\ logged' \in SUBSET Requests
      /\ faults' \in Nat
  <2>1. CASE Head(todo[r]) = "refund"
    BY <2>1, CloseChargeTypes DEF TakeStep, TypeOK
  <2>2. CASE Head(todo[r]) # "refund"
    BY <2>2 DEF TakeStep, booksVars, TypeOK
  <2>3. QED
    BY <2>1, <2>2
<1>8. TypeOK'
  BY <1>1, <1>3, <1>5, <1>6, <1>7 DEF TakeStep, rotationVars, TypeOK
<1>9. pc[r] \notin Holding
  BY <1>1 DEF Holding
<1>10. \A q \in Requests \ {r} : HoldsSlot(q)' <=> HoldsSlot(q)
  BY <1>1, <1>3 DEF HoldsSlot, WillRelease
<1>11. ASSUME Head(todo[r]) = "release"
       PROVE  HoldsSlot(r) /\ ~HoldsSlot(r)' /\ Release(KeyOf[r])
  <2>1. 1 \in 1..Len(todo[r]) /\ todo[r][1] = "release"
    BY <1>1, <1>2, <1>11
  <2>2. HoldsSlot(r)
    BY <2>1 DEF HoldsSlot, WillRelease
  <2>3. ~HoldsSlot(r)'
    BY <1>1, <1>2, <1>3, <1>9, <1>11, TailReleases DEF HoldsSlot, WillRelease
  <2>4. QED
    BY <1>11, <2>2, <2>3 DEF TakeStep
<1>12. ASSUME Head(todo[r]) # "release"
       PROVE  SlotFrame
  <2>1. HoldsSlot(r)' <=> HoldsSlot(r)
    BY <1>1, <1>2, <1>3, <1>12, TailReleases DEF HoldsSlot, WillRelease
  <2>2. UNCHANGED <<counts, crashes>>
    BY <1>12 DEF TakeStep
  <2>3. QED
    BY <1>10, <2>1, <2>2 DEF SlotFrame
<1>13. QED
  BY <1>4, <1>8, <1>10, <1>11, <1>12

(* The pool's own steps. *)
PoolStep == (\E a \in Accounts : EndCooldown(a)) \/ RefreshPool

(* They and a goroutine leave the requests alone. *)
LEMMA BackgroundFrame ==
  ASSUME Shape,
         (\E r \in Requests : RunJob(r)) \/ PoolStep
  PROVE  Shape' /\ SlotFrame
<1> USE DEF Shape
<1>1. ASSUME NEW r \in Requests, RunJob(r)
      PROVE  Shape' /\ SlotFrame
  <2>1. UNCHANGED <<pc, account, attempt, body, todo, rotation, cooling, counts, crashes>>
    BY <1>1 DEF RunJob, requestVars, rotationVars
  <2>2. jobs' \in [Requests -> SUBSET {"refund", "settle", "log"}]
    <3>1. PICK job \in {"refund", "settle", "log"} :
            jobs' = [jobs EXCEPT ![r] = jobs[r] \ {job}]
      BY <1>1 DEF RunJob
    <3>2. jobs[r] \ {job} \in SUBSET {"refund", "settle", "log"}
      BY DEF TypeOK
    <3>3. QED
      BY <3>1, <3>2 DEF TypeOK
  <2>3. /\ charge' \in [Requests -> {"unasked", "refused", "held", "returned", "settled"}]
        /\ closings' \in [Requests -> Nat]
        /\ logged' \in SUBSET Requests
        /\ faults' \in Nat
    <3>1. CASE \E how \in {"returned", "settled"} : CloseCharge(r, how) /\ UNCHANGED logged
      BY <3>1, CloseChargeTypes DEF TypeOK
    <3>2. CASE logged' = logged \cup {r} /\ UNCHANGED <<charge, closings, faults>>
      BY <3>2 DEF TypeOK
    <3>3. QED
      BY <1>1, <3>1, <3>2 DEF RunJob
  <2>4. QED
    BY <2>1, <2>2, <2>3 DEF TypeOK, ExitOK, ReleasedOnce, SlotFrame, HoldsSlot, WillRelease
<1>2. ASSUME PoolStep
      PROVE  Shape' /\ SlotFrame
  <2>1. UNCHANGED <<pc, account, attempt, body, todo, counts, jobs, charge,
                    closings, logged, faults, crashes>>
    BY <1>2 DEF PoolStep, EndCooldown, RefreshPool, Outside, requestVars, booksVars
  <2>2. rotation' \in SUBSET Accounts /\ cooling' \in SUBSET Accounts
    BY <1>2 DEF PoolStep, EndCooldown, RefreshPool, PutBack, TypeOK
  <2>3. QED
    BY <2>1, <2>2 DEF TypeOK, ExitOK, ReleasedOnce, SlotFrame, HoldsSlot, WillRelease
<1>3. QED
  BY <1>1, <1>2

(* A crash frees every slot. *)
LEMMA CrashMoves ==
  ASSUME Shape, Crash
  PROVE  /\ Shape'
         /\ \A q \in Requests : ~HoldsSlot(q)'
<1> USE DEF Shape
<1>1. /\ pc' = [r \in Requests |-> IF pc[r] = "idle" THEN "idle" ELSE "leaving"]
      /\ todo' = [r \in Requests |-> <<>>]
  BY DEF Crash
<1>2. \A r \in Requests : pc'[r] \in {"idle", "leaving"} /\ todo'[r] = <<>>
  BY <1>1
<1>3. TypeOK'
  <2>1. crashes' \in 0..MaxCrashes
    BY RelayAssumption DEF Crash, TypeOK
  <2>2. QED
    BY <1>1, <2>1 DEF Crash, booksVars, TypeOK
<1>4. ExitOK'
  BY <1>2 DEF ExitOK, ReleasedOnce
<1>5. \A q \in Requests : ~HoldsSlot(q)'
  BY <1>2 DEF HoldsSlot, WillRelease, Holding
<1>6. QED
  BY <1>3, <1>4, <1>5

----------------------------------------------------------------------------
(* The inductive invariant. *)
IInv == Shape /\ SlotsCounted

LEMMA InitIInv == Init => IInv
<1> SUFFICES ASSUME Init PROVE IInv
  OBVIOUS
<1> USE RelayAssumption
<1>1. TypeOK
  BY DEF Init, RotationInit, TypeOK
<1>2. ExitOK
  BY DEF Init, ExitOK, ReleasedOnce
<1>3. \A r \in Requests : ~HoldsSlot(r)
  BY DEF Init, HoldsSlot, WillRelease, Holding
<1>4. \A k \in Keys : Holders(k) = {}
  BY <1>3 DEF Holders
<1>5. SlotsCounted
  BY <1>4, FS_EmptySet DEF Init, SlotsCounted
<1>6. QED
  BY <1>1, <1>2, <1>5 DEF IInv, Shape

(* The holders of a key are finitely many. *)
LEMMA HoldersFinite ==
  ASSUME NEW k
  PROVE  IsFiniteSet(Holders(k)) /\ Cardinality(Holders(k)) \in Nat
<1>1. Holders(k) \in SUBSET Requests
  BY DEF Holders
<1>2. QED
  BY <1>1, RelayAssumption, FS_Subset, FS_CardinalityType

LEMMA FrameCounts ==
  ASSUME SlotsCounted, SlotFrame
  PROVE  SlotsCounted'
<1>1. \A k \in Keys : Holders(k)' = Holders(k)
  BY DEF SlotFrame, Holders
<1>2. QED
  BY <1>1 DEF SlotFrame, SlotsCounted, Limit

LEMMA LimitKept == UNCHANGED crashes => Limit' = Limit
BY DEF Limit

(* Every step keeps the limiter in line with the holders. *)
LEMMA NextIInv == IInv /\ [Next]_vars => IInv'
<1> SUFFICES ASSUME IInv, [Next]_vars PROVE IInv'
  OBVIOUS
<1> USE RelayAssumption DEF IInv
<1>1. CASE Shape' /\ SlotFrame
  BY <1>1, FrameCounts
<1>2. ASSUME NEW r \in Requests, Admit(r)
      PROVE  IInv'
  <2>1. /\ Shape' /\ ~HoldsSlot(r) /\ HoldsSlot(r)'
        /\ \A q \in Requests \ {r} : HoldsSlot(q)' <=> HoldsSlot(q)
    BY <1>2, AdmitMoves
  <2>2. Holders(KeyOf[r])' = Holders(KeyOf[r]) \cup {r} /\ r \notin Holders(KeyOf[r])
    BY <2>1 DEF Holders
  <2>3. \A k \in Keys \ {KeyOf[r]} : Holders(k)' = Holders(k)
    BY <2>1 DEF Holders
  <2>4. Cardinality(Holders(KeyOf[r])') = Cardinality(Holders(KeyOf[r])) + 1
    BY <2>2, HoldersFinite, FS_AddElement
  <2>5. KeyOf[r] \in Keys /\ counts \in [Keys -> Nat]
    BY DEF Shape, TypeOK
  <2>6. \A k \in Keys : counts[k] = IF Limit > 0 THEN Cardinality(Holders(k)) ELSE 0
    BY DEF SlotsCounted
  <2>7. \A k \in Keys : counts'[k] = IF Limit > 0 THEN Cardinality(Holders(k)') ELSE 0
    <3>1. CASE Limit > 0
      <4>1. counts' = [counts EXCEPT ![KeyOf[r]] = counts[KeyOf[r]] + 1]
        BY <1>2, <3>1 DEF Admit
      <4>2. QED
        BY <2>3, <2>4, <2>5, <2>6, <3>1, <4>1
    <3>2. CASE ~(Limit > 0)
      BY <1>2, <2>6, <3>2 DEF Admit
    <3>3. QED
      BY <3>1, <3>2
  <2>8. Limit' = Limit
    BY <1>2, LimitKept DEF Admit
  <2>9. QED
    BY <2>1, <2>7, <2>8 DEF SlotsCounted
<1>3. ASSUME NEW r \in Requests, TakeStep(r), Head(todo[r]) = "release"
      PROVE  IInv'
  <2>1. /\ Shape' /\ HoldsSlot(r) /\ ~HoldsSlot(r)' /\ Release(KeyOf[r])
        /\ \A q \in Requests \ {r} : HoldsSlot(q)' <=> HoldsSlot(q)
    BY <1>3, TakeStepMoves
  <2>2. Holders(KeyOf[r])' = Holders(KeyOf[r]) \ {r} /\ r \in Holders(KeyOf[r])
    BY <2>1 DEF Holders
  <2>3. \A k \in Keys \ {KeyOf[r]} : Holders(k)' = Holders(k)
    BY <2>1 DEF Holders
  <2>4. /\ Cardinality(Holders(KeyOf[r])') = Cardinality(Holders(KeyOf[r])) - 1
        /\ Cardinality(Holders(KeyOf[r])) \in Nat
        /\ Cardinality(Holders(KeyOf[r])) # 0
    <3>1. /\ IsFiniteSet(Holders(KeyOf[r]))
          /\ Cardinality(Holders(KeyOf[r])) \in Nat
      BY HoldersFinite
    <3>2. Cardinality(Holders(KeyOf[r]) \ {r}) = Cardinality(Holders(KeyOf[r])) - 1
      BY <2>2, <3>1, FS_RemoveElement
    <3>3. Cardinality(Holders(KeyOf[r])) # 0
      BY <2>2, <3>1, FS_EmptySet
    <3>4. QED
      BY <2>2, <3>1, <3>2, <3>3
  <2>5. KeyOf[r] \in Keys /\ counts \in [Keys -> Nat]
    BY DEF Shape, TypeOK
  <2>6. \A k \in Keys : counts[k] = IF Limit > 0 THEN Cardinality(Holders(k)) ELSE 0
    BY DEF SlotsCounted
  <2>7. \A k \in Keys : counts'[k] = IF Limit > 0 THEN Cardinality(Holders(k)') ELSE 0
    <3>1. CASE Limit > 0
      <4>1. counts[KeyOf[r]] > 0
        BY <2>4, <2>5, <2>6, <3>1
      <4>2. counts' = [counts EXCEPT ![KeyOf[r]] = counts[KeyOf[r]] - 1]
        BY <2>1, <4>1 DEF Release
      <4>3. QED
        BY <2>3, <2>4, <2>5, <2>6, <3>1, <4>2
    <3>2. CASE ~(Limit > 0)
      <4>1. counts' = counts
        BY <2>1, <2>5, <2>6, <3>2 DEF Release
      <4>2. QED
        BY <2>6, <3>2, <4>1
    <3>3. QED
      BY <3>1, <3>2
  <2>8. Limit' = Limit
    BY <1>3, LimitKept DEF TakeStep
  <2>9. QED
    BY <2>1, <2>7, <2>8 DEF SlotsCounted
<1>4. CASE Crash
  <2>1. Shape' /\ \A q \in Requests : ~HoldsSlot(q)'
    BY <1>4, CrashMoves
  <2>2. \A k \in Keys : Holders(k)' = {}
    BY <2>1 DEF Holders
  <2>3. \A k \in Keys : counts'[k] = 0
    BY <1>4 DEF Crash
  <2>4. QED
    BY <2>1, <2>2, <2>3, FS_EmptySet DEF SlotsCounted
<1>5. CASE UNCHANGED vars
  <2>1. Shape'
    BY <1>5 DEF vars, requestVars, rotationVars, booksVars, Shape, TypeOK, ExitOK, ReleasedOnce
  <2>2. SlotFrame
    BY <1>5 DEF vars, requestVars, SlotFrame, HoldsSlot, WillRelease
  <2>3. QED
    BY <1>1, <2>1, <2>2
<1>6. ASSUME NEW r \in Requests,
             Served(r) \/ Streamed(r) \/ Buffered(r) \/ TakeStep(r) \/ RunJob(r)
      PROVE  IInv'
  <2>1. CASE Served(r)
    BY <1>1, <1>2, <2>1, ServedFrame
  <2>2. CASE Streamed(r) \/ Buffered(r)
    BY <1>1, <2>2, StreamedFrame, BufferedFrame
  <2>3. CASE TakeStep(r)
    BY <1>1, <1>3, <2>3, TakeStepMoves
  <2>4. CASE RunJob(r)
    BY <1>1, <2>4, BackgroundFrame
  <2>5. QED
    BY <1>6, <2>1, <2>2, <2>3, <2>4
<1>7. CASE PoolStep
  BY <1>1, <1>7, BackgroundFrame
<1>8. QED
  BY <1>4, <1>5, <1>6, <1>7 DEF Next, PoolStep

LEMMA SpecIInv == Spec => []IInv
  BY InitIInv, NextIInv, PTL DEF Spec

(* The state of the relay has its types: in particular every exit is a     *)
(* list of known steps and no count of slots is ever negative.             *)
THEOREM RelayTypeOK == Spec => []TypeOK
<1>1. IInv => TypeOK
  BY DEF IInv, Shape
<1>2. QED
  BY <1>1, SpecIInv, PTL

(* The limiter counts exactly the requests that hold a slot of their key,  *)
(* in every interleaving of any number of requests, faults and restarts    *)
(* (handler.go:133-141, 326, 415, 535, 648, 749, 916; concurrency.go).     *)
THEOREM RelaySlotsCounted == Spec => []SlotsCounted
<1>1. IInv => SlotsCounted
  BY DEF IInv
<1>2. QED
  BY <1>1, SpecIInv, PTL

----------------------------------------------------------------------------
(* The relay implements module Admission.                                  *)

(* Nothing is charged before the handler asks. *)
Unasked ==
  \A r \in Requests :
    pc[r] \in {"idle", "admitted", "resolved"} => charge[r] = "unasked"

Idlers == {r \in Requests : pc[r] = "idle"}

(* Within a handler, a request does not go back to idle or to its checks,  *)
(* and the charge waits for PreConsume.                                    *)
LEMMA HandlerFrame ==
  ASSUME Shape, Unasked, NEW r \in Requests,
         Served(r) \/ Streamed(r) \/ Buffered(r),
         ~Admit(r), ~TurnAway(r), ~PreConsume(r)
  PROVE  Unasked' /\ Idlers' = Idlers /\ UNCHANGED charge
<1>1. CASE Refuse(r)
  BY <1>1 DEF Refuse, LeaveBy, Go, Apart, Outside, booksVars, Shape, TypeOK, Unasked, Idlers
<1>2. CASE Resolve(r)
  BY <1>2 DEF Resolve, Go, Apart, Outside, booksVars, Shape, TypeOK, Unasked, Idlers
<1>3. CASE FailBuild(r) \/ Dispatch(r)
  BY <1>3 DEF FailBuild, Dispatch, LeaveBy, Go, Apart, Outside, booksVars,
              Shape, TypeOK, Unasked, Idlers
<1>4. CASE Streamed(r)
  <2>1. /\ \E from \in {"sending", "streaming", "reading"},
              to \in {"streaming", "leaving"} : Go(r, from, to)
        /\ UNCHANGED charge
    BY <1>4 DEF Streamed, StreamFails, StreamRefused, StreamStarts, StreamEnds,
                StreamPanics, ForcedFails, ForcedRefused, ForcedEnds, LeaveBy,
                Apart, Outside, booksVars
  <2>2. QED
    BY <2>1 DEF Go, Shape, TypeOK, Unasked, Idlers
<1>5. CASE Buffered(r)
  <2> DEFINE Loop == {"trying", "cooling", "picking", "loading",
                      "recooling", "repicking", "reloading"}
  <2>1. /\ \E from \in Loop, to \in Loop \cup {"leaving"} : Go(r, from, to)
        /\ UNCHANGED charge
    <3>1. CASE SetupFails(r) \/ TryAnswers(r) \/ TryFails(r) \/ CoolDown(r)
      BY <3>1 DEF SetupFails, TryAnswers, TryFails, CoolDown, LeaveBy, Apart, Outside, booksVars
    <3>2. CASE PickNext(r)
      BY <3>2 DEF PickNext, GiveUp, LeaveBy, Apart, Outside, booksVars
    <3>3. CASE LoadCredentials(r)
      BY <3>3 DEF LoadCredentials, GiveUp, LeaveBy, Apart, Outside, booksVars
    <3>4. CASE LoadFails(r)
      BY <3>4 DEF LoadFails, GiveUp, LeaveBy, Apart, Outside, booksVars
    <3>5. QED
      BY <1>5, <3>1, <3>2, <3>3, <3>4 DEF Buffered
  <2>2. QED
    BY <2>1 DEF Go, Shape, TypeOK, Unasked, Idlers
<1>6. QED
  BY <1>1, <1>2, <1>3, <1>4, <1>5 DEF Served

(* A refund or a settlement leaves the charge, or closes the one held. *)
LEMMA CloseChargeMoves ==
  ASSUME Shape, NEW r \in Requests, NEW how \in {"returned", "settled"},
         CloseCharge(r, how)
  PROVE  \/ UNCHANGED charge
         \/ charge[r] = "held" /\ charge' = [charge EXCEPT ![r] = how]
<1>1. /\ charge \in [Requests -> {"unasked", "refused", "held", "returned", "settled"}]
      /\ \/ charge' = [charge EXCEPT ![r] = IF charge[r] = "held" THEN how ELSE charge[r]]
         \/ charge' = charge
  BY DEF CloseCharge, Shape, TypeOK
<1>2. QED
  BY <1>1

----------------------------------------------------------------------------
(* The abstract state, and when it stays as it is. *)
Stages  == [r \in Requests |-> StageOf(r)]
Ledgers == [r \in Requests |-> LedgerOf(r)]

LEMMA StagesKept ==
  ASSUME SlotFrame, Idlers' = Idlers
  PROVE  Stages' = Stages
<1>1. \A r \in Requests : StageOf(r)' = StageOf(r)
  <2> TAKE r \in Requests
  <2>1. (pc'[r] = "idle") <=> (pc[r] = "idle")
    BY DEF Idlers
  <2>2. HoldsSlot(r)' <=> HoldsSlot(r)
    BY DEF SlotFrame
  <2>3. QED
    BY <2>1, <2>2 DEF StageOf
<1>2. QED
  BY <1>1 DEF Stages

LEMMA LedgersKept == UNCHANGED charge => Ledgers' = Ledgers
BY DEF Ledgers, LedgerOf

LEMMA SameCardinality == \A S : Abstract!Cardinality(S) = Cardinality(S)
BY DEF Abstract!Cardinality, Cardinality

(* Who is inside for the limiter holds a slot of the handlers. *)
LEMMA InsideHolds ==
  ASSUME Shape
  PROVE  \A k \in Keys : Abstract!Inside(k) = Holders(k)
<1>1. ASSUME NEW r \in Requests
      PROVE  StageOf(r) = "inside" <=> HoldsSlot(r)
  <2>1. pc[r] = "idle" => ~HoldsSlot(r)
    BY DEF Shape, ExitOK, HoldsSlot, WillRelease, Holding
  <2>2. QED
    BY <2>1 DEF StageOf
<1>2. QED
  BY <1>1 DEF Abstract!Inside, Holders

(* A charge held is closed. *)
LEMMA CloseIsClose ==
  ASSUME Shape, NEW r \in Requests, NEW how \in {"returned", "settled"},
         charge[r] = "held", charge' = [charge EXCEPT ![r] = how],
         Stages' = Stages, UNCHANGED crashes
  PROVE  Abstract!Close(r)
<1>1. Ledgers[r] = "reserved"
  BY DEF Ledgers, LedgerOf
<1>2. Ledgers' = [Ledgers EXCEPT ![r] = how]
  BY DEF Ledgers, LedgerOf, Shape, TypeOK
<1>3. QED
  BY <1>1, <1>2, LimitKept DEF Abstract!Close, Stages, Ledgers

(* A request and its slot. *)
LEMMA StageMoves ==
  ASSUME Shape, Shape', NEW r \in Requests, NEW new \in {"inside", "gone"},
         StageOf(r)' = new,
         \A q \in Requests \ {r} : /\ HoldsSlot(q)' <=> HoldsSlot(q)
                                   /\ (pc'[q] = "idle") <=> (pc[q] = "idle")
  PROVE  Stages' = [Stages EXCEPT ![r] = new]
<1>1. \A q \in Requests \ {r} : StageOf(q)' = StageOf(q)
  BY DEF StageOf
<1>2. QED
  BY <1>1 DEF Stages

AInv == IInv /\ Unasked

LEMMA UnaskedKept == AInv /\ [Next]_vars => Unasked'
<1> SUFFICES ASSUME AInv, [Next]_vars PROVE Unasked'
  OBVIOUS
<1> USE DEF AInv, IInv
<1>1. ASSUME NEW r \in Requests, Admit(r) \/ TurnAway(r) \/ PreConsume(r)
      PROVE  Unasked'
  <2>1. CASE Admit(r)
    BY <2>1 DEF Admit, Go, booksVars, Unasked, Shape, TypeOK
  <2>2. CASE TurnAway(r)
    BY <2>2 DEF TurnAway, LeaveBy, Go, Apart, Outside, booksVars, Unasked, Shape, TypeOK
  <2>3. CASE PreConsume(r)
    BY <2>3 DEF PreConsume, Go, Unasked, Shape, TypeOK
  <2>4. QED
    BY <1>1, <2>1, <2>2, <2>3
<1>2. ASSUME NEW r \in Requests, Served(r) \/ Streamed(r) \/ Buffered(r)
      PROVE  Unasked'
  BY <1>1, <1>2, HandlerFrame
<1>3. ASSUME NEW r \in Requests, TakeStep(r) \/ RunJob(r)
      PROVE  Unasked'
  <2>1. \/ UNCHANGED charge
        \/ \E how \in {"returned", "settled"} :
             charge[r] = "held" /\ charge' = [charge EXCEPT ![r] = how]
    <3>1. CASE UNCHANGED charge
      BY <3>1
    <3>2. CASE \E how \in {"returned", "settled"} : CloseCharge(r, how)
      BY <3>2, CloseChargeMoves
    <3>3. QED
      BY <1>3, <3>1, <3>2 DEF TakeStep, RunJob, booksVars
  <2>2. UNCHANGED pc
    BY <1>3 DEF TakeStep, RunJob, requestVars
  <2>3. QED
    BY <2>1, <2>2 DEF Unasked, Shape, TypeOK
<1>4. CASE PoolStep
  BY <1>4 DEF PoolStep, EndCooldown, RefreshPool, Outside, requestVars, booksVars, Unasked
<1>5. CASE Crash
  BY <1>5 DEF Crash, booksVars, Unasked
<1>6. CASE UNCHANGED vars
  BY <1>6 DEF vars, requestVars, booksVars, Unasked
<1>7. QED
  BY <1>2, <1>3, <1>4, <1>5, <1>6 DEF Next, PoolStep

LEMMA SpecAInv == Spec => []AInv
<1>1. Init => AInv
  BY InitIInv DEF Init, Unasked, AInv
<1>2. AInv /\ [Next]_vars => AInv'
  BY NextIInv, UnaskedKept DEF AInv
<1>3. QED
  BY <1>1, <1>2, PTL DEF Spec

(* Every step of the relay is a step of Admission, or none. *)
LEMMA StepImplements ==
  AInv /\ AInv' /\ [Next]_vars => [Abstract!AdmissionNext]_<<Stages, Ledgers, Limit>>
<1> SUFFICES ASSUME AInv, AInv', [Next]_vars
             PROVE  [Abstract!AdmissionNext]_<<Stages, Ledgers, Limit>>
  OBVIOUS
<1> USE RelayAssumption DEF AInv, IInv
<1>1. CASE SlotFrame /\ Idlers' = Idlers /\ UNCHANGED charge
  BY <1>1, StagesKept, LedgersKept, LimitKept DEF SlotFrame
<1>2. ASSUME NEW r \in Requests, Admit(r)
      PROVE  Abstract!Enter(r)
  <2>1. /\ ~HoldsSlot(r) /\ HoldsSlot(r)'
        /\ \A q \in Requests \ {r} : HoldsSlot(q)' <=> HoldsSlot(q)
    BY <1>2, AdmitMoves
  <2>2. pc[r] = "idle" /\ pc' = [pc EXCEPT ![r] = "admitted"]
    BY <1>2 DEF Admit, Go
  <2>3. StageOf(r) = "new" /\ StageOf(r)' = "inside"
    BY <2>1, <2>2 DEF StageOf, Shape, TypeOK
  <2>4. Stages' = [Stages EXCEPT ![r] = "inside"]
    BY <2>1, <2>2, <2>3, StageMoves DEF Shape, TypeOK
  <2>5. Limit > 0 => Cardinality(Abstract!Inside(KeyOf[r])) < Limit
    <3>1. KeyOf[r] \in Keys
      OBVIOUS
    <3>2. QED
      BY <1>2, <3>1, InsideHolds DEF Admit, SlotsCounted
  <2>6. Ledgers' = Ledgers
    BY <1>2, LedgersKept DEF Admit, booksVars
  <2>7. QED
    BY <1>2, <2>3, <2>4, <2>5, <2>6, SameCardinality, LimitKept DEF Admit, Abstract!Enter, Stages, Ledgers
<1>3. ASSUME NEW r \in Requests, TurnAway(r)
      PROVE  Abstract!TurnAway(r)
  <2>1. SlotFrame
    <3>1. pc' = [pc EXCEPT ![r] = "leaving"] /\ pc'[r] = "leaving"
      BY <1>3 DEF TurnAway, LeaveBy, Go, Shape, TypeOK
    <3>2. ~Admit(r)
      BY <3>1 DEF Admit, Go, Shape, TypeOK
    <3>3. QED
      BY <1>3, <3>2, ServedFrame DEF Served
  <2>2. pc[r] = "idle" /\ pc' = [pc EXCEPT ![r] = "leaving"]
    BY <1>3 DEF TurnAway, LeaveBy, Go
  <2>3. ~HoldsSlot(r)
    BY <2>2 DEF Shape, ExitOK, HoldsSlot, WillRelease, Holding
  <2>4. StageOf(r) = "new" /\ StageOf(r)' = "gone"
    BY <2>1, <2>2, <2>3 DEF StageOf, SlotFrame, Shape, TypeOK
  <2>5. Stages' = [Stages EXCEPT ![r] = "gone"]
    BY <2>1, <2>2, <2>4, StageMoves DEF SlotFrame, Shape, TypeOK
  <2>6. Limit > 0 /\ Cardinality(Abstract!Inside(KeyOf[r])) >= Limit
    <3>1. KeyOf[r] \in Keys
      OBVIOUS
    <3>2. QED
      BY <1>3, <3>1, InsideHolds DEF TurnAway, SlotsCounted
  <2>7. Ledgers' = Ledgers
    BY <1>3, LedgersKept DEF TurnAway, Apart, Outside, booksVars
  <2>8. QED
    BY <2>1, <2>4, <2>5, <2>6, <2>7, SameCardinality, LimitKept DEF SlotFrame, Abstract!TurnAway, Stages, Ledgers
<1>4. ASSUME NEW r \in Requests, PreConsume(r)
      PROVE  Abstract!Reserve(r) \/ UNCHANGED <<Stages, Ledgers, Limit>>
  <2>1. SlotFrame
    BY <1>4, ServedFrame DEF Served, PreConsume, Admit, Go
  <2>2. pc[r] = "resolved" /\ pc' = [pc EXCEPT ![r] = "reserved"]
    BY <1>4 DEF PreConsume, Go
  <2>3. Stages' = Stages /\ Limit' = Limit
    BY <2>1, <2>2, StagesKept, LimitKept DEF SlotFrame, Idlers, Shape, TypeOK
  <2>4. Stages[r] = "inside"
    BY <2>2 DEF Stages, StageOf, HoldsSlot, Holding
  <2>5. charge[r] = "unasked" /\ Ledgers[r] = "open"
    BY <2>2 DEF Unasked, Ledgers, LedgerOf
  <2>6. CASE charge' = [charge EXCEPT ![r] = "held"]
    <3>1. Ledgers' = [Ledgers EXCEPT ![r] = "reserved"]
      BY <2>6 DEF Ledgers, LedgerOf, Shape, TypeOK
    <3>2. QED
      BY <2>3, <2>4, <2>5, <3>1 DEF Abstract!Reserve, Stages, Ledgers
  <2>7. CASE charge' = [charge EXCEPT ![r] = "refused"]
    BY <2>3, <2>5, <2>7 DEF Ledgers, LedgerOf, Shape, TypeOK
  <2>8. QED
    BY <1>4, <2>6, <2>7 DEF PreConsume
<1>5. ASSUME NEW r \in Requests, NEW how \in {"returned", "settled"},
             CloseCharge(r, how), SlotFrame, UNCHANGED pc
      PROVE  Abstract!Close(r) \/ UNCHANGED <<Stages, Ledgers, Limit>>
  <2>1. Stages' = Stages /\ Limit' = Limit /\ crashes' = crashes
    BY <1>5, StagesKept, LimitKept DEF SlotFrame, Idlers
  <2>2. QED
    BY <1>5, <2>1, CloseChargeMoves, CloseIsClose, LedgersKept
<1>6. ASSUME NEW r \in Requests, TakeStep(r)
      PROVE  Abstract!Leave(r) \/ Abstract!Close(r) \/ UNCHANGED <<Stages, Ledgers, Limit>>
  <2>1. pc[r] = "leaving" /\ UNCHANGED pc
    BY <1>6 DEF TakeStep
  <2>2. CASE Head(todo[r]) = "release"
    <3>1. /\ HoldsSlot(r) /\ ~HoldsSlot(r)'
          /\ \A q \in Requests \ {r} : HoldsSlot(q)' <=> HoldsSlot(q)
      BY <1>6, <2>2, TakeStepMoves
    <3>2. StageOf(r) = "inside" /\ StageOf(r)' = "gone"
      BY <2>1, <3>1 DEF StageOf
    <3>3. Stages' = [Stages EXCEPT ![r] = "gone"]
      BY <2>1, <3>1, <3>2, StageMoves
    <3>4. Ledgers' = Ledgers
      BY <1>6, <2>2, LedgersKept DEF TakeStep, booksVars
    <3>5. Limit' = Limit
      BY <1>6, LimitKept DEF TakeStep
    <3>6. QED
      BY <3>2, <3>3, <3>4, <3>5 DEF Abstract!Leave, Stages, Ledgers
  <2>3. CASE Head(todo[r]) = "refund"
    BY <1>5, <1>6, <2>1, <2>3, TakeStepMoves DEF TakeStep
  <2>4. CASE Head(todo[r]) \notin {"release", "refund"}
    BY <1>6, <2>1, <2>4, TakeStepMoves, StagesKept, LedgersKept, LimitKept
    DEF TakeStep, booksVars, Idlers
  <2>5. QED
    BY <2>2, <2>3, <2>4
<1>7. ASSUME NEW r \in Requests, RunJob(r)
      PROVE  Abstract!Close(r) \/ UNCHANGED <<Stages, Ledgers, Limit>>
  <2>1. SlotFrame /\ UNCHANGED pc
    BY <1>7, BackgroundFrame DEF RunJob, requestVars
  <2>2. CASE UNCHANGED charge
    BY <2>1, <2>2, StagesKept, LedgersKept, LimitKept DEF SlotFrame, Idlers
  <2>3. CASE \E how \in {"returned", "settled"} : CloseCharge(r, how)
    BY <1>5, <2>1, <2>3
  <2>4. QED
    BY <1>7, <2>2, <2>3 DEF RunJob
<1>8. CASE PoolStep
  BY <1>1, <1>8, BackgroundFrame DEF PoolStep, EndCooldown, RefreshPool, Outside, requestVars, booksVars, Idlers
<1>9. CASE Crash
  <2>1. \A q \in Requests : ~HoldsSlot(q)'
    BY <1>9, CrashMoves
  <2>2. \A q \in Requests : (pc'[q] = "idle") <=> (pc[q] = "idle")
    BY <1>9 DEF Crash
  <2>3. \A q \in Requests :
          StageOf(q)' = IF StageOf(q) = "inside" THEN "gone" ELSE StageOf(q)
    BY <2>1, <2>2 DEF StageOf
  <2>4. Ledgers' = Ledgers
    BY <1>9, LedgersKept DEF Crash, booksVars
  <2>5. Limit' \in Nat
    BY <1>9 DEF Crash, Limit, Shape, TypeOK
  <2>6. Abstract!Stop
    BY <2>3, <2>4, <2>5 DEF Abstract!Stop, Stages, Ledgers
  <2>7. QED
    BY <2>6 DEF Abstract!AdmissionNext
<1>10. ASSUME NEW r \in Requests, Served(r) \/ Streamed(r) \/ Buffered(r),
              ~Admit(r), ~TurnAway(r), ~PreConsume(r)
       PROVE  UNCHANGED <<Stages, Ledgers, Limit>>
  <2>1. SlotFrame
    BY <1>10, ServedFrame, StreamedFrame, BufferedFrame
  <2>2. Idlers' = Idlers /\ UNCHANGED charge
    BY <1>10, HandlerFrame
  <2>3. QED
    BY <2>1, <2>2, StagesKept, LedgersKept, LimitKept DEF SlotFrame
<1>11. CASE UNCHANGED vars
  <2>1. SlotFrame
    BY <1>11 DEF vars, requestVars, SlotFrame, HoldsSlot, WillRelease
  <2>2. Idlers' = Idlers /\ UNCHANGED charge
    BY <1>11 DEF vars, requestVars, booksVars, Idlers
  <2>3. QED
    BY <1>1, <2>1, <2>2
<1>12. QED
  BY <1>2, <1>3, <1>4, <1>6, <1>7, <1>8, <1>9, <1>10, <1>11
  DEF Next, PoolStep, Abstract!AdmissionNext

(* Every step of the handlers is a step of module Admission, for any       *)
(* number of requests: the slot is held from admission until one release,  *)
(* the quota is reserved while it is held, and closed at most once.        *)
THEOREM RelayImplementsAdmission == Spec => ImplementsAdmission
<1>1. Init => Abstract!AdmissionInit
  BY RelayAssumption DEF Init, Abstract!AdmissionInit, StageOf, LedgerOf, Limit
<1>2. AInv /\ AInv' /\ [Next]_vars =>
        [Abstract!AdmissionNext]_(Abstract!admissionVars)
  BY StepImplements DEF Abstract!admissionVars, Stages, Ledgers
<1>3. QED
  BY <1>1, <1>2, SpecAInv, PTL DEF Spec, ImplementsAdmission, Abstract!AdmissionSpec

----------------------------------------------------------------------------
(* Refunds and settlements.  A request that left after it asked for a      *)
(* reservation has one of them to come, in its exit or in a goroutine, or  *)
(* has had it, or has lost it with a restart; any other has none.          *)

Closers == {"refund", "goRefund", "goSettle"}

NoCloser(s)  == \A i \in 1..Len(s) : s[i] \notin Closers
OneCloser(s) == \E i \in 1..Len(s) :
                  /\ s[i] \in Closers
                  /\ \A j \in 1..Len(s) : s[j] \in Closers => j = i

JobClosers(r) == jobs[r] \cap {"refund", "settle"}
NoneToCome(r) == NoCloser(todo[r]) /\ JobClosers(r) = {}
Due(r)        == pc[r] = "leaving" /\ charge[r] # "unasked"

ClosingOnce(r) ==
  \/ closings[r] = 0 /\ OneCloser(todo[r]) /\ JobClosers(r) = {}
  \/ /\ closings[r] = 0 /\ NoCloser(todo[r])
     /\ \E j \in {"refund", "settle"} : JobClosers(r) = {j}
  \/ closings[r] = 1 /\ NoneToCome(r)
  \/ closings[r] = 0 /\ NoneToCome(r) /\ crashes > 0

(* A request past PreConsume asked for its reservation. *)
Asking == Holding \ {"admitted", "resolved"}
Asked  == \A r \in Requests : pc[r] \in Asking => charge[r] # "unasked"

CInv ==
  /\ Asked
  /\ \A r \in Requests : IF Due(r) THEN ClosingOnce(r)
                                   ELSE closings[r] = 0 /\ NoneToCome(r)

(* The exits of a request that asked for a reservation. *)
ClosingExits == Exits \ {Refusal}

LEMMA ExitsClose ==
  ASSUME NEW exit \in ClosingExits
  PROVE  OneCloser(exit)
<1> USE DEF Closers, OneCloser
<1>1. CASE exit = BuildFailed
  BY <1>1 DEF BuildFailed
<1>2. CASE exit = RefundAndError
  BY <1>2 DEF RefundAndError
<1>3. CASE exit = RefundOnError
  BY <1>3 DEF RefundOnError
<1>4. CASE exit = Exhausted
  BY <1>4 DEF Exhausted
<1>5. CASE exit = StreamDone
  BY <1>5 DEF StreamDone
<1>6. CASE exit = StreamPanicked
  BY <1>6 DEF StreamPanicked
<1>7. CASE exit = ForcedDone
  BY <1>7 DEF ForcedDone
<1>8. CASE exit = BufferedDone
  BY <1>8 DEF BufferedDone
<1>9. QED
  BY <1>1, <1>2, <1>3, <1>4, <1>5, <1>6, <1>7, <1>8 DEF ClosingExits, Exits

(* What a step of an exit leaves to close. *)
LEMMA TailCloses ==
  ASSUME NEW s \in Seq(Operations), s # <<>>
  PROVE  /\ NoCloser(s) => Head(s) \notin Closers /\ NoCloser(Tail(s))
         /\ OneCloser(s) /\ Head(s) \in Closers => NoCloser(Tail(s))
         /\ OneCloser(s) /\ Head(s) \notin Closers => OneCloser(Tail(s))
<1>1. /\ Len(s) \in Nat \ {0} /\ Len(Tail(s)) = Len(s) - 1
      /\ Head(s) = s[1]
      /\ \A i \in 1..Len(Tail(s)) : Tail(s)[i] = s[i + 1]
  OBVIOUS
<1>2. NoCloser(s) => Head(s) \notin Closers /\ NoCloser(Tail(s))
  BY <1>1 DEF NoCloser
<1>3. ASSUME OneCloser(s), Head(s) \in Closers
      PROVE  NoCloser(Tail(s))
  BY <1>1, <1>3 DEF OneCloser, NoCloser
<1>4. ASSUME OneCloser(s), Head(s) \notin Closers
      PROVE  OneCloser(Tail(s))
  <2>1. PICK i \in 1..Len(s) : /\ s[i] \in Closers
                               /\ \A j \in 1..Len(s) : s[j] \in Closers => j = i
    BY <1>4 DEF OneCloser
  <2>2. i - 1 \in 1..Len(Tail(s)) /\ Tail(s)[i - 1] \in Closers
    BY <1>1, <1>4, <2>1
  <2>3. ASSUME NEW j \in 1..Len(Tail(s)), Tail(s)[j] \in Closers
        PROVE  j = i - 1
    BY <1>1, <2>1, <2>3
  <2>4. QED
    BY <2>2, <2>3 DEF OneCloser
<1>5. QED
  BY <1>2, <1>3, <1>4

(* A handler's step moves on inside the handler, or takes an exit: one     *)
(* that closes exactly when the request asked.                             *)
HandlerMoves(r) ==
  /\ UNCHANGED <<charge, jobs, closings, crashes>>
  /\ \/ /\ UNCHANGED todo
        /\ \/ \E from \in Asking, to \in Asking : Go(r, from, to)
           \/ Go(r, "idle", "admitted")
           \/ Go(r, "admitted", "resolved")
     \/ \E from \in {"idle", "admitted"}, exit \in {<<>>, Refusal} : LeaveBy(r, from, exit)
     \/ \E from \in Asking, exit \in ClosingExits : LeaveBy(r, from, exit)

LEMMA HandlersMove ==
  ASSUME NEW r \in Requests, Served(r) \/ Streamed(r) \/ Buffered(r), ~PreConsume(r)
  PROVE  HandlerMoves(r)
<1> USE DEF HandlerMoves
<1>0. /\ Asking = {"reserved", "sending", "streaming", "reading", "trying", "cooling",
                   "picking", "loading", "recooling", "repicking", "reloading"}
      /\ ClosingExits = {BuildFailed, RefundAndError, RefundOnError, Exhausted,
                         StreamDone, StreamPanicked, ForcedDone, BufferedDone}
  <2>1. Asking = {"reserved", "sending", "streaming", "reading", "trying", "cooling",
                  "picking", "loading", "recooling", "repicking", "reloading"}
    BY DEF Asking, Holding
  <2>2. Refusal \notin {BuildFailed, RefundAndError, RefundOnError, Exhausted,
                        StreamDone, StreamPanicked, ForcedDone, BufferedDone}
    <3>1. Len(Refusal) = 1
      BY DEF Refusal
    <3>2. /\ Len(BuildFailed) = 2 /\ Len(RefundAndError) = 2 /\ Len(RefundOnError) = 3
          /\ Len(Exhausted) = 2 /\ Len(StreamDone) = 3 /\ Len(StreamPanicked) = 2
          /\ Len(ForcedDone) = 3 /\ Len(BufferedDone) = 3
      BY DEF BuildFailed, RefundAndError, RefundOnError, Exhausted, StreamDone,
             StreamPanicked, ForcedDone, BufferedDone
    <3>3. QED
      BY <3>1, <3>2
  <2>3. QED
    BY <2>1, <2>2 DEF ClosingExits, Exits
<1>1. CASE Admit(r) \/ TurnAway(r) \/ Refuse(r) \/ Resolve(r)
  BY <1>1 DEF Admit, TurnAway, Refuse, Resolve, Apart, Outside, booksVars
<1>2. CASE FailBuild(r)
  BY <1>0, <1>2 DEF FailBuild, Apart, Outside, booksVars
<1>3. CASE Dispatch(r)
  <2>1. \E to \in {"trying", "reading", "sending"} : Go(r, "reserved", to)
    BY <1>3 DEF Dispatch
  <2>2. QED
    BY <1>0, <1>3, <2>1 DEF Dispatch, Apart, Outside, booksVars
<1>4. CASE Streamed(r)
  <2>1. UNCHANGED <<charge, jobs, closings, crashes>>
    BY <1>4 DEF Streamed, StreamFails, StreamRefused, StreamStarts, StreamEnds,
                StreamPanics, ForcedFails, ForcedRefused, ForcedEnds,
                Apart, Outside, booksVars
  <2>2. \/ UNCHANGED todo /\ Go(r, "sending", "streaming")
        \/ \E from \in {"sending", "streaming", "reading"},
              exit \in {RefundAndError, RefundOnError, StreamDone,
                        StreamPanicked, ForcedDone} : LeaveBy(r, from, exit)
    BY <1>4 DEF Streamed, StreamFails, StreamRefused, StreamStarts, StreamEnds,
                StreamPanics, ForcedFails, ForcedRefused, ForcedEnds
  <2>3. QED
    BY <1>0, <2>1, <2>2
<1>5. CASE Buffered(r)
  <2> DEFINE Loop == {"trying", "cooling", "picking", "loading",
                      "recooling", "repicking", "reloading"}
  <2>1. UNCHANGED <<charge, jobs, closings, crashes>>
    BY <1>5 DEF Buffered, SetupFails, TryAnswers, TryFails, CoolDown, PickNext,
                LoadCredentials, LoadFails, Apart, Outside, booksVars
  <2>2. \/ UNCHANGED todo /\ \E from \in Loop, to \in Loop : Go(r, from, to)
        \/ \E from \in Loop, exit \in {RefundAndError, RefundOnError, Exhausted,
                                       BufferedDone} : LeaveBy(r, from, exit)
    <3>1. CASE SetupFails(r) \/ TryAnswers(r)
      BY <3>1 DEF SetupFails, TryAnswers
    <3>2. CASE TryFails(r) \/ CoolDown(r)
      BY <3>2 DEF TryFails, CoolDown
    <3>3. CASE PickNext(r)
      BY <3>3 DEF PickNext, GiveUp
    <3>4. CASE LoadCredentials(r)
      BY <3>4 DEF LoadCredentials, GiveUp
    <3>5. CASE LoadFails(r)
      BY <3>5 DEF LoadFails, GiveUp
    <3>6. QED
      BY <1>5, <3>1, <3>2, <3>3, <3>4, <3>5 DEF Buffered
  <2>3. QED
    BY <1>0, <2>1, <2>2
<1>6. QED
  BY <1>1, <1>2, <1>3, <1>4, <1>5 DEF Served

(* A request whose books do not change keeps its part of CInv. *)
Still(q) ==
  /\ pc'[q] = pc[q] /\ charge'[q] = charge[q] /\ closings'[q] = closings[q]
  /\ todo'[q] = todo[q] /\ jobs'[q] = jobs[q]

BooksOf(r) == /\ pc[r] \in Asking => charge[r] # "unasked"
              /\ IF Due(r) THEN ClosingOnce(r) ELSE closings[r] = 0 /\ NoneToCome(r)

LEMMA CInvIsBooks == CInv <=> \A r \in Requests : BooksOf(r)
BY DEF CInv, Asked, BooksOf

LEMMA BooksAreCInv == (\A r \in Requests : BooksOf(r)') => CInv'
BY DEF CInv, Asked, BooksOf

LEMMA StillBooks ==
  ASSUME NEW q \in Requests, BooksOf(q), Still(q), UNCHANGED crashes
  PROVE  BooksOf(q)'
BY DEF BooksOf, Still, Due, ClosingOnce, NoneToCome, JobClosers

(* The handlers keep the books. *)
LEMMA HandlerBooks ==
  ASSUME Shape, Unasked, CInv, NEW r \in Requests, HandlerMoves(r)
  PROVE  CInv'
<1>1. BooksOf(r) /\ pc \in [Requests -> Holding \cup {"idle", "leaving"}]
      /\ todo \in [Requests -> Seq(Operations)]
  BY CInvIsBooks DEF Shape, TypeOK
<1>2. \A q \in Requests \ {r} : Still(q)
  BY <1>1 DEF HandlerMoves, LeaveBy, Go, Still
<1>3. BooksOf(r)'
  <2>1. CASE UNCHANGED todo
             /\ \/ \E from \in Asking, to \in Asking : Go(r, from, to)
                \/ Go(r, "idle", "admitted")
                \/ Go(r, "admitted", "resolved")
    <3>1. pc[r] # "leaving" /\ pc'[r] # "leaving"
          /\ (pc'[r] \in Asking => pc[r] \in Asking)
      BY <1>1, <2>1 DEF Go, Asking, Holding
    <3>2. QED
      BY <1>1, <2>1, <3>1 DEF HandlerMoves, BooksOf, Due, NoneToCome, JobClosers
  <2>2. CASE \E from \in {"idle", "admitted"}, exit \in {<<>>, Refusal} :
               LeaveBy(r, from, exit)
    <3>1. /\ pc[r] \in {"idle", "admitted"} /\ pc'[r] = "leaving"
          /\ todo'[r] \in {<<>>, Refusal}
      BY <1>1, <2>2 DEF LeaveBy, Go
    <3>2. NoCloser(<<>>) /\ NoCloser(Refusal)
      BY DEF NoCloser, Refusal, Closers
    <3>3. charge'[r] = "unasked"
      BY <3>1 DEF Unasked, HandlerMoves
    <3>4. "leaving" \notin Asking
      BY DEF Asking, Holding
    <3>5. NoCloser(todo'[r])
      BY <3>1, <3>2
    <3>6. QED
      BY <1>1, <3>1, <3>3, <3>4, <3>5 DEF HandlerMoves, BooksOf, Due, NoneToCome, JobClosers
  <2>3. CASE \E from \in Asking, exit \in ClosingExits : LeaveBy(r, from, exit)
    <3>1. /\ pc[r] \in Asking /\ pc'[r] = "leaving" /\ todo'[r] \in ClosingExits
      BY <1>1, <2>3 DEF LeaveBy, Go
    <3>2. OneCloser(todo'[r])
      BY <3>1, ExitsClose
    <3>3. "leaving" \notin Asking
      BY DEF Asking, Holding
    <3>4. QED
      BY <1>1, <3>1, <3>2, <3>3
      DEF HandlerMoves, BooksOf, Due, ClosingOnce, NoneToCome, JobClosers
  <2>4. QED
    BY <2>1, <2>2, <2>3 DEF HandlerMoves
<1>4. QED
  BY <1>2, <1>3, StillBooks, CInvIsBooks, BooksAreCInv DEF HandlerMoves

(* PreConsume asks. *)
LEMMA PreConsumeBooks ==
  ASSUME Shape, CInv, NEW r \in Requests, PreConsume(r)
  PROVE  CInv'
<1>1. /\ pc[r] = "resolved" /\ pc' = [pc EXCEPT ![r] = "reserved"]
      /\ \E c \in {"held", "refused"} : charge' = [charge EXCEPT ![r] = c]
      /\ UNCHANGED <<todo, jobs, closings, crashes>>
  BY DEF PreConsume, Go
<1>2. \A q \in Requests \ {r} : Still(q)
  BY <1>1 DEF Still, Shape, TypeOK
<1>3. pc'[r] = "reserved" /\ charge'[r] # "unasked"
  BY <1>1 DEF Shape, TypeOK
<1>4. BooksOf(r)'
  BY <1>1, <1>3, CInvIsBooks DEF BooksOf, Due, NoneToCome, JobClosers
<1>5. QED
  BY <1>1, <1>2, <1>4, StillBooks, CInvIsBooks, BooksAreCInv

(* A refund or a settlement counts one attempt, and asks for nothing. *)
LEMMA CloseChargeCounts ==
  ASSUME Shape, NEW r \in Requests, NEW how \in {"returned", "settled"},
         CloseCharge(r, how)
  PROVE  /\ closings'[r] = closings[r] + 1
         /\ charge'[r] = "unasked" <=> charge[r] = "unasked"
         /\ \A q \in Requests \ {r} : closings'[q] = closings[q] /\ charge'[q] = charge[q]
<1>1. /\ charge \in [Requests -> {"unasked", "refused", "held", "returned", "settled"}]
      /\ closings \in [Requests -> Nat]
      /\ closings' = [closings EXCEPT ![r] = closings[r] + 1]
      /\ \/ charge' = [charge EXCEPT ![r] = IF charge[r] = "held" THEN how ELSE charge[r]]
         \/ charge' = charge
  BY DEF CloseCharge, Shape, TypeOK
<1>2. QED
  BY <1>1

(* A step of an exit. *)
LEMMA TakeStepBooks ==
  ASSUME Shape, CInv, NEW r \in Requests, TakeStep(r)
  PROVE  CInv'
<1>1. /\ pc[r] = "leaving" /\ pc' = pc /\ UNCHANGED crashes
      /\ todo[r] # <<>> /\ todo' = [todo EXCEPT ![r] = Tail(todo[r])]
      /\ todo \in [Requests -> Seq(Operations)] /\ closings \in [Requests -> Nat]
      /\ jobs \in [Requests -> SUBSET {"refund", "settle", "log"}]
  BY DEF TakeStep, Shape, TypeOK
<1>2. /\ todo'[r] = Tail(todo[r]) /\ todo[r] \in Seq(Operations)
      /\ \A q \in Requests \ {r} : todo'[q] = todo[q]
  BY <1>1
<1>3. BooksOf(r) /\ "leaving" \notin Asking
  BY CInvIsBooks DEF Asking, Holding
<1>4. /\ NoCloser(todo[r]) => Head(todo[r]) \notin Closers /\ NoCloser(todo'[r])
      /\ OneCloser(todo[r]) /\ Head(todo[r]) \in Closers => NoCloser(todo'[r])
      /\ OneCloser(todo[r]) /\ Head(todo[r]) \notin Closers => OneCloser(todo'[r])
  BY <1>1, <1>2, TailCloses
<1>5. CASE Head(todo[r]) \in {"release", "goLog"}
  <2>1. UNCHANGED <<charge, closings>>
    BY <1>5 DEF TakeStep, booksVars
  <2>2. /\ \A q \in Requests \ {r} : jobs'[q] = jobs[q]
        /\ JobClosers(r)' = JobClosers(r)
    BY <1>1, <1>5 DEF TakeStep, Spawn, JobClosers
  <2>3. Head(todo[r]) \notin Closers
    BY <1>5 DEF Closers
  <2>4. BooksOf(r)'
    BY <1>1, <1>3, <1>4, <2>1, <2>2, <2>3 DEF BooksOf, Due, ClosingOnce, NoneToCome
  <2>5. \A q \in Requests \ {r} : Still(q)
    BY <1>1, <1>2, <2>1, <2>2 DEF Still
  <2>6. QED
    BY <1>1, <2>4, <2>5, StillBooks, CInvIsBooks, BooksAreCInv
<1>6. CASE Head(todo[r]) = "refund"
  <2>1. CloseCharge(r, "returned") /\ UNCHANGED jobs
    BY <1>6 DEF TakeStep
  <2>2. /\ closings'[r] = closings[r] + 1
        /\ charge'[r] = "unasked" <=> charge[r] = "unasked"
        /\ \A q \in Requests \ {r} : closings'[q] = closings[q] /\ charge'[q] = charge[q]
    BY <2>1, CloseChargeCounts
  <2>3. Head(todo[r]) \in Closers
    BY <1>6 DEF Closers
  <2>4. /\ charge[r] # "unasked" /\ closings[r] = 0 /\ OneCloser(todo[r])
        /\ JobClosers(r) = {}
    BY <1>1, <1>3, <1>4, <2>3 DEF BooksOf, Due, ClosingOnce, NoneToCome
  <2>5. /\ closings'[r] = 1 /\ charge'[r] # "unasked" /\ NoCloser(todo'[r])
        /\ JobClosers(r)' = {} /\ pc'[r] = "leaving"
    BY <1>1, <1>4, <2>1, <2>2, <2>3, <2>4 DEF JobClosers
  <2>6. BooksOf(r)'
    BY <1>3, <2>5 DEF BooksOf, Due, ClosingOnce, NoneToCome
  <2>7. \A q \in Requests \ {r} : Still(q)
    BY <1>1, <1>2, <2>1, <2>2 DEF Still
  <2>8. QED
    BY <1>1, <2>6, <2>7, StillBooks, CInvIsBooks, BooksAreCInv
<1>7. ASSUME NEW job \in {"refund", "settle"}, Spawn(r, job),
             Head(todo[r]) \in {"goRefund", "goSettle"}
      PROVE  CInv'
  <2>1. UNCHANGED <<charge, closings>>
    BY <1>7 DEF TakeStep, booksVars
  <2>2. Head(todo[r]) \in Closers
    BY <1>7 DEF Closers
  <2>3. /\ charge[r] # "unasked" /\ closings[r] = 0 /\ OneCloser(todo[r])
        /\ JobClosers(r) = {}
    BY <1>1, <1>3, <1>4, <2>2 DEF BooksOf, Due, ClosingOnce, NoneToCome
  <2>4. /\ JobClosers(r)' = {job}
        /\ \A q \in Requests \ {r} : jobs'[q] = jobs[q]
    BY <1>1, <1>7, <2>3 DEF Spawn, JobClosers
  <2>5. /\ closings'[r] = 0 /\ charge'[r] # "unasked" /\ NoCloser(todo'[r])
        /\ pc'[r] = "leaving"
    BY <1>1, <1>4, <2>1, <2>2, <2>3
  <2>6. BooksOf(r)'
    BY <1>3, <2>4, <2>5 DEF BooksOf, Due, ClosingOnce
  <2>7. \A q \in Requests \ {r} : Still(q)
    BY <1>1, <1>2, <2>1, <2>4 DEF Still
  <2>8. QED
    BY <1>1, <2>6, <2>7, StillBooks, CInvIsBooks, BooksAreCInv
<1>8. CASE Head(todo[r]) \in {"goRefund", "goSettle"}
  BY <1>7, <1>8 DEF TakeStep
<1>9. Head(todo[r]) \in Operations
  BY <1>1, <1>2
<1>10. QED
  BY <1>5, <1>6, <1>8, <1>9 DEF Operations

(* A goroutine. *)
LEMMA RunJobBooks ==
  ASSUME Shape, CInv, NEW r \in Requests, RunJob(r)
  PROVE  CInv'
<1>1. /\ UNCHANGED <<pc, todo, crashes>> /\ closings \in [Requests -> Nat]
      /\ jobs \in [Requests -> SUBSET {"refund", "settle", "log"}]
  BY DEF RunJob, requestVars, Shape, TypeOK
<1>2. BooksOf(r)
  BY CInvIsBooks
<1>3. ASSUME NEW job \in {"refund", "settle"}, NEW how \in {"returned", "settled"},
             job \in jobs[r], jobs' = [jobs EXCEPT ![r] = jobs[r] \ {job}],
             CloseCharge(r, how)
      PROVE  CInv'
  <2>1. /\ closings'[r] = closings[r] + 1
        /\ charge'[r] = "unasked" <=> charge[r] = "unasked"
        /\ \A q \in Requests \ {r} : closings'[q] = closings[q] /\ charge'[q] = charge[q]
    BY <1>3, CloseChargeCounts
  <2>2. job \in JobClosers(r)
    BY <1>3 DEF JobClosers
  <2>3. /\ Due(r) /\ closings[r] = 0 /\ NoCloser(todo[r]) /\ JobClosers(r) = {job}
    BY <1>2, <2>2 DEF BooksOf, ClosingOnce, NoneToCome
  <2>4. JobClosers(r)' = {} /\ \A q \in Requests \ {r} : jobs'[q] = jobs[q]
    BY <1>1, <1>3, <2>3 DEF JobClosers
  <2>5. Due(r)' /\ closings'[r] = 1 /\ NoneToCome(r)'
    BY <1>1, <2>1, <2>3, <2>4 DEF Due, NoneToCome
  <2>6. BooksOf(r)'
    BY <2>5 DEF BooksOf, ClosingOnce, Due, Asking, Holding
  <2>7. \A q \in Requests \ {r} : Still(q)
    BY <1>1, <2>1, <2>4 DEF Still
  <2>8. QED
    BY <1>1, <2>6, <2>7, StillBooks, CInvIsBooks, BooksAreCInv
<1>4. CASE jobs' = [jobs EXCEPT ![r] = jobs[r] \ {"log"}] /\ UNCHANGED <<charge, closings>>
  <2>1. JobClosers(r)' = JobClosers(r) /\ \A q \in Requests \ {r} : jobs'[q] = jobs[q]
    BY <1>1, <1>4 DEF JobClosers
  <2>2. BooksOf(r)'
    BY <1>1, <1>2, <1>4, <2>1 DEF BooksOf, Due, ClosingOnce, NoneToCome
  <2>3. \A q \in Requests \ {r} : Still(q)
    BY <1>1, <1>4, <2>1 DEF Still
  <2>4. QED
    BY <1>1, <2>2, <2>3, StillBooks, CInvIsBooks, BooksAreCInv
<1>5. QED
  BY <1>3, <1>4 DEF RunJob

(* A restart loses what was to come, and nothing else. *)
LEMMA CrashBooks ==
  ASSUME Shape, Unasked, CInv, Crash
  PROVE  CInv'
<1> SUFFICES ASSUME NEW q \in Requests PROVE BooksOf(q)'
  BY BooksAreCInv
<1>1. /\ crashes' > 0 /\ todo'[q] = <<>> /\ jobs'[q] = {}
      /\ pc'[q] = (IF pc[q] = "idle" THEN "idle" ELSE "leaving")
      /\ UNCHANGED <<charge, closings>>
  BY DEF Crash, booksVars, Shape, TypeOK
<1>2. NoneToCome(q)'
  BY <1>1 DEF NoneToCome, NoCloser, JobClosers
<1>3. closings[q] \in {0, 1} /\ (charge[q] = "unasked" => closings[q] = 0)
  BY CInvIsBooks DEF BooksOf, Due, ClosingOnce
<1>4. pc[q] = "idle" => charge[q] = "unasked"
  BY DEF Unasked
<1>5. pc'[q] \notin Asking
  BY <1>1 DEF Asking, Holding
<1>6. QED
  BY <1>1, <1>2, <1>3, <1>4, <1>5 DEF BooksOf, Due, ClosingOnce

LEMMA NextCInv == AInv /\ CInv /\ [Next]_vars => CInv'
<1> SUFFICES ASSUME AInv, CInv, [Next]_vars PROVE CInv'
  OBVIOUS
<1> USE DEF AInv, IInv
<1>1. ASSUME NEW r \in Requests, Served(r) \/ Streamed(r) \/ Buffered(r)
      PROVE  CInv'
  BY <1>1, HandlersMove, HandlerBooks, PreConsumeBooks
<1>2. ASSUME NEW r \in Requests, TakeStep(r) \/ RunJob(r)
      PROVE  CInv'
  BY <1>2, TakeStepBooks, RunJobBooks
<1>3. CASE PoolStep \/ UNCHANGED vars
  <2>1. UNCHANGED crashes /\ \A q \in Requests : Still(q)
    BY <1>3 DEF PoolStep, EndCooldown, RefreshPool, Outside, vars, requestVars, booksVars, Still
  <2>2. QED
    BY <2>1, StillBooks, CInvIsBooks, BooksAreCInv
<1>4. CASE Crash
  BY <1>4, CrashBooks
<1>5. QED
  BY <1>1, <1>2, <1>3, <1>4 DEF Next, PoolStep

(* The places of a closer, counted. *)
LEMMA ClosersCounted ==
  ASSUME NEW r \in Requests
  PROVE  LET places == {i \in 1..Len(todo[r]) : todo[r][i] \in Closers}
         IN  /\ NoCloser(todo[r]) => Cardinality(places) = 0
             /\ OneCloser(todo[r]) => Cardinality(places) = 1
<1> DEFINE places == {i \in 1..Len(todo[r]) : todo[r][i] \in Closers}
<1>1. ASSUME NoCloser(todo[r])
      PROVE  Cardinality(places) = 0
  <2>1. places = {}
    BY <1>1 DEF NoCloser
  <2>2. QED
    BY <2>1, FS_EmptySet
<1>2. ASSUME OneCloser(todo[r])
      PROVE  Cardinality(places) = 1
  <2>1. PICK i : places = {i}
    BY <1>2 DEF OneCloser
  <2>2. QED
    BY <2>1, FS_Singleton
<1>3. QED
  BY <1>1, <1>2

(* A request that asked for a reservation and left is refunded or settled  *)
(* exactly once, and one that never asked is not, whichever exits any      *)
(* number of requests take and however their goroutines interleave         *)
(* (handler.go:200, 231, 320, 340, 417, 537, 650, 751, 926; billing.go:170).    *)
THEOREM RelayClosedOnce == Spec => []ClosedOnce
<1>1. Init => CInv
  <2>1. NoCloser(<<>>)
    BY DEF NoCloser
  <2>2. ASSUME Init, NEW r \in Requests
        PROVE  BooksOf(r)
    BY <2>1, <2>2 DEF Init, BooksOf, Due, NoneToCome, JobClosers, Asking, Holding
  <2>3. QED
    BY <2>2, CInvIsBooks
<1>2. ASSUME CInv, Shape
      PROVE  ClosedOnce
  <2> SUFFICES ASSUME NEW r \in Requests
               PROVE  LET due == IF Due(r) THEN 1 ELSE 0
                      IN  /\ closings[r] + Closing(r) <= due
                          /\ crashes = 0 => closings[r] + Closing(r) = due
    BY DEF ClosedOnce, Due
  <2>1. BooksOf(r)
    BY <1>2, CInvIsBooks
  <2> DEFINE places == Cardinality({i \in 1..Len(todo[r]) : todo[r][i] \in Closers})
  <2>2. /\ NoneToCome(r) => Closing(r) = 0
        /\ NoCloser(todo[r]) /\ (\E j : JobClosers(r) = {j}) => Closing(r) = 1
        /\ OneCloser(todo[r]) /\ JobClosers(r) = {} => Closing(r) = 1
    <3>1. Closing(r) = places + Cardinality(JobClosers(r))
      BY DEF Closing, Closers, JobClosers
    <3>2. /\ NoCloser(todo[r]) => places = 0
          /\ OneCloser(todo[r]) => places = 1
      BY ClosersCounted
    <3>3. /\ JobClosers(r) = {} => Cardinality(JobClosers(r)) = 0
          /\ (\E j : JobClosers(r) = {j}) => Cardinality(JobClosers(r)) = 1
      BY FS_EmptySet, FS_Singleton
    <3> HIDE DEF places
    <3>4. QED
      BY <3>1, <3>2, <3>3 DEF NoneToCome
  <2>3. crashes \in Nat /\ closings[r] \in Nat
    BY <1>2 DEF Shape, TypeOK
  <2>4. CASE ~Due(r)
    BY <2>1, <2>2, <2>3, <2>4 DEF BooksOf
  <2>5. CASE Due(r)
    <3>1. ClosingOnce(r)
      BY <2>1, <2>5 DEF BooksOf
    <3>2. \/ closings[r] = 0 /\ Closing(r) = 1
          \/ closings[r] = 1 /\ Closing(r) = 0
          \/ closings[r] = 0 /\ Closing(r) = 0 /\ crashes > 0
      BY <2>2, <3>1 DEF ClosingOnce
    <3>3. QED
      BY <2>3, <2>5, <3>2
  <2>6. QED
    BY <2>4, <2>5
<1>3. AInv => Shape
  BY DEF AInv, IInv
<1>4. QED
  BY <1>1, <1>2, <1>3, NextCInv, SpecAInv, PTL DEF Spec

=============================================================================
