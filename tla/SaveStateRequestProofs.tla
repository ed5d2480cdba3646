----------------------- MODULE SaveStateRequestProofs -----------------------
(***************************************************************************)
(* What holds of every save-state request, for any number of requests of   *)
(* any kinds, of calls and of sessions: it is never lost and never handled *)
(* twice, its outcome is reported once, delivered at most once and says    *)
(* the truth, and the mirror that a cancel reads never shows a gap.        *)
(***************************************************************************)
EXTENDS SaveStateRequest, TLAPS

(* Which thread-local values are in use, by program counter. *)
Shape ==
  /\ loc # None => pc = "dispatch"
  /\ cur # None <=> pc \in {"drop", "begin", "mark", "execute", "notify"}
  /\ del # None <=> pc = "deliver"
  /\ fcur # None <=> fpc \in {"notify", "refuse"}
  /\ fdel # None <=> fpc \in {"deliver", "refused"}

(* A request that is about to lose the mirror is the only one pending. *)
MirrorInv ==
  /\ MirrorCovers
  /\ pc \in {"drop", "begin"} => req = None

(* What RunLoop knows of the request it is resolving. *)
OutcomeInv ==
  /\ pc = "drop" => out = "TransientFailure"
  /\ pc \in {"drop", "begin", "mark", "execute"} => cur \notin ran
  /\ pc = "notify" => (cur \in ran <=> out # "TransientFailure")
  /\ \A r \in Requests : told[r] # None <=> reports[r] # 0
  /\ \A r \in ran : reports[r] # 0 \/ (cur = r /\ pc = "notify")
  /\ OutcomeTruthful

(* save_state_executing is set while the outcome is not yet reported. *)
ExecutingInv ==
  /\ pc = "execute" => executing
  /\ (pc = "notify" /\ cur \in ran) => executing

(* A program that has not booted yet has nothing on its way. *)
LEMMA InitInv == Init => TypeOK /\ Shape /\ OneOwner /\ DeliveredOnce /\ MirrorInv
                         /\ OutcomeInv /\ ExecutingInv
<1>1. Init => FlagsOK
  BY Zenon DEF Init, FlagsOK
<1>2. Init => ValuesOK /\ Shape /\ OneOwner /\ DeliveredOnce
  BY RequestAssumption DEF Init, ValuesOK, Shape, OneOwner, OnTheWay, At, DeliveredOnce,
                           Signals, Outcomes
<1>3. Init => MirrorInv /\ OutcomeInv /\ ExecutingInv
  BY RequestAssumption DEF Init, MirrorInv, MirrorCovers, OutcomeInv, OutcomeTruthful,
                           ExecutingInv, Signals, Outcomes
<1>. QED
  BY <1>1, <1>2, <1>3 DEF TypeOK

(* Every step keeps the flags Boolean. *)
LEMMA FlagsStep ==
  ASSUME FlagsOK, [Next]_vars
  PROVE  FlagsOK'
<1> USE DEF FlagsOK, core, outlet, loop
<1>1. CASE UNCHANGED vars
  BY <1>1 DEF vars
<1>2. CASE LoopHead
  BY <1>2 DEF LoopHead
<1>3. CASE Unpark
  BY <1>3 DEF Unpark
<1>4. CASE Wait
  BY <1>4 DEF Wait
<1>5. CASE WakeSpuriously
  BY <1>5 DEF WakeSpuriously
<1>6. CASE DeadSignal
  BY <1>6 DEF DeadSignal
<1>7. CASE DeadRequest
  BY <1>7 DEF DeadRequest
<1>8. CASE CancelCheck
  BY <1>8 DEF CancelCheck
<1>9. CASE Drop
  BY <1>9 DEF Drop
<1>10. CASE Begin
  BY <1>10 DEF Begin
<1>11. CASE Mark
  BY <1>11 DEF Mark
<1>12. CASE RunCores
  BY <1>12 DEF RunCores
<1>13. CASE Consume
  BY <1>13 DEF Consume
<1>14. CASE Dispatch
  BY <1>14 DEF Dispatch
<1>15. CASE Resolve
  BY <1>15 DEF Resolve
<1>16. CASE Notify
  BY <1>16 DEF Notify
<1>17. CASE Deliver
  BY <1>17 DEF Deliver
<1>18. CASE \E success \in BOOLEAN : Execute(success)
  BY <1>18 DEF Execute
<1>19. CASE Insert
  BY <1>19 DEF Insert
<1>20. CASE \E success \in BOOLEAN : Boot(success)
  BY <1>20 DEF Boot
<1>21. CASE DeadlinePasses
  BY <1>21 DEF DeadlinePasses
<1>22. CASE ArmCancel
  BY <1>22 DEF ArmCancel
<1>23. CASE FrontNotify
  BY <1>23 DEF FrontNotify
<1>24. CASE FrontDeliver
  BY <1>24 DEF FrontDeliver
<1>25. CASE NotifyAll
  BY <1>25 DEF NotifyAll
<1>26. CASE RequestShutdown
  BY <1>26 DEF RequestShutdown
<1>27. CASE RequestReset
  BY <1>27 DEF RequestReset
<1>28. CASE Cancel
  BY <1>28 DEF Cancel
<1>29. CASE Stop
  BY <1>29 DEF Stop
<1>30. CASE \E r \in Requests : SendRequest(r)
  BY <1>30 DEF SendRequest
<1>31. CASE \E b \in BOOLEAN : Pause(b)
  BY <1>31 DEF Pause
<1>32. CASE \E b \in BOOLEAN : SetSaveStateCallback(b)
  BY <1>32 DEF SetSaveStateCallback
<1>. QED
  BY <1>1, <1>2, <1>3, <1>4, <1>5, <1>6, <1>7, <1>8, <1>9, <1>10, <1>11, <1>12, <1>13,
     <1>14, <1>15, <1>16, <1>17, <1>18, <1>19, <1>20, <1>21, <1>22, <1>23, <1>24,
     <1>25, <1>26, <1>27, <1>28, <1>29, <1>30, <1>31, <1>32
     DEF Next, EmulationStep, FrontendGoesOn, FrontendCall

(* Every step keeps the types of the values and the shape. *)
LEMMA ValuesStep ==
  ASSUME ValuesOK, Shape, [Next]_vars
  PROVE  ValuesOK' /\ Shape'
<1> USE RequestAssumption
    DEF ValuesOK, Shape, Signals, Outcomes, Goto, Report, Call, core, outlet, loop, emu,
        front, history
<1>1. CASE UNCHANGED vars
  BY <1>1 DEF vars
<1>2. CASE LoopHead
  BY <1>2 DEF LoopHead
<1>3. CASE Unpark \/ Wait \/ WakeSpuriously \/ NotifyAll
  BY <1>3 DEF Unpark, Wait, WakeSpuriously, NotifyAll
<1>4. CASE DeadSignal
  BY <1>4 DEF DeadSignal
<1>5. CASE DeadRequest
  BY <1>5 DEF DeadRequest
<1>6. CASE CancelCheck
  BY <1>6 DEF CancelCheck
<1>7. CASE Drop
  BY <1>7 DEF Drop
<1>8. CASE Begin
  BY <1>8 DEF Begin
<1>9. CASE Mark
  BY <1>9 DEF Mark
<1>10. CASE RunCores
  BY <1>10 DEF RunCores
<1>11. CASE Consume
  BY <1>11 DEF Consume
<1>12. CASE Dispatch
  BY <1>12 DEF Dispatch
<1>13. CASE Resolve
  BY <1>13 DEF Resolve
<1>14. CASE \E success \in BOOLEAN : Execute(success)
  BY <1>14 DEF Execute
<1>15. CASE Notify
  BY <1>15 DEF Notify
<1>16. CASE Deliver
  BY <1>16 DEF Deliver
<1>17. CASE Insert \/ \E success \in BOOLEAN : Boot(success)
  <2>1. CASE Insert
    BY <2>1 DEF Insert
  <2>2. CASE \E success \in BOOLEAN : Boot(success)
    BY <2>2 DEF Boot
  <2> QED BY <1>17, <2>1, <2>2
<1>18. CASE DeadlinePasses
  BY <1>18 DEF DeadlinePasses
<1>19. CASE ArmCancel
  BY <1>19 DEF ArmCancel
<1>20. CASE FrontNotify
  BY <1>20 DEF FrontNotify
<1>21. CASE FrontDeliver
  BY <1>21 DEF FrontDeliver
<1>22. CASE RequestShutdown
  BY <1>22 DEF RequestShutdown
<1>23. CASE RequestReset
  BY <1>23 DEF RequestReset
<1>24. CASE \E r \in Requests : SendRequest(r)
  BY <1>24 DEF SendRequest
<1>25. CASE Cancel
  BY <1>25 DEF Cancel
<1>26. CASE Stop
  BY <1>26 DEF Stop
<1>27. CASE \E b \in BOOLEAN : Pause(b)
  BY <1>27 DEF Pause
<1>28. CASE \E b \in BOOLEAN : SetSaveStateCallback(b)
  BY <1>28 DEF SetSaveStateCallback
<1>. QED
  BY <1>1, <1>2, <1>3, <1>4, <1>5, <1>6, <1>7, <1>8, <1>9, <1>10, <1>11, <1>12,
     <1>13, <1>14, <1>15, <1>16, <1>17, <1>18, <1>19, <1>20, <1>21, <1>22, <1>23,
     <1>24, <1>25, <1>26, <1>27, <1>28
     DEF Next, EmulationStep, FrontendGoesOn, FrontendCall

(* A step moves a request from one place to the next, or overwrites it, or  *)
(* reports it.                                                              *)
LEMMA OwnerStep ==
  ASSUME ValuesOK, Shape, OneOwner, [Next]_vars
  PROVE  OneOwner'
<1> USE RequestAssumption
    DEF ValuesOK, Shape, Signals, Outcomes, Goto, Report, Call, core, outlet, loop, emu,
        front, history,
        OneOwner, OnTheWay, At
<1>1. CASE UNCHANGED vars
  BY <1>1 DEF vars
<1>2. CASE LoopHead \/ Unpark \/ Wait \/ WakeSpuriously \/ NotifyAll \/ Insert \/ Drop \/ Begin \/ Mark \/ RunCores \/ Deliver \/
           DeadlinePasses \/ ArmCancel \/ FrontDeliver \/ Stop \/ (\E success \in
           BOOLEAN : Execute(success)) \/ (\E success \in BOOLEAN :
           Boot(success)) \/ (\E b \in BOOLEAN : Pause(b)) \/ (\E b \in BOOLEAN :
           SetSaveStateCallback(b))
  <2>1. UNCHANGED <<sig, loc, req, cur, fcur, reports, replaced, sent>>
    BY <1>2 DEF LoopHead, Unpark, Wait, WakeSpuriously, NotifyAll, Drop, Begin, Mark, RunCores, Execute, Deliver,
       Insert, Boot, DeadlinePasses, ArmCancel, FrontDeliver, Stop, Pause,
       SetSaveStateCallback
  <2>. QED
    BY <2>1
<1>3. CASE DeadSignal
  BY <1>3 DEF DeadSignal
<1>4. CASE DeadRequest
  BY <1>4 DEF DeadRequest
<1>5. CASE CancelCheck
  <2>1. CASE cancel /\ req # None
    BY <1>5, <2>1 DEF CancelCheck
  <2>2. CASE ~(cancel /\ req # None)
    BY <1>5, <2>2 DEF CancelCheck
  <2>. QED
    BY <2>1, <2>2
<1>6. CASE Consume
  BY <1>6 DEF Consume
<1>7. CASE Dispatch
  BY <1>7 DEF Dispatch
<1>8. CASE Resolve
  BY <1>8 DEF Resolve
<1>9. CASE Notify
  BY <1>9 DEF Notify
<1>10. CASE FrontNotify
  BY <1>10 DEF FrontNotify
<1>11. CASE RequestShutdown
  BY <1>11 DEF RequestShutdown, Accepts, SameSignal
<1>12. CASE RequestReset
  BY <1>12 DEF RequestReset, Accepts, SameSignal
<1>13. CASE \E r \in Requests : SendRequest(r)
  <2>1. PICK r \in Requests : SendRequest(r)
    BY <1>13
  <2>2. CASE Accepts(r)
    <3>1. sig \in Requests \cup {None} /\ sig' = r /\ r \notin sent
          /\ sent' = sent \cup {r} /\ UNCHANGED <<loc, req, cur, fcur, reports>>
          /\ replaced' = IF sig \in Requests THEN replaced \cup {sig} ELSE replaced
      BY <2>1, <2>2 DEF SendRequest, Accepts, SameSignal
    <3>2. SUFFICES ASSUME NEW x \in Requests
                   PROVE  OnTheWay(x)' + reports'[x] + (IF x \in replaced' THEN 1 ELSE 0)
                            = IF x \in sent' THEN 1 ELSE 0
      OBVIOUS
    <3>3. OnTheWay(x) + reports[x] + (IF x \in replaced THEN 1 ELSE 0)
            = IF x \in sent THEN 1 ELSE 0
      OBVIOUS
    <3>4. reports[x] \in Nat
      OBVIOUS
    <3>5. CASE x = r
      <4>1. /\ sig # r /\ loc # r /\ req # r /\ cur # r /\ fcur # r
            /\ reports[r] = 0 /\ r \notin replaced
        <5>1. r \notin sent
          BY <3>1
        <5>2. reports[r] \in Nat
          BY <3>4, <3>5
        <5>3. At(sig, r) + At(loc, r) + At(req, r) + At(cur, r) + At(fcur, r) + reports[r]
                + (IF r \in replaced THEN 1 ELSE 0) = 0
          BY <3>3, <3>5, <5>1
        <5> QED BY ONLY <5>2, <5>3 DEF At
      <4>2. /\ sig' = r /\ loc' # r /\ req' # r /\ cur' # r /\ fcur' # r
            /\ reports'[r] = 0 /\ r \notin replaced' /\ r \in sent'
        BY <3>1, <4>1
      <4> QED BY <3>5, <4>2
    <3>6. CASE x # r /\ x = sig
      BY <3>1, <3>3, <3>4, <3>6
    <3>7. CASE x # r /\ x # sig
      BY <3>1, <3>3, <3>4, <3>7
    <3>. QED
      BY <3>5, <3>6, <3>7
  <2>3. CASE ~Accepts(r)
    BY <2>1, <2>3 DEF SendRequest
  <2>. QED
    BY <2>2, <2>3
<1>14. CASE Cancel
  BY <1>14 DEF Cancel
<1>. QED
  BY <1>1, <1>2, <1>3, <1>4, <1>5, <1>6, <1>7, <1>8, <1>9, <1>10, <1>11, <1>12,
     <1>13, <1>14
     DEF Next, EmulationStep, FrontendGoesOn, FrontendCall

(* A callback is called, or an outcome latched, only after a report that    *)
(* had none yet.                                                            *)
LEMMA DeliveredStep ==
  ASSUME ValuesOK, Shape, OneOwner, DeliveredOnce, [Next]_vars
  PROVE  DeliveredOnce'
<1> USE RequestAssumption
    DEF ValuesOK, Shape, Signals, Outcomes, Goto, Report, Call, core, outlet, loop, emu,
        front, history,
        OneOwner, OnTheWay, At, DeliveredOnce
<1>1. CASE UNCHANGED vars
  BY <1>1 DEF vars
<1>2. CASE LoopHead \/ Unpark \/ Wait \/ WakeSpuriously \/ NotifyAll \/ Insert \/ DeadSignal \/ DeadRequest \/ CancelCheck \/ Drop
           \/ Begin \/ Mark \/ RunCores \/ Consume \/ Dispatch \/ Resolve \/
           DeadlinePasses \/ ArmCancel \/ RequestShutdown \/ RequestReset \/
           Cancel \/ Stop \/ (\E success \in BOOLEAN : Execute(success)) \/ (\E
           success \in BOOLEAN : Boot(success)) \/ (\E r \in Requests :
           SendRequest(r)) \/ (\E b \in BOOLEAN : Pause(b))
  <2>1. UNCHANGED <<del, fdel, latch, reports, delivered>>
    BY <1>2 DEF LoopHead, Unpark, Wait, WakeSpuriously, NotifyAll, DeadSignal, DeadRequest, CancelCheck, Drop, Begin,
       Mark, RunCores, Consume, Dispatch, Resolve, Execute, Insert, Boot, DeadlinePasses,
       ArmCancel, RequestShutdown, RequestReset, SendRequest, Cancel, Stop, Pause
  <2>. QED
    BY <2>1
<1>3. CASE Notify
  BY <1>3 DEF Notify
<1>4. CASE Deliver
  BY <1>4 DEF Deliver
<1>5. CASE FrontNotify
  BY <1>5 DEF FrontNotify
<1>6. CASE FrontDeliver
  BY <1>6 DEF FrontDeliver
<1>7. CASE \E b \in BOOLEAN : SetSaveStateCallback(b)
  BY <1>7 DEF SetSaveStateCallback
<1>. QED
  BY <1>1, <1>2, <1>3, <1>4, <1>5, <1>6, <1>7
     DEF Next, EmulationStep, FrontendGoesOn, FrontendCall

(* What OneOwner says of a request on its way: it was not reported, and     *)
(* RunLoop does not resolve it while it is somewhere else.                  *)
LEMMA Fresh ==
  ASSUME ValuesOK, OneOwner
  PROVE  \A r \in Requests :
           /\ r \in {sig, loc, req, cur, fcur} => reports[r] = 0
           /\ r \in {sig, loc, req, fcur} => cur # r
<1> SUFFICES ASSUME NEW r \in Requests
             PROVE  /\ r \in {sig, loc, req, cur, fcur} => reports[r] = 0
                    /\ r \in {sig, loc, req, fcur} => cur # r
  OBVIOUS
<1>1. reports[r] \in Nat
  BY DEF ValuesOK
<1>2. At(sig, r) + At(loc, r) + At(req, r) + At(cur, r) + At(fcur, r) + reports[r] <= 1
  BY <1>1 DEF OneOwner, OnTheWay, At
<1>3. r \in {sig, loc, req, cur, fcur} => reports[r] = 0
  BY <1>1, <1>2 DEF At
<1>4. r \in {sig, loc, req, fcur} => cur # r
  BY <1>1, <1>2 DEF At
<1>. QED
  BY <1>3, <1>4

(* The mirror is set with the consumption and cleared with the last pending *)
(* request.                                                                 *)
LEMMA MirrorStep ==
  ASSUME ValuesOK, Shape, MirrorInv, [Next]_vars
  PROVE  MirrorInv'
<1> USE RequestAssumption
    DEF ValuesOK, Shape, Signals, Outcomes, Goto, Report, Call, core, outlet, loop, emu,
        front, history,
        MirrorInv, MirrorCovers
<1>1. CASE UNCHANGED vars
  BY <1>1 DEF vars
<1>2. CASE LoopHead \/ Unpark \/ Wait \/ WakeSpuriously \/ NotifyAll \/ Insert \/ Mark \/ RunCores \/ Notify \/ Deliver \/
           DeadlinePasses \/ ArmCancel \/ FrontNotify \/ FrontDeliver \/
           RequestShutdown \/ RequestReset \/ Cancel \/ Stop \/ (\E success \in
           BOOLEAN : Execute(success)) \/ (\E success \in BOOLEAN :
           Boot(success)) \/ (\E r \in Requests : SendRequest(r)) \/ (\E b \in
           BOOLEAN : Pause(b)) \/ (\E b \in BOOLEAN : SetSaveStateCallback(b))
  <2>1. UNCHANGED <<loc, req, pending>> /\ (pc' \in {"drop", "begin"} => pc = pc')
    BY <1>2 DEF LoopHead, Unpark, Wait, WakeSpuriously, NotifyAll, Mark, RunCores, Execute, Notify, Deliver, Insert, Boot,
       DeadlinePasses, ArmCancel, FrontNotify, FrontDeliver, RequestShutdown,
       RequestReset, SendRequest, Cancel, Stop, Pause, SetSaveStateCallback
  <2>. QED
    BY <2>1
<1>3. CASE DeadRequest
  BY <1>3 DEF DeadRequest
<1>4. CASE CancelCheck
  BY <1>4 DEF CancelCheck
<1>5. CASE Drop
  BY <1>5 DEF Drop
<1>6. CASE Begin
  BY <1>6 DEF Begin
<1>7. CASE Consume
  BY <1>7 DEF Consume
<1>8. CASE Dispatch
  BY <1>8 DEF Dispatch
<1>9. CASE Resolve
  BY <1>9 DEF Resolve
<1>10. CASE DeadSignal
  BY <1>10 DEF DeadSignal
<1>. QED
  BY <1>1, <1>2, <1>3, <1>4, <1>5, <1>6, <1>7, <1>8, <1>9, <1>10
     DEF Next, EmulationStep, FrontendGoesOn, FrontendCall

(* The outcome told is that of what was done. *)
LEMMA OutcomeStep ==
  ASSUME ValuesOK, Shape, OneOwner, OutcomeInv, [Next]_vars
  PROVE  OutcomeInv'
<1> USE RequestAssumption, Fresh
    DEF ValuesOK, Shape, Signals, Outcomes, Goto, Report, Call, core, outlet, loop, emu,
        front, history,
        OutcomeInv, OutcomeTruthful
<1>1. CASE UNCHANGED vars
  BY <1>1 DEF vars
<1>2. CASE LoopHead \/ Unpark \/ Wait \/ WakeSpuriously \/ NotifyAll \/ Insert \/ RunCores \/ Consume \/ Deliver \/ DeadlinePasses
           \/ ArmCancel \/ FrontDeliver \/ RequestShutdown \/ RequestReset \/
           Cancel \/ Stop \/ (\E success \in BOOLEAN : Boot(success)) \/ (\E r
           \in Requests : SendRequest(r)) \/ (\E b \in BOOLEAN : Pause(b)) \/ (\E
           b \in BOOLEAN : SetSaveStateCallback(b))
  <2>1. /\ UNCHANGED <<cur, ran, told, reports>>
        /\ pc' \notin {"drop", "begin", "mark", "execute", "notify"} \/ UNCHANGED <<pc, out>>
        /\ pc = "notify" => pc' = "notify"
    BY <1>2 DEF LoopHead, Unpark, Wait, WakeSpuriously, NotifyAll, RunCores, Consume, Deliver, Insert, Boot, DeadlinePasses,
       ArmCancel, FrontDeliver, RequestShutdown, RequestReset, SendRequest, Cancel,
       Stop, Pause, SetSaveStateCallback
  <2>. QED
    BY <2>1
<1>3. CASE DeadSignal
  BY <1>3 DEF DeadSignal
<1>4. CASE DeadRequest
  BY <1>4 DEF DeadRequest
<1>5. CASE CancelCheck
  <2>1. CASE cancel /\ req # None
    BY <1>5, <2>1 DEF CancelCheck
  <2>2. CASE ~(cancel /\ req # None)
    BY <1>5, <2>2 DEF CancelCheck
  <2>. QED
    BY <2>1, <2>2
<1>6. CASE Dispatch
  BY <1>6 DEF Dispatch
<1>7. CASE Resolve
  <2>1. CASE req # None /\ ~async
    BY <1>7, <2>1 DEF Resolve
  <2>2. CASE ~(req # None /\ ~async) /\ req # None /\ expired
    BY <1>7, <2>2 DEF Resolve
  <2>3. CASE ~(req # None /\ ~async) /\ ~(req # None /\ expired)
    BY <1>7, <2>3 DEF Resolve
  <2>. QED
    BY <2>1, <2>2, <2>3
<1>8. CASE \E success \in BOOLEAN : Execute(success)
  BY <1>8 DEF Execute
<1>9. CASE Notify
  <2>1. /\ cur \in Requests /\ out \in Outcomes
        /\ told' = [told EXCEPT ![cur] = out]
        /\ reports' = [reports EXCEPT ![cur] = @ + 1]
        /\ pc' \notin {"drop", "begin", "mark", "execute", "notify"}
        /\ UNCHANGED ran
        /\ cur \in ran <=> out # "TransientFailure"
    BY <1>9 DEF Notify
  <2>2. \A r \in Requests : told'[r] # None <=> reports'[r] # 0
    BY <2>1
  <2>3. \A r \in ran' : reports'[r] # 0
    BY <2>1
  <2>4. OutcomeTruthful'
    BY <2>1
  <2>. QED
    BY <2>1, <2>2, <2>3, <2>4
<1>10. CASE FrontNotify
  <2>1. /\ fcur \in Requests /\ fcur # cur /\ reports[fcur] = 0
        /\ told' = [told EXCEPT ![fcur] = "TransientFailure"]
        /\ reports' = [reports EXCEPT ![fcur] = @ + 1]
        /\ UNCHANGED <<ran, cur, pc, out>>
    BY <1>10 DEF FrontNotify
  <2>2. fcur \notin ran
    BY <2>1
  <2>3. \A r \in Requests : told'[r] # None <=> reports'[r] # 0
    BY <2>1
  <2>4. \A r \in ran' : reports'[r] # 0 \/ (cur' = r /\ pc' = "notify")
    BY <2>1
  <2>5. OutcomeTruthful'
    BY <2>1, <2>2
  <2>. QED
    BY <2>1, <2>3, <2>4, <2>5
<1>11. CASE Drop
  BY <1>11 DEF Drop
<1>12. CASE Begin
  BY <1>12 DEF Begin
<1>13. CASE Mark
  BY <1>13 DEF Mark
<1>. QED
  BY <1>1, <1>2, <1>3, <1>4, <1>5, <1>6, <1>7, <1>8, <1>9, <1>10, <1>11, <1>12,
     <1>13
     DEF Next, EmulationStep, FrontendGoesOn, FrontendCall

(* The flag is set before the call and cleared after the report. *)
LEMMA ExecutingStep ==
  ASSUME ValuesOK, Shape, OneOwner, OutcomeInv, ExecutingInv, [Next]_vars
  PROVE  ExecutingInv'
<1> USE RequestAssumption, Fresh
    DEF ValuesOK, Shape, Signals, Outcomes, Goto, Report, Call, core, outlet, loop, emu,
        front, history,
        OutcomeInv, ExecutingInv
<1>1. CASE UNCHANGED vars
  BY <1>1 DEF vars
<1>2. CASE LoopHead \/ Unpark \/ Wait \/ WakeSpuriously \/ NotifyAll \/ Insert \/ RunCores \/ Consume \/ Deliver \/ DeadlinePasses
           \/ ArmCancel \/ FrontDeliver \/ RequestShutdown \/ RequestReset \/
           Cancel \/ Stop \/ (\E success \in BOOLEAN : Boot(success)) \/ (\E r
           \in Requests : SendRequest(r)) \/ (\E b \in BOOLEAN : Pause(b)) \/ (\E
           b \in BOOLEAN : SetSaveStateCallback(b))
  <2>1. /\ UNCHANGED <<cur, ran>>
        /\ pc' \notin {"execute", "notify"} \/ UNCHANGED <<pc, executing>>
    BY <1>2 DEF LoopHead, Unpark, Wait, WakeSpuriously, NotifyAll, RunCores, Consume, Deliver, Insert, Boot, DeadlinePasses,
       ArmCancel, FrontDeliver, RequestShutdown, RequestReset, SendRequest, Cancel,
       Stop, Pause, SetSaveStateCallback
  <2>. QED
    BY <2>1
<1>3. CASE DeadSignal
  BY <1>3 DEF DeadSignal
<1>4. CASE DeadRequest
  BY <1>4 DEF DeadRequest
<1>5. CASE CancelCheck
  <2>1. CASE cancel /\ req # None
    BY <1>5, <2>1 DEF CancelCheck
  <2>2. CASE ~(cancel /\ req # None)
    BY <1>5, <2>2 DEF CancelCheck
  <2>. QED
    BY <2>1, <2>2
<1>6. CASE Dispatch
  BY <1>6 DEF Dispatch
<1>7. CASE Resolve
  <2>1. CASE req # None /\ ~async
    BY <1>7, <2>1 DEF Resolve
  <2>2. CASE ~(req # None /\ ~async) /\ req # None /\ expired
    BY <1>7, <2>2 DEF Resolve
  <2>3. CASE ~(req # None /\ ~async) /\ ~(req # None /\ expired)
    BY <1>7, <2>3 DEF Resolve
  <2>. QED
    BY <2>1, <2>2, <2>3
<1>8. CASE \E success \in BOOLEAN : Execute(success)
  BY <1>8 DEF Execute
<1>9. CASE Notify
  BY <1>9 DEF Notify
<1>10. CASE FrontNotify
  BY <1>10 DEF FrontNotify
<1>11. CASE Drop
  BY <1>11 DEF Drop
<1>12. CASE Begin
  BY <1>12 DEF Begin
<1>13. CASE Mark
  BY <1>13 DEF Mark
<1>. QED
  BY <1>1, <1>2, <1>3, <1>4, <1>5, <1>6, <1>7, <1>8, <1>9, <1>10, <1>11, <1>12,
     <1>13
     DEF Next, EmulationStep, FrontendGoesOn, FrontendCall

-----------------------------------------------------------------------------
(* The inductive invariant. *)
IInv == TypeOK /\ Shape /\ OneOwner /\ DeliveredOnce /\ MirrorInv /\ OutcomeInv /\ ExecutingInv

(* The inductive invariant of the request protocol. *)
LEMMA Inductive == Spec => []IInv
<1>1. Init => IInv
  BY InitInv DEF IInv
<1>2. IInv /\ [Next]_vars => IInv'
  BY FlagsStep, ValuesStep, OwnerStep, DeliveredStep, MirrorStep, OutcomeStep, ExecutingStep
     DEF IInv, TypeOK
<1>. QED
  BY <1>1, <1>2, PTL DEF Spec

(* Every variable keeps its type, for any constants. *)
THEOREM TypeCorrect == Spec => []TypeOK
<1>1. IInv => TypeOK
  BY DEF IInv
<1>. QED
  BY <1>1, Inductive, PTL

(* SendSignal, CancelPendingSaveStateOperation and RunLoop lose no request  *)
(* (but the ones overwritten in the queue) and report none twice.           *)
THEOREM RequestsConserved == Spec => []OneOwner
<1>1. IInv => OneOwner
  BY DEF IInv
<1>. QED
  BY <1>1, Inductive, PTL

(* NotifySaveStateResult and SetSaveStateCallback hand no outcome to the    *)
(* frontend twice.                                                          *)
THEOREM DeliveredAtMostOnce == Spec => []DeliveredOnce
<1>1. IInv => DeliveredOnce
  BY DEF IInv
<1>. QED
  BY <1>1, Inductive, PTL

(* While RunLoop has a consumed request, the mirror that a cancel reads is  *)
(* set.                                                                     *)
THEOREM CancelSeesNoGap == Spec => []MirrorCovers
<1>1. IInv => MirrorCovers
  BY DEF IInv, MirrorInv
<1>. QED
  BY <1>1, Inductive, PTL

(* A TransientFailure is only told of a request that was not executed, a    *)
(* Success or PermanentFailure only of one that was.                        *)
THEOREM OutcomesTruthful == Spec => []OutcomeTruthful
<1>1. IInv => OutcomeTruthful
  BY DEF IInv, OutcomeInv
<1>. QED
  BY <1>1, Inductive, PTL

(* save_state_executing covers every operation until its outcome is         *)
(* reported.                                                                *)
THEOREM ExecutingIsVisible == Spec => []ExecutingVisible
<1>1. IInv => ExecutingVisible
  BY DEF IInv, OutcomeInv, ExecutingInv, ExecutingVisible
<1>. QED
  BY <1>1, Inductive, PTL

=============================================================================
