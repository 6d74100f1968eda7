-------------------------- MODULE ExtensionProofs --------------------------
(***************************************************************************)
(* Extension sessions, for every number of frames and requests and every   *)
(* interleaving of main loop, reader, writer and handler; and the hosts,   *)
(* for every number of sessions, managers, slots, edits and faults.        *)
(***************************************************************************)
EXTENDS ExtensionHost, ExtensionRequests, TLAPS, SequenceTheorems

----------------------------------------------------------------------------
(* The requests of one session: types. *)

FrameSet == [kind : {"request", "cancel", "bad", "eof"}, id : Nat, mut : BOOLEAN]
EventOK(e)  == e.frame \in FrameSet /\ e.seq \in Nat
Causes   == Interrupts \cup {"none", "unavailable_module", "invalid_input"}
Outcomes == Causes \cup {"running", "completed", "uncertain_operation", "refused", "admission_pending",
                       "repository_error", "invalid_response"}

XrTypeOK ==
  /\ xrPipe \in Seq(FrameSet)
  /\ xrSent.frames \in Nat /\ xrSent.requests \in Nat
  /\ xrConforms \in BOOLEAN
  /\ xrReader.seq \in Nat /\ (xrReader.event = NoEvent \/ EventOK(xrReader.event))
  /\ xrFrames = <<>> \/ (xrFrames = <<xrFrames[1]>> /\ EventOK(xrFrames[1]))
  /\ xrPc \in {"idle", "admit", "waiting", "joining", "writing", "closing", "ended"}
  /\ xrReq.id \in Nat /\ (xrPending = NoEvent \/ EventOK(xrPending))
  /\ xrCause \in Causes /\ xrSeen \subseteq Nat
  /\ xrWriter.state \in {"none", "body", "tail", "written", "failed"}
  /\ xrWriter.offered.seq \in Nat
  /\ xrCall.state \in {"none", "running", "done"}
  /\ xrCall.err \in {"none", "refused", "denied_access"} \cup AfterAppend
  /\ xrEffects \subseteq Nat /\ xrAnswered \subseteq Nat
  /\ xrOutcome \in Outcomes

\* Which threads exist while the main loop is where it is.
ThreadsFollowMain ==
  /\ xrPc \in {"idle", "admit"} => xrCall = NoCall /\ xrWriter = NoWriter
  /\ xrPc \in {"waiting", "joining"} => xrCall.state # "none" /\ xrWriter = NoWriter
  /\ xrPc \in {"writing", "closing"} => xrCall.state = "done" /\ xrWriter.state # "none"
  /\ xrPc = "ended" => xrCall.state # "running" /\ xrWriter.state \notin {"body", "tail"}
  /\ xrPc = "ended" <=> xrOutcome # "running"
  /\ xrCall.sent => xrCall.err # "denied_access"
  /\ xrCall.state = "running" => xrCall.sent

\* A response that was written, or joined, is that of the current request.
WrittenIsAnswered ==
  /\ xrPc \in {"admit", "waiting"} => ~xrSettled.set
  /\ xrWriter.state = "written" => xrReq.id \in xrAnswered
  /\ xrPc = "writing" /\ xrSettled.set => xrWriter.state = "written"

\* Only the current request may have an effect without an answer, and then its
\* handler has returned something that is no refusal.
OneUnsettled ==
  \A i \in xrEffects \ xrAnswered :
    /\ i = xrReq.id /\ xrReq.mut /\ xrCall.sent
    /\ xrCall.state = "done" /\ xrCall.err # "refused"
    /\ xrPc = "ended" => ReportsEffect(xrOutcome, xrCall.err)

EffectInv == XrTypeOK /\ ThreadsFollowMain /\ WrittenIsAnswered /\ OneUnsettled

\* Where a frame the module wrote may still be: held back, in the channel, with the
\* reader, in the pipe; and whether anything comes after it.
Live == xrPc \in {"idle", "admit", "waiting", "writing"}
AfterPending == xrFrames = <<>> /\ xrReader.event = NoEvent /\ xrPipe = <<>>
AfterChannel == xrReader.event = NoEvent /\ xrPipe = <<>>
Queued(f) ==
  \/ xrPending.frame = f \/ (xrFrames # <<>> /\ xrFrames[1].frame = f)
  \/ xrReader.event.frame = f \/ \E j \in 1..Len(xrPipe) : xrPipe[j] = f

\* The end of the output is the last frame.
EofIsLast ==
  /\ \A f \in FrameSet : f.kind = "eof" /\ Queued(f) => xrSent.frames >= MaxXrFrames
  /\ xrPending.frame.kind = "eof" => AfterPending
  /\ xrFrames # <<>> /\ xrFrames[1].frame.kind = "eof" => AfterChannel
  /\ xrReader.event.frame.kind = "eof" => xrPipe = <<>>
  /\ \A j \in 1..Len(xrPipe) : xrPipe[j].kind = "eof" => j = Len(xrPipe)

\* No request is forgotten: it was admitted or is still on its way; one that was
\* admitted is the current one or was answered.
RequestsAccounted ==
  /\ Live => \A i \in 1..xrSent.requests :
       i \in xrSeen \/ \E f \in FrameSet : f.kind = "request" /\ f.id = i /\ Queued(f)
  /\ Live => \A i \in xrSeen : i \in xrAnswered \/ (i = xrReq.id /\ xrPc # "idle")
  /\ xrOutcome = "completed" => \A i \in 1..xrSent.requests : i \in xrAnswered

\* What a conforming module may have under way: one frame, which is the first
\* unanswered request or the end of its output.
InOrder(f) ==
  \/ f.kind = "eof" /\ \A i \in 1..xrSent.requests : i \in xrAnswered
  \/ /\ f.kind = "request" /\ f.id = xrSent.requests /\ f.id # 0 /\ f.id \notin xrSeen \cup xrAnswered
     /\ \A i \in 1..xrSent.requests : i # f.id => i \in xrAnswered
ConformingQueue ==
  /\ Len(xrPipe) <= 1
  /\ xrPipe # <<>> => xrReader.event = NoEvent /\ xrFrames = <<>> /\ xrPending = NoEvent
  /\ xrReader.event # NoEvent => xrFrames = <<>> /\ xrPending = NoEvent
  /\ xrFrames # <<>> => xrPending = NoEvent
  /\ \A f \in FrameSet : Queued(f) => InOrder(f)
\* The current request is unanswered until the last byte of its response, and no
\* frame that comes later is older than the mark taken before that byte.
ConformingFrontier ==
  /\ xrSeen \cup xrAnswered \subseteq 1..xrSent.requests
  /\ xrPc \notin {"idle", "ended"} => xrReq.id \in xrSeen
  /\ xrPc \in {"admit", "waiting", "joining"} => xrReq.id \notin xrAnswered
  /\ xrWriter.state \in {"body", "tail", "failed"} /\ xrPc # "ended" => xrReq.id \notin xrAnswered
  /\ xrPc \in {"writing", "closing"} /\ xrWriter.state # "failed" =>
       (xrWriter.offered.set <=> xrWriter.state \in {"tail", "written"})
  /\ xrWriter.offered.set =>
       /\ xrReader.seq >= xrWriter.offered.seq
       /\ xrReader.event # NoEvent => xrReader.event.seq > xrWriter.offered.seq
       /\ xrFrames # <<>> => xrFrames[1].seq > xrWriter.offered.seq
  /\ xrCause # "invalid_input" /\ xrOutcome # "invalid_input"

ConformInv == xrConforms => ConformingQueue /\ ConformingFrontier

----------------------------------------------------------------------------

\* What the constructors of frames, events and marks return.
LEMMA FrameTypes ==
  ASSUME NEW k \in {"request", "cancel", "bad", "eof"}, NEW i \in Nat, NEW m \in BOOLEAN
  PROVE  /\ Frame(k, i, m) \in FrameSet
         /\ Frame(k, i, m).kind = k /\ Frame(k, i, m).id = i /\ Frame(k, i, m).mut = m
BY DEF Frame, FrameSet
LEMMA FrameFields ==
  ASSUME NEW f \in FrameSet
  PROVE  f.kind \in {"request", "cancel", "bad", "eof"} /\ f.id \in Nat /\ f # NoFrame
BY DEF FrameSet, NoFrame, Frame

\* Every step of the four threads, and every frame of the module, keeps the types.
LEMMA XrTypeStep == XrTypeOK /\ [RequestsNext]_requestVars => XrTypeOK'
<1> SUFFICES ASSUME XrTypeOK, [RequestsNext]_requestVars PROVE XrTypeOK'
  OBVIOUS
<1> USE DEF XrTypeOK, EventOK, xrOutside, Ends, MainGoto, MainHolds, xrMain
<1>a. ASSUME NEW f \in FrameSet, NEW c \in BOOLEAN, Send(f, c) PROVE XrTypeOK'
  BY <1>a, FrameFields, RequestsAssumption DEF Send
<1>1. ASSUME NEW mut \in BOOLEAN, SendRequest(mut) PROVE XrTypeOK'
  <2>0. xrSent.requests + 1 \in Nat
    OBVIOUS
  <2>1. Frame("request", xrSent.requests + 1, mut) \in FrameSet
    BY <2>0, FrameTypes, Zenon
  <2>2. (~Outstanding) \in BOOLEAN
    BY DEF Outstanding
  <2> QED
    BY <1>1, <1>a, <2>1, <2>2 DEF SendRequest
<1>2. CASE SendAgain
  BY <1>2, <1>a, FrameTypes DEF SendAgain
<1>3. CASE SendCancel
  BY <1>3, <1>a, FrameTypes DEF SendCancel
<1>4. CASE SendBad
  BY <1>4, <1>a, FrameTypes DEF SendBad
<1>5. CASE SendEOF
  <2>1. (~Outstanding) \in BOOLEAN
    BY DEF Outstanding
  <2> QED
    BY <1>5, <1>a, <2>1, FrameTypes DEF SendEOF
<1>6. CASE ReadFrame
  <2>1. Head(xrPipe) \in FrameSet /\ Tail(xrPipe) \in Seq(FrameSet)
    BY <1>6 DEF ReadFrame
  <2> QED
    BY <1>6, <2>1 DEF ReadFrame, Event
<1>7. CASE OfferFrame
  BY <1>7 DEF OfferFrame
<1>8. CASE AdmitNext
  <2>1. PICK e, rest : EventOK(e) /\ (rest = <<>> \/ rest = xrFrames) /\ Admit(e, rest)
    BY <1>8 DEF AdmitNext
  <2>2. e.seq \in Nat /\ e.frame.id \in Nat
    BY <2>1, FrameFields
  <2>3. CASE e.frame.kind = "eof"
    BY <2>1, <2>3 DEF Admit, InspectMessage, Outcomes, Causes
  <2>4. CASE e.frame.kind # "eof" /\ InspectMessage(e.frame, "request", 0) /\ e.frame.id \notin xrSeen
    BY <2>1, <2>2, <2>4 DEF Admit
  <2>5. CASE e.frame.kind # "eof" /\ ~(InspectMessage(e.frame, "request", 0) /\ e.frame.id \notin xrSeen)
    BY <2>1, <2>5 DEF Admit, Outcomes, Causes
  <2> QED
    BY <2>3, <2>4, <2>5
<1>9. CASE AbortIdle
  BY <1>9 DEF AbortIdle, Outcomes, Causes, Interrupts
<1>10. CASE DispatchRequest
  BY <1>10 DEF DispatchRequest
<1>11. CASE HandlerReturns
  BY <1>11 DEF HandlerReturns
<1>b. ASSUME NEW c \in Causes \cup {"invalid_response"} PROVE Failure(c) \in Outcomes
  BY DEF Failure, MutationFailure, KnownRefusal, AfterAppend, Outcomes, Causes, Interrupts
<1>12. CASE Interrupted
  BY <1>12 DEF Interrupted, ControlCause, Causes, Interrupts
<1>13. CASE JoinHandler
  BY <1>13, <1>b DEF JoinHandler
<1>14. CASE Respond
  BY <1>14 DEF Respond, NoMark
<1>15. CASE ResponseInvalid
  BY <1>15, <1>b DEF ResponseInvalid
<1>16. CASE WriteBody
  BY <1>16 DEF WriteBody, Mark
<1>17. CASE WriteTail
  BY <1>17 DEF WriteTail
<1>18. CASE WriteFails
  BY <1>18 DEF WriteFails
<1>19. CASE JoinWriter
  BY <1>19 DEF JoinWriter
<1>20. CASE Advance
  BY <1>20 DEF Advance, NoWriter, NoCall, NoMark
<1>21. CASE HoldCandidate
  BY <1>21 DEF HoldCandidate
<1>22. CASE ResponseBroken
  BY <1>22 DEF ResponseBroken, WriteCause, Causes, Interrupts
<1>23. CASE JoinBrokenWriter
  BY <1>23, <1>b DEF JoinBrokenWriter
<1>24. CASE UNCHANGED requestVars
  BY <1>24 DEF requestVars
<1> QED
  BY <1>1, <1>2, <1>3, <1>4, <1>5, <1>6, <1>7, <1>8, <1>9, <1>10, <1>11, <1>12, <1>13, <1>14, <1>15,
     <1>16, <1>17, <1>18, <1>19, <1>20, <1>21, <1>22, <1>23, <1>24 DEF RequestsNext

----------------------------------------------------------------------------
(* What took effect is answered or reported. *)

\* What a request that was given up reports when its handler had an effect.
LEMMA FailureReports ==
  ASSUME NEW c, xrCall.sent, xrReq.mut, xrCall.err \in {"none"} \cup AfterAppend
  PROVE  ReportsEffect(Failure(c), xrCall.err)
BY DEF Failure, MutationFailure, KnownRefusal, AfterAppend, ReportsEffect
LEMMA FailureEnds ==
  ASSUME XrTypeOK, NEW c \in Causes \cup {"invalid_response"}
  PROVE  Failure(c) \in Outcomes \ {"running", "completed"}
BY DEF XrTypeOK, Failure, MutationFailure, KnownRefusal, AfterAppend, Outcomes, Causes, Interrupts

LEMMA EffectStep == EffectInv /\ [RequestsNext]_requestVars => EffectInv'
<1> SUFFICES ASSUME EffectInv, [RequestsNext]_requestVars PROVE EffectInv'
  OBVIOUS
<1>0. XrTypeOK'
  BY XrTypeStep DEF EffectInv
<1>t. XrTypeOK
  BY DEF EffectInv
<1> USE DEF EffectInv, ThreadsFollowMain, WrittenIsAnswered, OneUnsettled, xrOutside, Ends, MainGoto,
            MainHolds, xrMain
<1>a. ASSUME NEW f, NEW c, Send(f, c) PROVE EffectInv'
  BY <1>0, <1>a DEF Send
<1>1. ASSUME NEW mut \in BOOLEAN, SendRequest(mut) PROVE EffectInv'
  BY <1>1, <1>a DEF SendRequest
<1>2. CASE SendAgain
  BY <1>2, <1>a DEF SendAgain
<1>3. CASE SendCancel
  BY <1>3, <1>a DEF SendCancel
<1>4. CASE SendBad
  BY <1>4, <1>a DEF SendBad
<1>5. CASE SendEOF
  BY <1>5, <1>a DEF SendEOF
<1>6. CASE ReadFrame
  BY <1>0, <1>6 DEF ReadFrame
<1>7. CASE OfferFrame
  BY <1>0, <1>7 DEF OfferFrame
<1>8. CASE AdmitNext
  <2>1. PICK e, rest : Admit(e, rest) /\ xrPc = "idle"
    BY <1>8 DEF AdmitNext
  <2>2. xrEffects \subseteq xrAnswered
    BY <2>1 DEF NoCall
  <2>3. CASE e.frame.kind = "eof"
    BY <1>0, <2>1, <2>2, <2>3 DEF Admit, InspectMessage, NoCall, NoWriter
  <2>4. CASE e.frame.kind # "eof" /\ InspectMessage(e.frame, "request", 0) /\ e.frame.id \notin xrSeen
    BY <1>0, <2>1, <2>2, <2>4 DEF Admit, NoMark, NoWriter
  <2>5. CASE e.frame.kind # "eof" /\ ~(InspectMessage(e.frame, "request", 0) /\ e.frame.id \notin xrSeen)
    BY <1>0, <2>1, <2>2, <2>5 DEF Admit, NoCall, NoWriter
  <2> QED
    BY <2>3, <2>4, <2>5
<1>9. CASE AbortIdle
  BY <1>0, <1>9 DEF AbortIdle, Interrupts, NoCall, NoWriter
<1>10. CASE DispatchRequest
  BY <1>0, <1>10 DEF DispatchRequest, NoCall
<1>11. CASE HandlerReturns
  <2>1. PICK err \in {"none", "refused"} \cup AfterAppend, effect \in BOOLEAN :
          /\ effect => xrReq.mut /\ err # "refused"
          /\ xrCall' = [state |-> "done", err |-> err, sent |-> xrCall.sent]
          /\ xrEffects' = IF effect THEN xrEffects \cup {xrReq.id} ELSE xrEffects
    BY <1>11, Zenon DEF HandlerReturns
  <2>2. xrPc \in {"waiting", "joining"} /\ xrCall.state = "running"
    BY <1>11, <1>t DEF HandlerReturns, NoCall, XrTypeOK
  <2>3. xrCall.sent /\ xrEffects \subseteq xrAnswered
    BY <2>2
  <2>4. \A i \in xrEffects' \ xrAnswered : effect /\ i = xrReq.id
    BY <2>1, <2>3
  <2>5. OneUnsettled'
    BY <1>11, <2>1, <2>2, <2>3, <2>4 DEF HandlerReturns
  <2> QED
    BY <1>0, <1>11, <2>1, <2>2, <2>5 DEF HandlerReturns, AfterAppend
<1>12. CASE Interrupted
  BY <1>0, <1>12 DEF Interrupted
<1>13. CASE JoinHandler
  BY <1>0, <1>13, <1>t, FailureReports, FailureEnds DEF JoinHandler, NoWriter, XrTypeOK
<1>14. CASE Respond
  BY <1>0, <1>14 DEF Respond, NoWriter
<1>15. CASE ResponseInvalid
  BY <1>0, <1>15, <1>t, FailureReports, FailureEnds DEF ResponseInvalid, NoWriter, XrTypeOK
<1>16. CASE WriteBody
  BY <1>0, <1>16, <1>t DEF WriteBody, NoWriter, XrTypeOK
<1>17. CASE WriteTail
  BY <1>0, <1>17, <1>t DEF WriteTail, NoWriter, XrTypeOK
<1>18. CASE WriteFails
  BY <1>0, <1>18, <1>t DEF WriteFails, NoWriter, XrTypeOK
<1>19. CASE JoinWriter
  BY <1>0, <1>19 DEF JoinWriter
<1>20. CASE Advance
  BY <1>0, <1>20, <1>t DEF Advance, XrTypeOK, Joined, NoWriter, NoCall
<1>21. CASE HoldCandidate
  BY <1>0, <1>21 DEF HoldCandidate
<1>22. CASE ResponseBroken
  BY <1>0, <1>22 DEF ResponseBroken
<1>23. CASE JoinBrokenWriter
  BY <1>0, <1>23, <1>t, FailureReports, FailureEnds DEF JoinBrokenWriter, XrTypeOK
<1>24. CASE UNCHANGED requestVars
  BY <1>0, <1>24 DEF requestVars
<1> QED
  BY <1>1, <1>2, <1>3, <1>4, <1>5, <1>6, <1>7, <1>8, <1>9, <1>10, <1>11, <1>12, <1>13, <1>14, <1>15,
     <1>16, <1>17, <1>18, <1>19, <1>20, <1>21, <1>22, <1>23, <1>24 DEF RequestsNext

----------------------------------------------------------------------------
(* A completed run answered everything. *)

QueueInv == EofIsLast /\ RequestsAccounted

\* A frame the module writes is behind everything it wrote before.
LEMMA SendQueues ==
  ASSUME XrTypeOK, QueueInv, NEW f \in FrameSet, NEW c, Send(f, c), f.id <= xrSent.requests + 1
  PROVE  QueueInv'
<1> USE DEF xrMain
<1>1. xrPipe' = Append(xrPipe, f) /\ Len(xrPipe') = Len(xrPipe) + 1
      /\ xrPipe'[Len(xrPipe) + 1] = f /\ \A j \in 1..Len(xrPipe) : xrPipe'[j] = xrPipe[j]
  BY DEF XrTypeOK, Send
<1>2. \A g \in FrameSet : Queued(g)' <=> Queued(g) \/ g = f
  BY <1>1 DEF Queued, Send, XrTypeOK
<1>3. \A g \in FrameSet : Queued(g) => g.kind # "eof"
  BY RequestsAssumption DEF QueueInv, EofIsLast, Send, XrTypeOK
<1>4. xrReader.event.frame.kind # "eof" /\ (xrFrames # <<>> => xrFrames[1].frame.kind # "eof")
      /\ xrPending.frame.kind # "eof"
  BY <1>3 DEF Queued, XrTypeOK, EventOK, NoEvent, Event, NoFrame, Frame
<1>5. EofIsLast'
  <2>1. \A g \in FrameSet : g.kind = "eof" /\ Queued(g)' => xrSent'.frames >= MaxXrFrames
    BY <1>2, <1>3, RequestsAssumption DEF Send
  <2>2. \A j \in 1..Len(xrPipe') : xrPipe'[j].kind = "eof" => j = Len(xrPipe')
    BY <1>1, <1>3 DEF Queued, XrTypeOK
  <2> QED
    BY <1>4, <2>1, <2>2 DEF EofIsLast, Send
<1>6. RequestsAccounted'
  <2>1. \A i \in 1..xrSent'.requests : i \in 1..xrSent.requests \/ (f.kind = "request" /\ i = f.id)
    BY FrameFields DEF Send, XrTypeOK
  <2>2. Queued(f)'
    BY <1>2
  <2>3. xrOutcome = "running" /\ UNCHANGED <<xrOutcome, xrPc, xrSeen, xrReq, xrAnswered>>
    BY DEF Send
  <2> QED
    BY <1>2, <2>1, <2>2, <2>3 DEF RequestsAccounted, QueueInv, Live
<1> QED
  BY <1>5, <1>6 DEF QueueInv

\* A step that moves no frame.
LEMMA QueueUntouched ==
  ASSUME QueueInv, UNCHANGED <<xrPipe, xrReader, xrFrames, xrPending, xrSent>>
  PROVE  EofIsLast' /\ \A f : Queued(f)' <=> Queued(f)
BY DEF QueueInv, EofIsLast, Queued, AfterPending, AfterChannel

LEMMA QueueStep == EffectInv /\ QueueInv /\ [RequestsNext]_requestVars => QueueInv'
<1> SUFFICES ASSUME EffectInv, QueueInv, [RequestsNext]_requestVars PROVE QueueInv'
  OBVIOUS
<1>t. XrTypeOK /\ XrTypeOK'
  BY XrTypeStep DEF EffectInv
<1> USE DEF xrOutside, Ends, MainGoto, MainHolds, xrMain
\* the main loop goes on with the frames where they are
<1>a. ASSUME UNCHANGED <<xrPipe, xrReader, xrFrames, xrPending, xrSent, xrSeen, xrReq, xrOutcome>>,
             xrAnswered \subseteq xrAnswered', Live' => Live, xrPc # "idle" => xrPc' # "idle"
      PROVE  QueueInv'
  BY <1>a, QueueUntouched, Zenon DEF QueueInv, RequestsAccounted
\* the session ends, or will end, without a success
<1>b. ASSUME ~Live', xrOutcome' # "completed", EofIsLast' PROVE QueueInv'
  BY <1>b DEF QueueInv, RequestsAccounted
\* a frame leaves the channel, or what was held back is taken
<1>c. ASSUME UNCHANGED <<xrPipe, xrReader, xrSent>>,
             \/ xrFrames' = <<>> /\ (xrPending' = xrPending \/ xrPending' = NoEvent)
             \/ UNCHANGED xrFrames /\ xrPending' = NoEvent
      PROVE  EofIsLast'
  BY <1>c DEF QueueInv, EofIsLast, Queued, AfterPending, AfterChannel, NoEvent, Event, NoFrame, Frame
<1>1. ASSUME NEW mut \in BOOLEAN, SendRequest(mut) PROVE QueueInv'
  <2>1. xrSent.requests + 1 \in Nat
    BY <1>t DEF XrTypeOK
  <2>2. Frame("request", xrSent.requests + 1, mut) \in FrameSet
    BY <2>1, FrameTypes, Zenon
  <2>3. Frame("request", xrSent.requests + 1, mut).id = xrSent.requests + 1
    BY DEF Frame
  <2> QED
    BY <1>1, <1>t, <2>1, <2>2, <2>3, SendQueues DEF SendRequest
<1>2. CASE SendAgain
  <2>1. Frame("request", 1, FALSE) \in FrameSet
    BY <1>t DEF Frame, FrameSet, XrTypeOK
  <2>2. Frame("request", 1, FALSE).id <= xrSent.requests + 1
    BY <1>2, <1>t DEF SendAgain, Frame, XrTypeOK
  <2> QED
    BY <1>2, <1>t, <2>1, <2>2, SendQueues DEF SendAgain
<1>3. CASE SendCancel
  <2>1. Frame("cancel", xrSent.requests, FALSE) \in FrameSet
    BY <1>t DEF Frame, FrameSet, XrTypeOK
  <2>2. Frame("cancel", xrSent.requests, FALSE).id <= xrSent.requests + 1
    BY <1>3, <1>t DEF SendCancel, Frame, XrTypeOK
  <2> QED
    BY <1>3, <1>t, <2>1, <2>2, SendQueues DEF SendCancel
<1>4. CASE SendBad
  <2>1. Frame("bad", 0, FALSE) \in FrameSet
    BY <1>t DEF Frame, FrameSet, XrTypeOK
  <2>2. Frame("bad", 0, FALSE).id <= xrSent.requests + 1
    BY <1>4, <1>t DEF SendBad, Frame, XrTypeOK
  <2> QED
    BY <1>4, <1>t, <2>1, <2>2, SendQueues DEF SendBad
<1>5. CASE SendEOF
  <2>1. Frame("eof", 0, FALSE) \in FrameSet
    BY <1>t DEF Frame, FrameSet, XrTypeOK
  <2>2. Frame("eof", 0, FALSE).id <= xrSent.requests + 1
    BY <1>5, <1>t DEF SendEOF, Frame, XrTypeOK
  <2> QED
    BY <1>5, <1>t, <2>1, <2>2, SendQueues DEF SendEOF
<1>6. CASE ReadFrame
  <2>1. /\ xrReader.event = NoEvent /\ xrPipe # <<>> /\ xrPipe' = Tail(xrPipe)
        /\ xrReader'.event.frame = Head(xrPipe)
        /\ UNCHANGED <<xrSent, xrFrames, xrPc, xrReq, xrPending, xrSeen, xrAnswered, xrOutcome>>
    BY <1>6 DEF ReadFrame, Event
  <2>2. /\ Len(xrPipe') = Len(xrPipe) - 1 /\ Head(xrPipe) = xrPipe[1]
        /\ \A j \in 1..Len(xrPipe') : xrPipe'[j] = xrPipe[j + 1]
        /\ Len(xrPipe) \in Nat /\ Len(xrPipe) >= 1
    BY <2>1, <1>t DEF XrTypeOK
  <2>3. \A f \in FrameSet : Queued(f)' <=> Queued(f)
    <3>1. NoEvent.frame \notin FrameSet
      BY DEF NoEvent, Event, NoFrame, Frame, FrameSet
    <3>2. \A f \in FrameSet : (\E j \in 1..Len(xrPipe) : xrPipe[j] = f)
            <=> (xrPipe[1] = f \/ \E j \in 1..Len(xrPipe') : xrPipe'[j] = f)
      <4> TAKE f \in FrameSet
      <4>1. ASSUME NEW j \in 1..Len(xrPipe), xrPipe[j] = f, j # 1
            PROVE  \E k \in 1..Len(xrPipe') : xrPipe'[k] = f
        <5>1. j - 1 \in 1..Len(xrPipe') /\ xrPipe'[j - 1] = xrPipe[j]
          BY <2>2, <4>1
        <5> QED
          BY <4>1, <5>1
      <4>2. ASSUME NEW j \in 1..Len(xrPipe'), xrPipe'[j] = f
            PROVE  \E k \in 1..Len(xrPipe) : xrPipe[k] = f
        <5>1. j + 1 \in 1..Len(xrPipe)
          BY <2>2
        <5> QED
          BY <2>2, <4>2, <5>1
      <4> QED
        BY <2>2, <4>1, <4>2
    <3> QED
      BY <2>1, <2>2, <3>1, <3>2 DEF Queued
  <2>4. EofIsLast'
    <3>1. xrPipe[1].kind = "eof" => Len(xrPipe) = 1
      BY <2>2 DEF QueueInv, EofIsLast
    <3>2. Len(xrPipe) = 1 => xrPipe' = <<>>
      BY <2>1, <2>2, <1>t DEF XrTypeOK
    <3>3. \A j \in 1..Len(xrPipe') : xrPipe'[j].kind = "eof" => j = Len(xrPipe')
      BY <2>2 DEF QueueInv, EofIsLast
    <3>4. \A f \in FrameSet : f.kind = "eof" /\ Queued(f)' => xrSent'.frames >= MaxXrFrames
      BY <2>1, <2>3 DEF QueueInv, EofIsLast
    <3> QED
      BY <2>1, <2>2, <3>1, <3>2, <3>3, <3>4 DEF QueueInv, EofIsLast, AfterPending, AfterChannel
  <2> QED
    BY <2>1, <2>3, <2>4 DEF QueueInv, RequestsAccounted, Live
<1>7. CASE OfferFrame
  <2>1. \A f \in FrameSet : Queued(f)' <=> Queued(f)
    BY <1>7, <1>t DEF OfferFrame, Queued, NoEvent, Event, NoFrame, Frame, FrameSet
  <2>2. EofIsLast'
    BY <1>7, <2>1, <1>t DEF OfferFrame, QueueInv, EofIsLast, AfterPending, AfterChannel, NoEvent, Event, NoFrame, Frame
  <2> QED
    BY <1>7, <2>1, <2>2 DEF OfferFrame, QueueInv, RequestsAccounted, Live
<1>8. CASE AdmitNext
  <2>1. PICK e, rest :
          /\ xrPc = "idle" /\ Admit(e, rest) /\ EventOK(e)
          /\ \/ xrPending = e /\ rest = xrFrames
             \/ xrPending = NoEvent /\ xrFrames # <<>> /\ e = xrFrames[1] /\ rest = <<>>
    BY <1>8, <1>t DEF AdmitNext, XrTypeOK
  <2>2. UNCHANGED <<xrPipe, xrReader, xrSent, xrAnswered>> /\ xrPending' = NoEvent /\ xrFrames' = rest
    BY <2>1 DEF Admit
  <2>3. EofIsLast'
    BY <1>c, <2>1, <2>2
  <2>4. \A i \in xrSeen : i \in xrAnswered
    BY <2>1 DEF QueueInv, RequestsAccounted, Live
  <2>5. CASE e.frame.kind = "eof"
    <3>1. \A f \in FrameSet : Queued(f) => f = e.frame
      BY <2>1, <2>5 DEF QueueInv, EofIsLast, AfterPending, AfterChannel, Queued, NoEvent, Event, NoFrame,
                        Frame, FrameSet, EventOK
    <3>2. \A i \in 1..xrSent.requests : i \in xrAnswered
      BY <2>1, <2>4, <2>5, <3>1 DEF QueueInv, RequestsAccounted, Live
    <3>3. ~Live'
      BY <2>1, <2>5 DEF Admit, InspectMessage, Live
    <3> QED
      BY <2>2, <2>3, <3>2, <3>3 DEF QueueInv, RequestsAccounted
  <2>6. CASE e.frame.kind # "eof" /\ InspectMessage(e.frame, "request", 0) /\ e.frame.id \notin xrSeen
    <3>1. /\ xrPc' = "admit" /\ xrReq' = e.frame /\ xrSeen' = xrSeen \cup {e.frame.id}
          /\ UNCHANGED xrOutcome
      BY <2>1, <2>6 DEF Admit
    <3>2. \A f \in FrameSet : Queued(f) => Queued(f)' \/ f = e.frame
      BY <2>1, <2>2 DEF Queued, NoEvent, Event, NoFrame, Frame, FrameSet
    <3>3. xrOutcome = "running"
      BY <2>1 DEF EffectInv, ThreadsFollowMain
    <3> QED
      BY <2>1, <2>2, <2>3, <2>4, <3>1, <3>2, <3>3 DEF QueueInv, RequestsAccounted, Live
  <2>7. CASE e.frame.kind # "eof" /\ ~(InspectMessage(e.frame, "request", 0) /\ e.frame.id \notin xrSeen)
    BY <1>b, <2>1, <2>3, <2>7 DEF Admit, Live
  <2> QED
    BY <2>5, <2>6, <2>7
<1>9. CASE AbortIdle
  BY <1>9, <1>b, QueueUntouched DEF AbortIdle, Live, Interrupts
<1>10. CASE DispatchRequest
  BY <1>10, <1>a DEF DispatchRequest, Live
<1>11. CASE HandlerReturns
  BY <1>11, <1>a DEF HandlerReturns, Live
<1>12. CASE Interrupted
  <2>1. xrOutcome = "running"
    BY <1>12 DEF Interrupted, EffectInv, ThreadsFollowMain
  <2> QED
    BY <1>12, <1>b, <1>c, <2>1, QueueUntouched DEF Interrupted, Live
<1>13. CASE JoinHandler
  BY <1>13, <1>b, <1>t, FailureEnds, QueueUntouched DEF JoinHandler, Live, XrTypeOK
<1>14. CASE Respond
  BY <1>14, <1>a DEF Respond, Live
<1>15. CASE ResponseInvalid
  BY <1>15, <1>b, <1>t, FailureEnds, QueueUntouched DEF ResponseInvalid, Live, XrTypeOK
<1>16. CASE WriteBody
  BY <1>16, <1>a DEF WriteBody, Live
<1>17. CASE WriteTail
  BY <1>17, <1>a DEF WriteTail, Live
<1>18. CASE WriteFails
  BY <1>18, <1>a DEF WriteFails, Live
<1>19. CASE JoinWriter
  BY <1>19, <1>a DEF JoinWriter, Live
<1>20. CASE Advance
  <2>1. xrReq.id \in xrAnswered
    BY <1>20 DEF Advance, Joined, EffectInv, WrittenIsAnswered
  <2> QED
    BY <1>20, <2>1, QueueUntouched DEF Advance, QueueInv, RequestsAccounted, Live
<1>21. CASE HoldCandidate
  <2>1. xrPending = NoEvent /\ xrPending' = xrFrames[1] /\ xrFrames # <<>> /\ xrFrames' = <<>>
    BY <1>21 DEF HoldCandidate, Candidate
  <2>2. UNCHANGED <<xrPipe, xrReader, xrSent, xrSeen, xrReq, xrPc, xrAnswered, xrOutcome>>
    BY <1>21 DEF HoldCandidate
  <2>3. \A f \in FrameSet : Queued(f)' <=> Queued(f)
    BY <2>1, <2>2 DEF Queued, NoEvent, Event, NoFrame, Frame, FrameSet
  <2>4. EofIsLast'
    BY <2>1, <2>2, <2>3 DEF QueueInv, EofIsLast, AfterPending, AfterChannel
  <2> QED
    BY <2>2, <2>3, <2>4 DEF QueueInv, RequestsAccounted, Live
<1>22. CASE ResponseBroken
  <2>1. xrOutcome = "running"
    BY <1>22 DEF ResponseBroken, EffectInv, ThreadsFollowMain
  <2> QED
    BY <1>22, <1>b, <1>c, <2>1, QueueUntouched DEF ResponseBroken, Live
<1>23. CASE JoinBrokenWriter
  BY <1>23, <1>b, <1>t, FailureEnds, QueueUntouched DEF JoinBrokenWriter, Live, XrTypeOK
<1>24. CASE UNCHANGED requestVars
  BY <1>24, <1>a DEF requestVars, Live
<1> QED
  BY <1>1, <1>2, <1>3, <1>4, <1>5, <1>6, <1>7, <1>8, <1>9, <1>10, <1>11, <1>12, <1>13, <1>14, <1>15,
     <1>16, <1>17, <1>18, <1>19, <1>20, <1>21, <1>22, <1>23, <1>24 DEF RequestsNext

\* When a run ends, every mutation that took effect was answered in full, or the
\* run reports it as uncertain or with the code its handler returned after the
\* append, and a completed run answered every request the module sent (session.go
\* Run, mutationFailure).
THEOREM EffectsAccounted == RequestsSpec => []EffectsAccountedFor
<1>1. RequestsInit => EffectInv /\ QueueInv
  <2> SUFFICES ASSUME RequestsInit PROVE EffectInv /\ QueueInv
    OBVIOUS
  <2> USE DEF RequestsInit, NoCall, NoWriter, NoMark, NoFrame, NoEvent, Event, Frame
  <2>1. EffectInv
    BY DEF EffectInv, XrTypeOK, ThreadsFollowMain, WrittenIsAnswered, OneUnsettled, Causes, Outcomes
  <2>2. \A f \in FrameSet : ~Queued(f)
    BY DEF Queued, FrameSet
  <2> QED
    BY <2>1, <2>2 DEF QueueInv, EofIsLast, RequestsAccounted
<1>2. EffectInv /\ QueueInv => EffectsAccountedFor
  BY DEF EffectInv, OneUnsettled, QueueInv, RequestsAccounted, EffectsAccountedFor
<1> QED
  BY <1>1, <1>2, EffectStep, QueueStep, PTL DEF RequestsSpec

----------------------------------------------------------------------------
(* A conforming module is never accused. *)

\* While the current request is unanswered a conforming module has nothing under way.
LEMMA NothingQueued ==
  ASSUME XrTypeOK, ConformingQueue, ConformingFrontier,
         xrPc \notin {"idle", "ended"}, xrReq.id \notin xrAnswered
  PROVE  /\ xrPipe = <<>> /\ xrReader.event = NoEvent /\ xrFrames = <<>> /\ xrPending = NoEvent
         /\ \A f \in FrameSet : ~Queued(f)
<1>1. \A f \in FrameSet : ~Queued(f)
  BY DEF ConformingQueue, ConformingFrontier, InOrder
<1>2. xrPipe # <<>> => xrPipe[1] \in FrameSet /\ Queued(xrPipe[1])
  BY DEF XrTypeOK, Queued
<1>3. xrReader.event # NoEvent => xrReader.event.frame \in FrameSet /\ Queued(xrReader.event.frame)
  BY DEF XrTypeOK, EventOK, Queued
<1>4. xrFrames # <<>> => xrFrames[1].frame \in FrameSet /\ Queued(xrFrames[1].frame)
  BY DEF XrTypeOK, EventOK, Queued
<1>5. xrPending # NoEvent => xrPending.frame \in FrameSet /\ Queued(xrPending.frame)
  BY DEF XrTypeOK, EventOK, Queued
<1> QED
  BY <1>1, <1>2, <1>3, <1>4, <1>5

LEMMA FailureNotInvalid ==
  ASSUME XrTypeOK, NEW c, c # "invalid_input"
  PROVE  Failure(c) # "invalid_input"
BY DEF XrTypeOK, Failure, MutationFailure, KnownRefusal, AfterAppend

LEMMA ConformStep ==
  EffectInv /\ QueueInv /\ ConformInv /\ [RequestsNext]_requestVars => ConformInv'
<1> SUFFICES ASSUME EffectInv, QueueInv, ConformInv, xrConforms', [RequestsNext]_requestVars
             PROVE  ConformingQueue' /\ ConformingFrontier'
  BY DEF ConformInv
<1>t. XrTypeOK /\ XrTypeOK' /\ ThreadsFollowMain /\ WrittenIsAnswered
  BY XrTypeStep DEF EffectInv
<1> USE DEF xrOutside, Ends, MainGoto, MainHolds, xrMain
<1> DEFINE Goal == ConformingQueue' /\ ConformingFrontier'
<1>s. ASSUME NEW f, NEW c, Send(f, c) PROVE xrConforms /\ c
  BY <1>s DEF Send
<1>u. xrConforms => ConformingQueue /\ ConformingFrontier
  BY DEF ConformInv
\* the frames stay where they are
<1>q. ASSUME UNCHANGED <<xrPipe, xrReader, xrFrames, xrPending, xrSent, xrSeen, xrAnswered, xrConforms>>
      PROVE  ConformingQueue' /\ ConformingFrontier
  BY <1>q, <1>u DEF ConformingQueue, InOrder, Queued
<1>r. ASSUME UNCHANGED xrConforms PROVE ConformingQueue /\ ConformingFrontier
  BY <1>r, <1>u
<1>k. ASSUME NEW f \in FrameSet, NEW c, Send(f, c), ~Outstanding,
             f.kind = "eof" \/ (f.kind = "request" /\ f.id = xrSent.requests + 1)
      PROVE  Goal
  <2>1. ConformingQueue /\ ConformingFrontier
    BY <1>k, <1>s, <1>u
  <2>2. \A g \in FrameSet : ~Queued(g)
    BY <1>k, <1>t, <2>1, RequestsAssumption
       DEF ConformingQueue, InOrder, Outstanding, QueueInv, EofIsLast, Send, XrTypeOK
  <2>3. xrPipe = <<>> /\ xrReader.event = NoEvent /\ xrFrames = <<>> /\ xrPending = NoEvent
    <3>1. xrPipe # <<>> => xrPipe[1] \in FrameSet /\ Queued(xrPipe[1])
      BY <1>t DEF XrTypeOK, Queued
    <3>2. xrReader.event # NoEvent => xrReader.event.frame \in FrameSet /\ Queued(xrReader.event.frame)
      BY <1>t DEF XrTypeOK, EventOK, Queued
    <3>3. xrFrames # <<>> => xrFrames[1].frame \in FrameSet /\ Queued(xrFrames[1].frame)
      BY <1>t DEF XrTypeOK, EventOK, Queued
    <3>4. xrPending # NoEvent => xrPending.frame \in FrameSet /\ Queued(xrPending.frame)
      BY <1>t DEF XrTypeOK, EventOK, Queued
    <3> QED
      BY <2>2, <3>1, <3>2, <3>3, <3>4
  <2>4. xrPipe' = <<f>> /\ Len(xrPipe') = 1
    BY <1>k, <2>3 DEF Send
  <2>5. \A g \in FrameSet : Queued(g)' => g = f
    BY <1>k, <2>2, <2>3, <2>4 DEF Send, Queued
  <2>6. xrSent'.requests = IF f.kind = "request" THEN xrSent.requests + 1 ELSE xrSent.requests
    BY <1>k, <1>t DEF Send, XrTypeOK
  <2>7. InOrder(f)'
    BY <1>k, <1>t, <2>1, <2>6 DEF InOrder, Outstanding, Send, ConformingFrontier, XrTypeOK
  <2>8. ConformingQueue'
    BY <1>k, <2>3, <2>4, <2>5, <2>7 DEF ConformingQueue, Send
  <2>9. ConformingFrontier'
    BY <1>k, <1>t, <2>1, <2>6 DEF ConformingFrontier, Send, XrTypeOK
  <2> QED
    BY <2>8, <2>9
<1>1. ASSUME NEW mut \in BOOLEAN, SendRequest(mut) PROVE Goal
  <2>1. xrSent.requests + 1 \in Nat
    BY <1>t DEF XrTypeOK
  <2>2. Frame("request", xrSent.requests + 1, mut) \in FrameSet
    BY <2>1, FrameTypes, Zenon
  <2>3. /\ Frame("request", xrSent.requests + 1, mut).id = xrSent.requests + 1
        /\ Frame("request", xrSent.requests + 1, mut).kind = "request"
    BY DEF Frame
  <2> QED
    BY <1>1, <1>s, <1>k, <2>2, <2>3 DEF SendRequest
<1>2. CASE SendAgain
  BY <1>2, <1>s DEF SendAgain
<1>3. CASE SendCancel
  BY <1>3, <1>s DEF SendCancel
<1>4. CASE SendBad
  BY <1>4, <1>s DEF SendBad
<1>5. CASE SendEOF
  <2>1. Frame("eof", 0, FALSE) \in FrameSet /\ Frame("eof", 0, FALSE).kind = "eof"
    BY DEF Frame, FrameSet
  <2> QED
    BY <1>5, <1>s, <1>k, <2>1 DEF SendEOF
<1>6. CASE ReadFrame
  <2>1. ConformingQueue /\ ConformingFrontier
    BY <1>6, <1>r DEF ReadFrame
  <2>a. Len(xrPipe) = 1 /\ xrPipe[1] \in FrameSet /\ Tail(xrPipe) = <<>> /\ Head(xrPipe) = xrPipe[1]
    <3>1. xrPipe \in Seq(FrameSet) /\ xrPipe # <<>> /\ Len(xrPipe) <= 1
      BY <1>6, <1>t, <2>1 DEF ReadFrame, ConformingQueue, XrTypeOK
    <3>2. Len(xrPipe) = 1
      <4>1. Len(xrPipe) \in Nat /\ Len(xrPipe) # 0
        BY <3>1
      <4>2. \A n \in Nat : n # 0 /\ n <= 1 => n = 1
        OBVIOUS
      <4> QED
        BY <3>1, <4>1, <4>2
    <3>3. Tail(xrPipe) \in Seq(FrameSet) /\ Len(Tail(xrPipe)) = 0
      BY <3>1, <3>2
    <3>4. Tail(xrPipe) = <<>>
      BY <3>3, EmptySeq
    <3>5. xrPipe[1] \in FrameSet /\ Head(xrPipe) = xrPipe[1]
      BY <3>1, <3>2
    <3> QED
      BY <3>2, <3>4, <3>5
  <2>2. /\ Len(xrPipe) = 1 /\ xrPipe[1] \in FrameSet /\ xrPipe' = <<>>
        /\ xrReader'.event.frame = xrPipe[1] /\ xrReader'.event.seq = xrReader.seq + 1
        /\ xrReader'.seq = xrReader.seq + 1 /\ xrFrames = <<>> /\ xrPending = NoEvent
        /\ UNCHANGED <<xrSent, xrFrames, xrPending, xrSeen, xrAnswered>>
    BY <1>6, <2>1, <2>a DEF ReadFrame, Event, ConformingQueue
  <2>3. \A f \in FrameSet : Queued(f)' => f = xrPipe[1]
    BY <2>2 DEF Queued, NoEvent, Event, NoFrame, Frame, FrameSet
  <2>4. Queued(xrPipe[1])
    BY <2>2 DEF Queued
  <2>5. ConformingQueue'
    BY <2>1, <2>2, <2>3, <2>4 DEF ConformingQueue, InOrder
  <2> QED
    BY <1>6, <1>t, <2>1, <2>2, <2>5 DEF ReadFrame, ConformingFrontier, XrTypeOK
<1>7. CASE OfferFrame
  <2>1. ConformingQueue /\ ConformingFrontier
    BY <1>7, <1>r DEF OfferFrame
  <2>2. /\ xrFrames' = <<xrReader.event>> /\ xrReader'.event = NoEvent /\ xrReader'.seq = xrReader.seq
        /\ xrReader.event # NoEvent /\ xrPending = NoEvent /\ xrPipe = <<>>
        /\ UNCHANGED <<xrSent, xrPipe, xrPending, xrSeen, xrAnswered>>
    BY <1>7, <2>1 DEF OfferFrame, ConformingQueue
  <2>3. \A f \in FrameSet : Queued(f)' => Queued(f)
    BY <2>2 DEF Queued, NoEvent, Event, NoFrame, Frame, FrameSet
  <2>4. ConformingQueue'
    BY <2>1, <2>2, <2>3 DEF ConformingQueue, InOrder
  <2> QED
    BY <1>7, <2>1, <2>2, <2>4 DEF OfferFrame, ConformingFrontier
<1>8. CASE AdmitNext
  <2>1. PICK e, rest :
          /\ xrPc = "idle" /\ Admit(e, rest) /\ EventOK(e)
          /\ \/ xrPending = e /\ rest = xrFrames
             \/ xrPending = NoEvent /\ xrFrames # <<>> /\ e = xrFrames[1] /\ rest = <<>>
    BY <1>8, <1>t DEF AdmitNext, XrTypeOK
  <2>2. /\ UNCHANGED <<xrPipe, xrReader, xrSent, xrAnswered, xrWriter, xrCause>>
        /\ xrPending' = NoEvent /\ xrFrames' = rest /\ ConformingQueue /\ ConformingFrontier
    BY <1>r, <2>1 DEF Admit
  <2>3. Queued(e.frame) /\ InOrder(e.frame) /\ xrPipe = <<>> /\ xrReader.event = NoEvent /\ rest = <<>>
    BY <2>1, <2>2 DEF Queued, ConformingQueue, EventOK, NoEvent, Event, NoFrame, Frame, FrameSet
  <2>4. \A f \in FrameSet : ~Queued(f)'
    BY <2>2, <2>3 DEF Queued, NoEvent, Event, NoFrame, Frame, FrameSet
  <2>5. ConformingQueue'
    BY <2>2, <2>3, <2>4 DEF ConformingQueue
  <2>6. ~xrWriter.offered.set /\ xrWriter.state = "none"
    BY <1>t, <2>1 DEF ThreadsFollowMain, NoWriter, NoMark
  <2>7. CASE e.frame.kind = "eof"
    <3>1. xrOutcome' # "invalid_input" /\ xrPc' = "ended" /\ UNCHANGED xrSeen
      BY <2>1, <2>7 DEF Admit, InspectMessage
    <3> QED
      BY <2>2, <2>5, <2>6, <3>1 DEF ConformingFrontier
  <2>8. CASE e.frame.kind # "eof"
    <3>1. InspectMessage(e.frame, "request", 0) /\ e.frame.id \notin xrSeen
          /\ e.frame.id \in 1..xrSent.requests /\ e.frame.id \notin xrAnswered
      BY <1>t, <2>1, <2>3, <2>8, FrameFields DEF InOrder, InspectMessage, XrTypeOK, EventOK
    <3>2. /\ xrPc' = "admit" /\ xrReq' = e.frame /\ xrSeen' = xrSeen \cup {e.frame.id}
          /\ UNCHANGED xrOutcome
      BY <2>1, <2>8, <3>1 DEF Admit
    <3> QED
      BY <2>2, <2>5, <2>6, <3>1, <3>2 DEF ConformingFrontier
  <2> QED
    BY <2>7, <2>8
<1>9. CASE AbortIdle
  BY <1>9, <1>q DEF AbortIdle, Interrupts, ConformingFrontier
<1>10. CASE DispatchRequest
  BY <1>10, <1>q DEF DispatchRequest, ConformingFrontier
<1>11. CASE HandlerReturns
  BY <1>11, <1>q DEF HandlerReturns, ConformingFrontier
<1>12. CASE Interrupted
  <2>1. ConformingQueue /\ ConformingFrontier
    BY <1>12, <1>r DEF Interrupted
  <2>2. xrFrames = <<>>
    BY <1>12, <1>t, <2>1, NothingQueued DEF Interrupted, ConformingFrontier
  <2>3. UNCHANGED xrFrames /\ xrCause' \in Interrupts
    BY <1>12, <2>2 DEF Interrupted
  <2> QED
    BY <1>12, <1>q, <2>3 DEF Interrupted, ConformingFrontier, Interrupts
<1>13. CASE JoinHandler
  BY <1>13, <1>q, <1>t, FailureNotInvalid DEF JoinHandler, ConformingFrontier
<1>14. CASE Respond
  BY <1>14, <1>q, <1>t DEF Respond, ConformingFrontier, NoMark
<1>15. CASE ResponseInvalid
  BY <1>15, <1>q, <1>t, FailureNotInvalid DEF ResponseInvalid, ConformingFrontier
<1>16. CASE WriteBody
  <2>1. ConformingQueue /\ ConformingFrontier
    BY <1>16, <1>r DEF WriteBody
  <2>2. xrPc \in {"writing", "closing"} /\ xrReq.id \notin xrAnswered
    BY <1>16, <1>t, <2>1 DEF WriteBody, ConformingFrontier, ThreadsFollowMain, NoWriter, XrTypeOK
  <2>3. xrReader.event = NoEvent /\ xrFrames = <<>>
    BY <1>t, <2>1, <2>2, NothingQueued
  <2>4. /\ xrWriter'.state = "tail" /\ xrWriter'.offered.set = TRUE
        /\ xrWriter'.offered.seq = xrReader.seq /\ xrReader.seq >= xrReader.seq
    BY <1>16, <1>t DEF WriteBody, Mark, XrTypeOK
  <2> QED
    BY <1>16, <1>q, <2>2, <2>3, <2>4 DEF WriteBody, ConformingFrontier
<1>17. CASE WriteTail
  <2>1. ConformingQueue /\ ConformingFrontier
    BY <1>17, <1>r DEF WriteTail
  <2>2. xrPc \in {"writing", "closing"} /\ xrReq.id \notin xrAnswered
    BY <1>17, <1>t, <2>1 DEF WriteTail, ConformingFrontier, ThreadsFollowMain, NoWriter, XrTypeOK
  <2>3. \A f \in FrameSet : ~Queued(f)
    BY <1>t, <2>1, <2>2, NothingQueued
  <2>4. \A f \in FrameSet : ~Queued(f)'
    BY <1>17, <2>3 DEF WriteTail, Queued
  <2>5. ConformingQueue'
    BY <1>17, <2>1, <2>4 DEF WriteTail, ConformingQueue
  <2> QED
    BY <1>17, <2>1, <2>2, <2>5 DEF WriteTail, ConformingFrontier
<1>18. CASE WriteFails
  BY <1>18, <1>q, <1>t DEF WriteFails, ConformingFrontier
<1>19. CASE JoinWriter
  BY <1>19, <1>q DEF JoinWriter, ConformingFrontier
<1>20. CASE Advance
  BY <1>20, <1>q DEF Advance, ConformingFrontier, NoWriter, NoMark
<1>21. CASE HoldCandidate
  <2>1. ConformingQueue /\ ConformingFrontier
    BY <1>21, <1>r DEF HoldCandidate
  <2>2. xrPending = NoEvent /\ xrPending' = xrFrames[1] /\ xrFrames # <<>> /\ xrFrames' = <<>>
        /\ xrPipe = <<>> /\ xrReader.event = NoEvent
    BY <1>21, <2>1 DEF HoldCandidate, Candidate, ConformingQueue
  <2>3. UNCHANGED <<xrPipe, xrReader, xrSent, xrSeen, xrAnswered>>
    BY <1>21 DEF HoldCandidate
  <2>4. \A f \in FrameSet : Queued(f)' => Queued(f)
    BY <2>2, <2>3 DEF Queued, NoEvent, Event, NoFrame, Frame, FrameSet
  <2>5. ConformingQueue'
    BY <2>1, <2>2, <2>3, <2>4 DEF ConformingQueue, InOrder
  <2> QED
    BY <1>21, <2>1, <2>2, <2>5 DEF HoldCandidate, ConformingFrontier
<1>22. CASE ResponseBroken
  <2>1. ConformingQueue /\ ConformingFrontier
    BY <1>22, <1>r DEF ResponseBroken
  <2>2. ASSUME xrFrames # <<>> PROVE Candidate(xrFrames[1])
    <3>1. xrReq.id \in xrAnswered
      BY <1>22, <1>t, <2>1, <2>2, NothingQueued DEF ResponseBroken
    <3>2. xrWriter.offered.set /\ xrFrames[1].seq > xrWriter.offered.seq /\ xrPending = NoEvent
      BY <1>22, <1>t, <2>1, <2>2, <3>1
         DEF ResponseBroken, ConformingFrontier, ConformingQueue, ThreadsFollowMain, XrTypeOK
    <3>3. xrFrames[1].frame \in FrameSet /\ Queued(xrFrames[1].frame)
      BY <1>t, <2>2 DEF XrTypeOK, EventOK, Queued
    <3>4. xrFrames[1].frame.kind \in {"request", "eof"}
      BY <2>1, <3>3 DEF ConformingQueue, InOrder
    <3> QED
      BY <3>2, <3>4 DEF Candidate, AfterTail
  <2>3. UNCHANGED xrFrames /\ xrCause' \in Interrupts
    BY <1>22, <2>2 DEF ResponseBroken
  <2> QED
    BY <1>22, <1>q, <2>3 DEF ResponseBroken, ConformingFrontier, Interrupts
<1>23. CASE JoinBrokenWriter
  BY <1>23, <1>q, <1>t, FailureNotInvalid DEF JoinBrokenWriter, ConformingFrontier
<1>24. CASE UNCHANGED requestVars
  BY <1>24, <1>q DEF requestVars, ConformingFrontier
<1> QED
  BY <1>1, <1>2, <1>3, <1>4, <1>5, <1>6, <1>7, <1>8, <1>9, <1>10, <1>11, <1>12, <1>13, <1>14, <1>15,
     <1>16, <1>17, <1>18, <1>19, <1>20, <1>21, <1>22, <1>23, <1>24 DEF RequestsNext

\* A module that keeps to one outstanding request never loses its session to an
\* accusation, however late the host joins its own writer (session.go
\* responseFrontier, advance).
THEOREM ConformingSafe == RequestsSpec => []ConformingNeverAccused
<1>1. RequestsInit => EffectInv /\ QueueInv /\ ConformInv
  <2> SUFFICES ASSUME RequestsInit PROVE EffectInv /\ QueueInv /\ ConformInv
    OBVIOUS
  <2> USE DEF RequestsInit, NoCall, NoWriter, NoMark, NoFrame, NoEvent, Event, Frame
  <2>1. EffectInv
    BY DEF EffectInv, XrTypeOK, ThreadsFollowMain, WrittenIsAnswered, OneUnsettled, Causes, Outcomes
  <2>2. \A f \in FrameSet : ~Queued(f)
    BY DEF Queued, FrameSet
  <2>3. QueueInv
    BY <2>2 DEF QueueInv, EofIsLast, RequestsAccounted
  <2> QED
    BY <2>1, <2>2, <2>3 DEF ConformInv, ConformingQueue, ConformingFrontier
<1>2. ConformInv => ConformingNeverAccused
  BY DEF ConformInv, ConformingFrontier, ConformingNeverAccused
<1> QED
  BY <1>1, <1>2, EffectStep, QueueStep, ConformStep, PTL DEF RequestsSpec

----------------------------------------------------------------------------
(* The host of a session and the managers beside it. *)

HostPcs == {"new", "bound", "locked", "slot", "owner", "launch", "run", "calling", "aborting",
            "stopping", "release-owner", "release", "ended", "died"}
Cleanups == {"none", "owned", "failed", "verified"}
ExtRegistrations == 1..MaxExtRegs

EntrySet == [ExtRegistrations -> [epoch : Nat, enabled : BOOLEAN, grants : SUBSET ExtGrants]]
SlotID   == [session : ExtSessions \cup {NoBody}, reg : Nat, epoch : Nat, cleanup : Cleanups]
SlotSet  == [1..ExtSlots -> [by : ExtSessions \cup {NoBody}, id : SlotID]]
OwnerSet == [ExtSessions -> [held : BOOLEAN, cleanup : Cleanups, reg : Nat]]
HostSet  == [ExtSessions -> [pc : HostPcs, reg : Nat, epoch : Nat, slot : Nat,
                             child : BOOLEAN, call : BOOLEAN]]
CommandSet == [pc : {"idle", "wait", "retire", "unset", "edit"}, reg : Nat, epoch : Nat,
               at : Nat, busy : BOOLEAN, kind : {"none", "enable", "disable"}]
MgrSet    == [DOMAIN ExtManagers -> CommandSet]
ReportSet == [kind : {"none", "enable", "disable", "remove"}, reg : Nat, epoch : Nat]

HostTypeOK ==
  /\ extRegs \in Nat /\ extRegs <= MaxExtRegs /\ extReg \in Nat /\ extReg <= extRegs
  /\ extEdits \in Nat
  /\ extEntry \in EntrySet /\ extSlot \in SlotSet /\ extOwner \in OwnerSet
  /\ extSess \in HostSet /\ extMgr \in MgrSet /\ extReports \subseteq ReportSet

\* From the lock on, the slot is the session's; from the owner file on, so is what
\* the slot says.
HasSlot(s)  == extSess[s].pc \in {"locked", "slot", "owner", "launch", "run", "calling", "aborting",
                                  "stopping", "release-owner", "release"}
HasOwner(s) == extSess[s].pc \in {"owner", "launch", "run", "calling", "aborting", "stopping",
                                  "release-owner"}
\* A process or a call of the session exists or is about to.
Launched(s) == extSess[s].pc \in {"launch", "run", "calling", "aborting", "stopping"} \/ Busy(s)

SlotHeld(s) ==
  /\ HasSlot(s) \/ Launched(s) => extSess[s].slot \in 1..ExtSlots
  /\ HasSlot(s) => extSlot[extSess[s].slot].by = s
  /\ (HasSlot(s) /\ extSess[s].pc # "locked") \/ Launched(s) =>
       /\ extSlot[extSess[s].slot].id.reg = extSess[s].reg
       /\ extSlot[extSess[s].slot].id.epoch = extSess[s].epoch
       /\ extSlot[extSess[s].slot].id.cleanup # "verified"
  /\ extSess[s].child /\ ~HasSlot(s) => extSlot[extSess[s].slot].by = NoBody
  /\ extSess[s].child => extSess[s].pc \notin {"new", "bound", "locked", "slot", "owner", "launch"}
  /\ extSess[s].call => extSess[s].pc \in {"calling", "aborting"}
SlotsHeld == \A s \in ExtSessions : SlotHeld(s)

\* An owner file is there as long as something of the session may be.
OwnerWritten(s) ==
  HasOwner(s) \/ Launched(s) => extOwner[s].reg = extSess[s].reg /\ extOwner[s].cleanup # "none"
OwnersWritten == \A s \in ExtSessions : OwnerWritten(s)

\* Epochs only grow: a manager that waits, and one that reported, set an epoch that
\* the entry still has or has left behind.
EpochsGrow ==
  /\ \A r \in ExtRegistrations : extEntry[r].epoch <= extEdits
  /\ \A m \in DOMAIN ExtManagers : extMgr[m].pc # "idle" => extMgr[m].reg \in ExtRegistrations
  /\ \A m \in DOMAIN ExtManagers : extMgr[m].pc = "wait" =>
       extMgr[m].epoch <= extEntry[extMgr[m].reg].epoch /\ extMgr[m].kind # "none"
  /\ \A r \in extReports : r.kind # "remove" =>
       r.reg \in ExtRegistrations /\ r.epoch <= extEntry[r.reg].epoch

\* A pass over the slots has missed none it went by.
PassMissesNone ==
  \A m \in DOMAIN ExtManagers : extMgr[m].pc = "wait" =>
    \A s \in ExtSessions :
      /\ Launched(s) /\ extSess[s].reg = extMgr[m].reg
      /\ extSess[s].epoch < extMgr[m].epoch /\ extSess[s].slot < extMgr[m].at
      => extMgr[m].busy
OlderAreGone ==
  \A r \in extReports : r.kind # "remove" =>
    \A s \in ExtSessions : Launched(s) /\ extSess[s].reg = r.reg => extSess[s].epoch >= r.epoch

\* A registration that was seen without owners after its revocation stays without.
RetiredHasNoOwner(reg) == reg \in extRevoked /\ OwnersOf(reg) = {}
RevokedStays ==
  /\ \A m \in DOMAIN ExtManagers :
       /\ extMgr[m].pc = "retire" => extMgr[m].reg \in extRevoked
       /\ extMgr[m].pc \in {"unset", "edit"} => RetiredHasNoOwner(extMgr[m].reg)
  /\ \A r \in extReports : r.kind = "remove" => RetiredHasNoOwner(r.reg)

HostInv == HostTypeOK /\ SlotsHeld /\ OwnersWritten /\ EpochsGrow /\ PassMissesNone
           /\ OlderAreGone /\ RevokedStays

----------------------------------------------------------------------------
(* What a step makes of a host, of a slot and of a manager's command. *)

HostBecomes(s, pc, slot, child, call) ==
  /\ extSess' \in HostSet
  /\ extSess'[s].pc = pc /\ extSess'[s].slot = slot
  /\ extSess'[s].child = child /\ extSess'[s].call = call
  /\ \A t \in ExtSessions \ {s} : extSess'[t] = extSess[t]
HostKeeps(s) == extSess'[s].reg = extSess[s].reg /\ extSess'[s].epoch = extSess[s].epoch

\* One step of a session writes one host record.
LEMMA HostMoves ==
  ASSUME HostTypeOK, NEW s \in ExtSessions
  PROVE  LET h == extSess[s] IN
    /\ \A pc \in HostPcs : Goes(s, pc) =>
         HostBecomes(s, pc, h.slot, h.child, h.call) /\ HostKeeps(s)
    /\ StartSession(s) => HostBecomes(s, "bound", 0, FALSE, FALSE)
    /\ \A i \in Nat : extSess' = [extSess EXCEPT ![s].pc = "locked", ![s].slot = i] =>
         HostBecomes(s, "locked", i, h.child, h.call) /\ HostKeeps(s)
    /\ StartChild(s) => HostBecomes(s, "run", h.slot, TRUE, h.call) /\ HostKeeps(s)
    /\ \A method \in Methods : Dispatch(s, method) =>
         HostBecomes(s, "calling", h.slot, h.child, TRUE) /\ HostKeeps(s)
    /\ CallReturns(s) =>
         HostBecomes(s, IF h.pc = "calling" THEN "run" ELSE "stopping", h.slot, h.child, FALSE)
         /\ HostKeeps(s)
    /\ extSess' = [extSess EXCEPT ![s].pc = "release-owner", ![s].child = FALSE] =>
         HostBecomes(s, "release-owner", h.slot, FALSE, h.call) /\ HostKeeps(s)
    /\ HostDies(s) => HostBecomes(s, "died", h.slot, h.child, FALSE) /\ HostKeeps(s)
<1> USE DEF HostBecomes, HostKeeps, HostTypeOK, HostSet, HostPcs
<1> DEFINE h == extSess[s]
<1>1. ASSUME NEW pc \in HostPcs, Goes(s, pc)
      PROVE  HostBecomes(s, pc, h.slot, h.child, h.call) /\ HostKeeps(s)
  BY <1>1 DEF Goes
<1>2. ASSUME StartSession(s) PROVE HostBecomes(s, "bound", 0, FALSE, FALSE)
  <2>1. extReg \in ExtRegistrations
    BY <1>2, ExtensionAssumption DEF StartSession, ExtRegistrations
  <2>2. extEntry[extReg].epoch \in Nat
    BY <2>1 DEF EntrySet
  <2> QED
    BY <1>2, <2>1, <2>2 DEF StartSession, NoHost, ExtRegistrations
<1>3. ASSUME NEW i \in Nat, extSess' = [extSess EXCEPT ![s].pc = "locked", ![s].slot = i]
      PROVE  HostBecomes(s, "locked", i, h.child, h.call) /\ HostKeeps(s)
  BY <1>3
<1>4. ASSUME StartChild(s) PROVE HostBecomes(s, "run", h.slot, TRUE, h.call) /\ HostKeeps(s)
  BY <1>4 DEF StartChild
<1>5. ASSUME NEW method \in Methods, Dispatch(s, method)
      PROVE  HostBecomes(s, "calling", h.slot, h.child, TRUE) /\ HostKeeps(s)
  BY <1>5 DEF Dispatch
<1>6. ASSUME CallReturns(s)
      PROVE  HostBecomes(s, IF h.pc = "calling" THEN "run" ELSE "stopping", h.slot, h.child, FALSE)
             /\ HostKeeps(s)
  BY <1>6 DEF CallReturns
<1>7. ASSUME extSess' = [extSess EXCEPT ![s].pc = "release-owner", ![s].child = FALSE]
      PROVE  HostBecomes(s, "release-owner", h.slot, FALSE, h.call) /\ HostKeeps(s)
  BY <1>7
<1>8. ASSUME HostDies(s) PROVE HostBecomes(s, "died", h.slot, h.child, FALSE) /\ HostKeeps(s)
  BY <1>8 DEF HostDies
<1> QED
  BY <1>1, <1>2, <1>3, <1>4, <1>5, <1>6, <1>7, <1>8

\* A manager's command after a step that writes it.
CommandBecomes(m, pc, at, busy) ==
  /\ extMgr' \in MgrSet
  /\ extMgr'[m].pc = pc /\ extMgr'[m].at = at /\ extMgr'[m].busy = busy
  /\ \A k \in DOMAIN ExtManagers \ {m} : extMgr'[k] = extMgr[k]
CommandKeeps(m) ==
  extMgr'[m].reg = extMgr[m].reg /\ extMgr'[m].epoch = extMgr[m].epoch /\ extMgr'[m].kind = extMgr[m].kind

LEMMA CommandMoves ==
  ASSUME HostTypeOK, NEW m \in DOMAIN ExtManagers
  PROVE  LET w == extMgr[m] IN
    /\ extMgr' = [extMgr EXCEPT ![m] = NoCommand] => CommandBecomes(m, "idle", 0, FALSE)
    /\ \A kind \in {"enable", "disable"} : Waits(m, kind) =>
         /\ CommandBecomes(m, "wait", 1, FALSE)
         /\ extMgr'[m].reg = extReg /\ extMgr'[m].epoch = extEdits + 1 /\ extMgr'[m].kind = kind
    /\ Retire(m) => CommandBecomes(m, "retire", 0, FALSE) /\ extMgr'[m].reg = extReg
    /\ extMgr' = [extMgr EXCEPT ![m] = [@ EXCEPT !.pc = "unset"]] =>
         CommandBecomes(m, "unset", w.at, w.busy) /\ CommandKeeps(m)
    /\ extMgr' = [extMgr EXCEPT ![m].pc = "edit"] =>
         CommandBecomes(m, "edit", w.at, w.busy) /\ CommandKeeps(m)
    /\ extMgr' = [extMgr EXCEPT ![m].at = @ + 1] =>
         CommandBecomes(m, w.pc, w.at + 1, w.busy) /\ CommandKeeps(m)
    /\ \A n \in Nat : extMgr' = [extMgr EXCEPT ![m].at = n, ![m].busy = TRUE] =>
         CommandBecomes(m, w.pc, n, TRUE) /\ CommandKeeps(m)
    /\ extMgr' = [extMgr EXCEPT ![m].at = 1, ![m].busy = FALSE] =>
         CommandBecomes(m, w.pc, 1, FALSE) /\ CommandKeeps(m)
<1> USE DEF CommandBecomes, CommandKeeps, MgrSet, CommandSet, HostTypeOK
<1> DEFINE w == extMgr[m]
<1>1. ASSUME extMgr' = [extMgr EXCEPT ![m] = NoCommand] PROVE CommandBecomes(m, "idle", 0, FALSE)
  BY <1>1 DEF NoCommand
<1>2. ASSUME NEW kind \in {"enable", "disable"}, Waits(m, kind)
      PROVE  /\ CommandBecomes(m, "wait", 1, FALSE)
             /\ extMgr'[m].reg = extReg /\ extMgr'[m].epoch = extEdits + 1 /\ extMgr'[m].kind = kind
  BY <1>2 DEF Waits
<1>3. ASSUME Retire(m) PROVE CommandBecomes(m, "retire", 0, FALSE) /\ extMgr'[m].reg = extReg
  BY <1>3 DEF Retire, NoCommand
<1>4. ASSUME extMgr' = [extMgr EXCEPT ![m] = [@ EXCEPT !.pc = "unset"]]
      PROVE  CommandBecomes(m, "unset", w.at, w.busy) /\ CommandKeeps(m)
  BY <1>4
<1>5. ASSUME extMgr' = [extMgr EXCEPT ![m].pc = "edit"]
      PROVE  CommandBecomes(m, "edit", w.at, w.busy) /\ CommandKeeps(m)
  BY <1>5
<1>6. ASSUME extMgr' = [extMgr EXCEPT ![m].at = @ + 1]
      PROVE  CommandBecomes(m, w.pc, w.at + 1, w.busy) /\ CommandKeeps(m)
  BY <1>6
<1>7. ASSUME NEW n \in Nat, extMgr' = [extMgr EXCEPT ![m].at = n, ![m].busy = TRUE]
      PROVE  CommandBecomes(m, w.pc, n, TRUE) /\ CommandKeeps(m)
  BY <1>7
<1>8. ASSUME extMgr' = [extMgr EXCEPT ![m].at = 1, ![m].busy = FALSE]
      PROVE  CommandBecomes(m, w.pc, 1, FALSE) /\ CommandKeeps(m)
  BY <1>8
<1> QED
  BY <1>1, <1>2, <1>3, <1>4, <1>5, <1>6, <1>7, <1>8

\* A session's step writes no slot but the one it takes or holds.
SlotsKept(i) == \A j \in 1..ExtSlots : j # i => extSlot'[j] = extSlot[j]

LEMMA SlotMoves ==
  ASSUME HostTypeOK, NEW s \in ExtSessions, NEW i \in 1..ExtSlots
  PROVE
    /\ extSlot' = [extSlot EXCEPT ![i].by = s] =>
         extSlot' \in SlotSet /\ SlotsKept(i) /\ extSlot'[i].by = s /\ extSlot'[i].id = extSlot[i].id
    /\ WriteOwner(s) /\ i = extSess[s].slot =>
         /\ extSlot' \in SlotSet /\ SlotsKept(i) /\ extSlot'[i].by = extSlot[i].by
         /\ extSlot'[i].id.reg = extSess[s].reg /\ extSlot'[i].id.epoch = extSess[s].epoch
         /\ extSlot'[i].id.cleanup = "owned"
    /\ ReleaseSlot(s) /\ i = extSess[s].slot =>
         /\ extSlot' \in SlotSet /\ SlotsKept(i) /\ extSlot'[i].by = NoBody
         /\ extSlot'[i].id.reg = extSlot[i].id.reg /\ extSlot'[i].id.epoch = extSlot[i].id.epoch
         /\ extSess[s].child => extSlot'[i].id.cleanup = "failed"
    /\ HostDies(s) =>
         /\ extSlot' \in SlotSet /\ extSlot'[i].id = extSlot[i].id
         /\ extSlot'[i].by = IF extSlot[i].by = s THEN NoBody ELSE extSlot[i].by
<1> USE DEF SlotsKept, HostTypeOK, SlotSet, SlotID, Cleanups
<1>0. extSess[s].reg \in Nat /\ extSess[s].epoch \in Nat
  BY DEF HostSet
<1>1. extSlot' = [extSlot EXCEPT ![i].by = s] =>
         extSlot' \in SlotSet /\ SlotsKept(i) /\ extSlot'[i].by = s /\ extSlot'[i].id = extSlot[i].id
  OBVIOUS
<1>2. ASSUME WriteOwner(s), i = extSess[s].slot
      PROVE /\ extSlot' \in SlotSet /\ SlotsKept(i) /\ extSlot'[i].by = extSlot[i].by
            /\ extSlot'[i].id.reg = extSess[s].reg /\ extSlot'[i].id.epoch = extSess[s].epoch
            /\ extSlot'[i].id.cleanup = "owned"
  BY <1>0, <1>2 DEF WriteOwner, OwnerID
<1>3. ASSUME ReleaseSlot(s), i = extSess[s].slot
      PROVE /\ extSlot' \in SlotSet /\ SlotsKept(i) /\ extSlot'[i].by = NoBody
            /\ extSlot'[i].id.reg = extSlot[i].id.reg /\ extSlot'[i].id.epoch = extSlot[i].id.epoch
            /\ extSess[s].child => extSlot'[i].id.cleanup = "failed"
  <2>1. Verified(s) \in Cleanups /\ (extSess[s].child => Verified(s) = "failed")
    BY DEF Verified
  <2>2. extSlot' = [extSlot EXCEPT ![i] = [by |-> NoBody, id |-> [extSlot[i].id EXCEPT !.cleanup = Verified(s)]]]
    BY <1>3 DEF ReleaseSlot
  <2> QED
    BY <2>1, <2>2
<1>4. ASSUME HostDies(s)
      PROVE  /\ extSlot' \in SlotSet /\ extSlot'[i].id = extSlot[i].id
             /\ extSlot'[i].by = IF extSlot[i].by = s THEN NoBody ELSE extSlot[i].by
  BY <1>4 DEF HostDies
<1> QED
  BY <1>1, <1>2, <1>3, <1>4

LEMMA EntryMoves ==
  ASSUME HostTypeOK, NEW reg \in ExtRegistrations, NEW grants \in SUBSET ExtGrants,
         NEW enabled \in BOOLEAN, SetEntry(reg, enabled, grants)
  PROVE  /\ extEntry' \in EntrySet /\ extEdits' = extEdits + 1
         /\ extEntry'[reg].epoch = extEdits + 1
         /\ \A r \in ExtRegistrations \ {reg} : extEntry'[r] = extEntry[r]
<1>1. [epoch |-> extEdits + 1, enabled |-> enabled, grants |-> grants] \in
        [epoch : Nat, enabled : BOOLEAN, grants : SUBSET ExtGrants]
  BY DEF HostTypeOK
<1> QED
  BY <1>1 DEF HostTypeOK, EntrySet, SetEntry

LEMMA RegistryTypes ==
  ASSUME HostTypeOK
  PROVE  /\ extReg # 0 => extReg \in ExtRegistrations
         /\ \A r \in ExtRegistrations : extEntry[r].epoch \in Nat /\ extEntry[r].grants \subseteq ExtGrants
         /\ \A m \in DOMAIN ExtManagers : extMgr[m] \in CommandSet
  BY ExtensionAssumption DEF HostTypeOK, ExtRegistrations, EntrySet, MgrSet

LEMMA HostTypeStep ==
  ASSUME HostTypeOK, SlotsHeld, EpochsGrow, [ExtensionNext]_extensionVars PROVE HostTypeOK'
<1> USE DEF HostTypeOK, extRegistry, extManaged
<1>a. ASSUME NEW s \in ExtSessions, SessionStep(s) PROVE HostTypeOK'
  <2>1. CASE StartSession(s)
    BY <2>1, HostMoves DEF StartSession, HostBecomes, HostPcs
  <2>2. CASE AcquireSlot(s)
    <3>1. CASE Goes(s, "ended") /\ UNCHANGED extSlot
      BY <2>2, <3>1, HostMoves DEF AcquireSlot, HostBecomes, HostPcs
    <3>2. ASSUME NEW i \in 1..ExtSlots, extSlot' = [extSlot EXCEPT ![i].by = s],
                 extSess' = [extSess EXCEPT ![s].pc = "locked", ![s].slot = i]
          PROVE  HostTypeOK'
      <4>0. i \in Nat
        BY ExtensionAssumption
      <4>1. extSess' \in HostSet
        BY <3>2, <4>0, HostMoves DEF HostBecomes
      <4>2. extSlot' \in SlotSet
        BY <3>2, SlotMoves
      <4> QED
        BY <2>2, <4>1, <4>2 DEF AcquireSlot
    <3> QED
      BY <2>2, <3>1, <3>2 DEF AcquireSlot
  <2>3. CASE WriteOwner(s)
    <3>1. extSess' \in HostSet
      BY <2>3, HostMoves DEF WriteOwner, HostBecomes, HostPcs
    <3>2. extSess[s].slot \in 1..ExtSlots
      BY <2>3 DEF WriteOwner, SlotsHeld, SlotHeld, HasSlot, At
    <3>3. extSlot' \in SlotSet
      BY <2>3, <3>2, SlotMoves
    <3> QED
      BY <2>3, <3>1, <3>3 DEF WriteOwner
  <2>4. CASE AcquireRegistrationOwner(s)
    <3>1. extSess' \in HostSet
      BY <2>4, HostMoves DEF AcquireRegistrationOwner, HostBecomes, HostPcs
    <3>2. extSess[s].reg \in Nat
      BY DEF HostSet
    <3>3. [held |-> TRUE, cleanup |-> "owned", reg |-> extSess[s].reg] \in
            [held : BOOLEAN, cleanup : Cleanups, reg : Nat]
      BY <3>2 DEF Cleanups
    <3>4. extOwner' \in OwnerSet
      BY <2>4, <3>3 DEF AcquireRegistrationOwner, OwnerSet
    <3> QED
      BY <2>4, <3>1, <3>4 DEF AcquireRegistrationOwner
  <2>5. CASE RecheckAgain(s)
    BY <2>5, HostMoves DEF RecheckAgain, HostBecomes, HostPcs
  <2>6. CASE StartChild(s)
    BY <2>6, HostMoves DEF StartChild, HostBecomes, HostPcs
  <2>14. CASE LaunchFails(s)
    BY <2>14, HostMoves DEF LaunchFails, HostBecomes, HostPcs
  <2>7. CASE \E method \in Methods : Dispatch(s, method)
    BY <2>7, HostMoves DEF Dispatch, HostBecomes, HostPcs
  <2>8. CASE CallReturns(s)
    BY <2>8, HostMoves DEF CallReturns, HostBecomes
  <2>9. CASE SessionAborts(s)
    BY <2>9, HostMoves DEF SessionAborts, HostBecomes, HostPcs
  <2>10. CASE CloseChild(s)
    BY <2>10, HostMoves DEF CloseChild, HostBecomes, HostPcs
  <2>11. CASE ReleaseOwner(s)
    <3>1. extSess' \in HostSet
      BY <2>11, HostMoves DEF ReleaseOwner, HostBecomes, HostPcs
    <3>2. extOwner' \in OwnerSet
      BY <2>11 DEF ReleaseOwner, OwnerSet, Cleanups
    <3> QED
      BY <2>11, <3>1, <3>2 DEF ReleaseOwner
  <2>12. CASE ReleaseSlot(s)
    <3>1. extSess' \in HostSet
      BY <2>12, HostMoves DEF ReleaseSlot, HostBecomes, HostPcs
    <3>2. extSess[s].slot \in 1..ExtSlots
      BY <2>12 DEF ReleaseSlot, SlotsHeld, SlotHeld, HasSlot, At
    <3>3. extSlot' \in SlotSet
      BY <2>12, <3>2, SlotMoves
    <3> QED
      BY <2>12, <3>1, <3>3 DEF ReleaseSlot
  <2>13. CASE HostDies(s)
    <3>1. extSess' \in HostSet
      BY <2>13, HostMoves DEF HostBecomes
    <3>2. extSlot' \in SlotSet
      BY <2>13 DEF HostDies, SlotSet
    <3>3. extOwner' \in OwnerSet
      BY <2>13 DEF HostDies, OwnerSet
    <3> QED
      BY <2>13, <3>1, <3>2, <3>3 DEF HostDies
  <2> QED
    BY <1>a, <2>1, <2>2, <2>3, <2>4, <2>5, <2>6, <2>7, <2>8, <2>9, <2>10, <2>11, <2>12,
       <2>13, <2>14 DEF SessionStep, MonitorTick
<1>b. ASSUME NEW m \in DOMAIN ExtManagers, ManagerStep(m) PROVE HostTypeOK'
  <2>1. CASE \E g \in {{"read"}, ExtGrants} : Enable(m, g)
    <3>1. PICK g \in {{"read"}, ExtGrants} : Enable(m, g)
      BY <2>1
    <3>2. extMgr' \in MgrSet
      BY <3>1, CommandMoves DEF Enable, CommandBecomes
    <3>3. extEntry' \in EntrySet /\ extEdits' = extEdits + 1
      BY <3>1, EntryMoves, RegistryTypes DEF Enable, ExtGrants
    <3> QED
      BY <3>1, <3>2, <3>3 DEF Enable
  <2>2. CASE Disable(m)
    <3>1. extMgr' \in MgrSet
      BY <2>2, CommandMoves DEF Disable, CommandBecomes
    <3>2. extEntry' \in EntrySet /\ extEdits' = extEdits + 1
      BY <2>2, EntryMoves, RegistryTypes DEF Disable
    <3> QED
      BY <2>2, <3>1, <3>2 DEF Disable
  <2>3. CASE Retire(m)
    BY <2>3, CommandMoves DEF Retire, NoCommand, CommandBecomes
  <2>4. CASE WaitStep(m)
    <3>1. extMgr[m].at + 1 \in Nat
      BY RegistryTypes DEF CommandSet
    <3>2. extMgr' \in MgrSet
      BY <2>4, <3>1, CommandMoves DEF WaitStep, CommandBecomes
    <3> QED
      BY <2>4, <3>2 DEF WaitStep
  <2>5. CASE WaitPassEnds(m)
    <3>1. extMgr' \in MgrSet
      BY <2>5, CommandMoves DEF WaitPassEnds, CommandBecomes, Reports
    <3>2. extReports' \subseteq ReportSet
      BY <2>5, RegistryTypes DEF WaitPassEnds, Reports, CommandSet, ReportSet
    <3> QED
      BY <2>5, <3>1, <3>2 DEF WaitPassEnds
  <2>6. CASE RetireWaits(m)
    BY <2>6, CommandMoves DEF RetireWaits, NoCommand, CommandBecomes
  <2>7. CASE Unset(m)
    <3>1. extMgr' \in MgrSet
      BY <2>7, CommandMoves DEF Unset, CommandBecomes
    <3>2. extMgr[m].reg \in ExtRegistrations
      BY <2>7 DEF Unset, EpochsGrow
    <3>3. extEntry[extMgr[m].reg].grants \in SUBSET ExtGrants
      BY <3>2, RegistryTypes
    <3>4. CASE SetEntry(extMgr[m].reg, FALSE, extEntry[extMgr[m].reg].grants)
      <4>1. extEntry' \in EntrySet /\ extEdits' = extEdits + 1
        BY <3>2, <3>3, <3>4, EntryMoves
      <4> QED
        BY <2>7, <3>1, <4>1 DEF Unset
    <3> QED
      BY <2>7, <3>1, <3>4 DEF Unset
  <2>8. CASE RemoveRegistration(m)
    <3>1. extMgr' \in MgrSet
      BY <2>8, CommandMoves DEF RemoveRegistration, CommandBecomes, Reports
    <3>2. extReports' \subseteq ReportSet
      BY <2>8, RegistryTypes DEF RemoveRegistration, Reports, CommandSet, ReportSet
    <3> QED
      BY <2>8, <3>1, <3>2 DEF RemoveRegistration
  <2>9. CASE GivesUp(m)
    BY <2>9, CommandMoves DEF GivesUp, NoCommand, CommandBecomes
  <2> QED
    BY <1>b, <2>1, <2>2, <2>3, <2>4, <2>5, <2>6, <2>7, <2>8, <2>9 DEF ManagerStep
<1>c. CASE Register
  BY <1>c, ExtensionAssumption DEF Register
<1>d. CASE ExecutableChanges
  BY <1>d DEF ExecutableChanges
<1>e. CASE UNCHANGED extensionVars
  BY <1>e DEF extensionVars
<1> QED
  BY <1>a, <1>b, <1>c, <1>d, <1>e DEF ExtensionNext

\* A session whose slot a step leaves alone keeps what it knows of it.
LEMMA SlotFrame ==
  ASSUME SlotsHeld, NEW t \in ExtSessions, extSess'[t] = extSess[t],
         HasSlot(t) \/ extSess[t].child => extSlot'[extSess[t].slot] = extSlot[extSess[t].slot]
  PROVE  SlotHeld(t)'
  BY DEF SlotsHeld, SlotHeld, HasSlot, Launched, Busy

\* Nobody's slot is written by anybody else.
LEMMA SlotsStep ==
  ASSUME HostTypeOK, SlotsHeld, [ExtensionNext]_extensionVars PROVE SlotsHeld'
<1>a. ASSUME NEW s \in ExtSessions, SessionStep(s) PROVE SlotsHeld'
  <2> DEFINE h == extSess[s]
  <2>q. SlotHeld(s)
    BY DEF SlotsHeld
  <2>s. ASSUME UNCHANGED extSlot, SlotHeld(s)', \A t \in ExtSessions \ {s} : extSess'[t] = extSess[t]
        PROVE  SlotsHeld'
    BY <2>s, SlotFrame DEF SlotsHeld
  <2>i. ASSUME NEW i \in 1..ExtSlots, SlotsKept(i), SlotHeld(s)',
               extSlot[i].by = s \/ (extSlot[i].by = NoBody /\ extSlot[i].id.cleanup = "verified"),
               \A t \in ExtSessions \ {s} : extSess'[t] = extSess[t]
        PROVE  SlotsHeld'
    <3> SUFFICES ASSUME NEW t \in ExtSessions \ {s} PROVE SlotHeld(t)'
      BY <2>i DEF SlotsHeld
    <3>1. SlotHeld(t)
      BY DEF SlotsHeld
    <3>2. HasSlot(t) \/ extSess[t].child => extSess[t].slot \in 1..ExtSlots /\ extSess[t].slot # i
      BY <2>i, <3>1, ExtensionAssumption DEF SlotHeld, Launched, Busy, NoBody, HasSlot
    <3> QED
      BY <2>i, <3>2, SlotFrame DEF SlotsKept
  <2>1. CASE StartSession(s)
    <3>1. HostBecomes(s, "bound", 0, FALSE, FALSE)
      BY <2>1, HostMoves
    <3>2. SlotHeld(s)'
      BY <3>1 DEF SlotHeld, HasSlot, Launched, Busy, HostBecomes
    <3> QED
      BY <2>1, <2>s, <3>1, <3>2 DEF StartSession, HostBecomes
  <2>2. CASE AcquireSlot(s)
    <3>1. CASE Goes(s, "ended") /\ UNCHANGED extSlot
      <4>1. HostBecomes(s, "ended", h.slot, h.child, h.call) /\ HostKeeps(s)
        BY <3>1, HostMoves DEF HostPcs
      <4>2. SlotHeld(s)'
        BY <2>q, <2>2, <4>1 DEF AcquireSlot, At, SlotHeld, HasSlot, Launched, Busy, HostBecomes
      <4> QED
        BY <2>s, <3>1, <4>1, <4>2 DEF HostBecomes
    <3>2. ASSUME NEW i \in 1..ExtSlots, FirstFree(i), extSlot[i].id.cleanup = "verified",
                 extSlot' = [extSlot EXCEPT ![i].by = s],
                 extSess' = [extSess EXCEPT ![s].pc = "locked", ![s].slot = i]
          PROVE  SlotsHeld'
      <4>0. i \in Nat /\ extSlot[i].by = NoBody
        BY <3>2, ExtensionAssumption DEF FirstFree, FreeSlots
      <4>1. HostBecomes(s, "locked", i, h.child, h.call) /\ HostKeeps(s)
        BY <3>2, <4>0, HostMoves
      <4>2. SlotsKept(i) /\ extSlot'[i].by = s
        BY <3>2, SlotMoves
      <4>3. SlotHeld(s)'
        BY <2>q, <2>2, <4>1, <4>2 DEF AcquireSlot, At, SlotHeld, HasSlot, Launched, Busy, HostBecomes
      <4> QED
        BY <2>i, <3>2, <4>0, <4>1, <4>2, <4>3 DEF HostBecomes
    <3> QED
      BY <2>2, <3>1, <3>2 DEF AcquireSlot
  <2>3. CASE WriteOwner(s)
    <3>1. HostBecomes(s, "slot", h.slot, h.child, h.call) /\ HostKeeps(s)
      BY <2>3, HostMoves DEF WriteOwner, HostPcs
    <3>2. h.slot \in 1..ExtSlots /\ extSlot[h.slot].by = s
      BY <2>q, <2>3 DEF WriteOwner, At, SlotHeld, HasSlot
    <3>3. /\ SlotsKept(h.slot) /\ extSlot'[h.slot].by = s
          /\ extSlot'[h.slot].id.reg = h.reg /\ extSlot'[h.slot].id.epoch = h.epoch
          /\ extSlot'[h.slot].id.cleanup = "owned"
      BY <2>3, <3>2, SlotMoves
    <3>4. SlotHeld(s)'
      BY <2>q, <2>3, <3>1, <3>2, <3>3 DEF WriteOwner, At, SlotHeld, HasSlot, Launched, Busy,
         HostBecomes, HostKeeps
    <3> QED
      BY <2>i, <3>1, <3>2, <3>3, <3>4 DEF HostBecomes
  <2>4. CASE AcquireRegistrationOwner(s)
    <3>1. \/ HostBecomes(s, "owner", h.slot, h.child, h.call) /\ HostKeeps(s)
          \/ HostBecomes(s, "release", h.slot, h.child, h.call) /\ HostKeeps(s)
      BY <2>4, HostMoves DEF AcquireRegistrationOwner, HostPcs
    <3>2. SlotHeld(s)'
      BY <2>q, <2>4, <3>1 DEF AcquireRegistrationOwner, SlotHeld, HasSlot, Launched, Busy, HostBecomes,
         HostKeeps, At
    <3> QED
      BY <2>4, <2>s, <3>1, <3>2 DEF AcquireRegistrationOwner, HostBecomes
  <2>5. CASE RecheckAgain(s)
    <3>1. \/ HostBecomes(s, "launch", h.slot, h.child, h.call) /\ HostKeeps(s)
          \/ HostBecomes(s, "release-owner", h.slot, h.child, h.call) /\ HostKeeps(s)
      BY <2>5, HostMoves DEF RecheckAgain, HostPcs
    <3>2. SlotHeld(s)'
      BY <2>q, <2>5, <3>1 DEF RecheckAgain, SlotHeld, HasSlot, Launched, Busy, HostBecomes, HostKeeps, At
    <3> QED
      BY <2>5, <2>s, <3>1, <3>2 DEF RecheckAgain, HostBecomes
  <2>6. CASE StartChild(s)
    <3>1. HostBecomes(s, "run", h.slot, TRUE, h.call) /\ HostKeeps(s)
      BY <2>6, HostMoves DEF StartChild, HostPcs
    <3>2. SlotHeld(s)'
      BY <2>q, <2>6, <3>1 DEF StartChild, SlotHeld, HasSlot, Launched, Busy, HostBecomes, HostKeeps, At
    <3> QED
      BY <2>6, <2>s, <3>1, <3>2 DEF StartChild, HostBecomes
  <2>14. CASE LaunchFails(s)
    <3>1. HostBecomes(s, "release-owner", h.slot, h.child, h.call) /\ HostKeeps(s)
      BY <2>14, HostMoves DEF LaunchFails, HostPcs
    <3>2. SlotHeld(s)'
      BY <2>q, <2>14, <3>1 DEF LaunchFails, SlotHeld, HasSlot, Launched, Busy, HostBecomes, HostKeeps, At
    <3> QED
      BY <2>14, <2>s, <3>1, <3>2 DEF LaunchFails, HostBecomes
  <2>7. CASE \E method \in Methods : Dispatch(s, method)
    <3>1. HostBecomes(s, "calling", h.slot, h.child, TRUE) /\ HostKeeps(s)
      BY <2>7, HostMoves DEF Dispatch, HostPcs
    <3>2. SlotHeld(s)'
      BY <2>q, <2>7, <3>1 DEF Dispatch, SlotHeld, HasSlot, Launched, Busy, HostBecomes, HostKeeps, At
    <3> QED
      BY <2>7, <2>s, <3>1, <3>2 DEF Dispatch, HostBecomes
  <2>8. CASE CallReturns(s)
    <3>1. HostBecomes(s, IF h.pc = "calling" THEN "run" ELSE "stopping", h.slot, h.child, FALSE) /\ HostKeeps(s)
      BY <2>8, HostMoves DEF CallReturns, HostPcs
    <3>2. SlotHeld(s)'
      BY <2>q, <2>8, <3>1 DEF CallReturns, SlotHeld, HasSlot, Launched, Busy, HostBecomes, HostKeeps, At
    <3> QED
      BY <2>8, <2>s, <3>1, <3>2 DEF CallReturns, HostBecomes
  <2>9. CASE SessionAborts(s)
    <3>1. \/ h.pc = "run" /\ HostBecomes(s, "stopping", h.slot, h.child, h.call) /\ HostKeeps(s)
          \/ h.pc = "calling" /\ HostBecomes(s, "aborting", h.slot, h.child, h.call) /\ HostKeeps(s)
      BY <2>9, HostMoves DEF SessionAborts, HostPcs, At
    <3>2. SlotHeld(s)'
      BY <2>q, <2>9, <3>1 DEF SessionAborts, SlotHeld, HasSlot, Launched, Busy, HostBecomes, HostKeeps, At
    <3> QED
      BY <2>9, <2>s, <3>1, <3>2 DEF SessionAborts, HostBecomes
  <2>10. CASE CloseChild(s)
    <3>1. \/ HostBecomes(s, "release-owner", h.slot, h.child, h.call) /\ HostKeeps(s)
          \/ HostBecomes(s, "release-owner", h.slot, FALSE, h.call) /\ HostKeeps(s)
      BY <2>10, HostMoves DEF CloseChild, HostPcs
    <3>2. SlotHeld(s)'
      BY <2>q, <2>10, <3>1 DEF CloseChild, SlotHeld, HasSlot, Launched, Busy, HostBecomes, HostKeeps, At
    <3> QED
      BY <2>10, <2>s, <3>1, <3>2 DEF CloseChild, HostBecomes
  <2>11. CASE ReleaseOwner(s)
    <3>1. (HostBecomes(s, "release", h.slot, h.child, h.call) /\ HostKeeps(s))
      BY <2>11, HostMoves DEF ReleaseOwner, HostPcs
    <3>2. SlotHeld(s)'
      BY <2>q, <2>11, <3>1 DEF ReleaseOwner, SlotHeld, HasSlot, Launched, Busy, HostBecomes, HostKeeps, At
    <3> QED
      BY <2>11, <2>s, <3>1, <3>2 DEF ReleaseOwner, HostBecomes
  <2>12. CASE ReleaseSlot(s)
    <3>1. HostBecomes(s, "ended", h.slot, h.child, h.call) /\ HostKeeps(s)
      BY <2>12, HostMoves DEF ReleaseSlot, HostPcs
    <3>2. h.slot \in 1..ExtSlots /\ extSlot[h.slot].by = s
      BY <2>q, <2>12 DEF ReleaseSlot, At, SlotHeld, HasSlot
    <3>3. /\ SlotsKept(h.slot) /\ extSlot'[h.slot].by = NoBody
          /\ extSlot'[h.slot].id.reg = extSlot[h.slot].id.reg
          /\ extSlot'[h.slot].id.epoch = extSlot[h.slot].id.epoch
          /\ h.child => extSlot'[h.slot].id.cleanup = "failed"
      BY <2>12, <3>2, SlotMoves
    <3>4. SlotHeld(s)'
      BY <2>q, <2>12, <3>1, <3>2, <3>3 DEF ReleaseSlot, At, SlotHeld, HasSlot, Launched, Busy,
         HostBecomes, HostKeeps
    <3> QED
      BY <2>i, <3>1, <3>2, <3>3, <3>4 DEF HostBecomes
  <2>13. CASE HostDies(s)
    <3>1. HostBecomes(s, "died", h.slot, h.child, FALSE) /\ HostKeeps(s)
      BY <2>13, HostMoves
    <3>2. \A i \in 1..ExtSlots :
            /\ extSlot'[i].id = extSlot[i].id
            /\ extSlot'[i].by = IF extSlot[i].by = s THEN NoBody ELSE extSlot[i].by
            /\ extSlot[i].by # s => extSlot'[i] = extSlot[i]
      BY <2>13, SlotMoves DEF HostDies
    <3>3. SlotHeld(s)'
      BY <2>q, <2>13, <3>1, <3>2 DEF HostDies, SlotHeld, HasSlot, Launched, Busy, HostBecomes, HostKeeps
    <3>4. ASSUME NEW t \in ExtSessions \ {s} PROVE SlotHeld(t)'
      <4>1. SlotHeld(t) /\ t # NoBody /\ s # NoBody
        BY ExtensionAssumption DEF SlotsHeld, NoBody
      <4>2. HasSlot(t) \/ extSess[t].child =>
              extSess[t].slot \in 1..ExtSlots /\ extSlot[extSess[t].slot].by # s
        BY <4>1 DEF SlotHeld, Launched, Busy
      <4> QED
        BY <3>1, <3>2, <4>2, SlotFrame DEF HostBecomes
    <3> QED
      BY <3>3, <3>4 DEF SlotsHeld
  <2> QED
    BY <1>a, <2>1, <2>2, <2>3, <2>4, <2>5, <2>6, <2>7, <2>8, <2>9, <2>10, <2>11, <2>12,
       <2>13, <2>14 DEF SessionStep, MonitorTick
<1>b. ASSUME UNCHANGED <<extSess, extSlot>> PROVE SlotsHeld'
  BY <1>b DEF SlotsHeld, SlotHeld, HasSlot, Launched, Busy
<1>c. ASSUME NEW m \in DOMAIN ExtManagers, ManagerStep(m) PROVE UNCHANGED <<extSess, extSlot>>
  BY <1>c DEF ManagerStep, Enable, Disable, Retire, WaitStep, WaitPassEnds, RetireWaits, Unset,
     RemoveRegistration, GivesUp
<1> QED
  BY <1>a, <1>b, <1>c DEF ExtensionNext, Register, ExecutableChanges, extensionVars


\* What a step of a session means to the managers: nothing is launched but after
\* the binding was checked again, and no owner is written of a revoked registration.
SessionEffect(s) ==
  /\ UNCHANGED <<extRegistry, extManaged>>
  /\ \A t \in ExtSessions \ {s} : extSess'[t] = extSess[t] /\ extOwner'[t] = extOwner[t]
  /\ Launched(s)' => /\ HostKeeps(s) /\ extSess'[s].slot = extSess[s].slot
                     /\ Launched(s) \/ Recheck(extSess[s].reg, extSess[s].epoch)
  /\ OwnerWritten(s)'
  /\ extOwner'[s].cleanup # "none" =>
       \/ extOwner'[s].reg \notin extRevoked
       \/ extOwner[s].cleanup # "none" /\ extOwner'[s].reg = extOwner[s].reg
LEMMA SessionEffects ==
  ASSUME HostTypeOK, SlotsHeld, NEW s \in ExtSessions, OwnerWritten(s), SessionStep(s)
  PROVE  SessionEffect(s)
<1> DEFINE h == extSess[s]
<1>q. SlotHeld(s)
  BY DEF SlotsHeld
<1>o. extOwner \in OwnerSet
  BY DEF HostTypeOK
<1>1. CASE StartSession(s)
  <2>1. HostBecomes(s, "bound", 0, FALSE, FALSE)
    BY <1>1, HostMoves DEF HostPcs
  <2> QED
    BY <1>q, <1>1, <2>1 DEF StartSession, SessionEffect, OwnerWritten, HasOwner, HasSlot, Launched,
       Busy, SlotHeld, HostBecomes, HostKeeps, At, extRegistry, extManaged
<1>2. CASE AcquireSlot(s)
  <2>1. ASSUME NEW i \in 1..ExtSlots, extSess' = [extSess EXCEPT ![s].pc = "locked", ![s].slot = i]
        PROVE  HostBecomes(s, "locked", i, h.child, h.call) /\ HostKeeps(s)
    <3>1. i \in Nat
      BY ExtensionAssumption
    <3> QED
      BY <2>1, <3>1, HostMoves
  <2>2. Goes(s, "ended") => HostBecomes(s, "ended", h.slot, h.child, h.call) /\ HostKeeps(s)
    BY HostMoves DEF HostPcs
  <2>3. \/ HostBecomes(s, "ended", h.slot, h.child, h.call) /\ HostKeeps(s)
        \/ \E i \in 1..ExtSlots : HostBecomes(s, "locked", i, h.child, h.call) /\ HostKeeps(s)
    BY <1>2, <2>1, <2>2 DEF AcquireSlot
  <2> QED
    BY <1>q, <1>2, <2>3 DEF AcquireSlot, SessionEffect, OwnerWritten, HasOwner, HasSlot, Launched,
       Busy, SlotHeld, HostBecomes, HostKeeps, At, extRegistry, extManaged
<1>3. CASE WriteOwner(s)
  <2>1. (HostBecomes(s, "slot", h.slot, h.child, h.call) /\ HostKeeps(s))
    BY <1>3, HostMoves DEF WriteOwner, HostPcs
  <2> QED
    BY <1>q, <1>3, <2>1 DEF WriteOwner, SessionEffect, OwnerWritten, HasOwner, HasSlot, Launched, Busy,
       SlotHeld, HostBecomes, HostKeeps, At, extRegistry, extManaged
<1>4. CASE AcquireRegistrationOwner(s)
  <2>1. \/ OwnerCheck(s) /\ HostBecomes(s, "owner", h.slot, h.child, h.call) /\ HostKeeps(s)
        \/ ~OwnerCheck(s) /\ HostBecomes(s, "release", h.slot, h.child, h.call) /\ HostKeeps(s)
    BY <1>4, HostMoves DEF AcquireRegistrationOwner, HostPcs
  <2>2. /\ \A t \in ExtSessions \ {s} : extOwner'[t] = extOwner[t]
        /\ ~OwnerCheck(s) => UNCHANGED extOwner
        /\ OwnerCheck(s) => extOwner'[s].reg = h.reg /\ extOwner'[s].cleanup = "owned"
    BY <1>o, <1>4 DEF AcquireRegistrationOwner, OwnerSet
  <2> QED
    BY <1>q, <1>4, <2>1, <2>2 DEF AcquireRegistrationOwner, OwnerCheck, SessionEffect, OwnerWritten,
       HasOwner, HasSlot, Launched, Busy, SlotHeld, HostBecomes, HostKeeps, At, extRegistry, extManaged
<1>5. CASE RecheckAgain(s)
  <2>1. \/ RecheckOwned(s) /\ HostBecomes(s, "launch", h.slot, h.child, h.call) /\ HostKeeps(s)
        \/ HostBecomes(s, "release-owner", h.slot, h.child, h.call) /\ HostKeeps(s)
    BY <1>5, HostMoves DEF RecheckAgain, HostPcs
  <2> QED
    BY <1>q, <1>5, <2>1 DEF RecheckAgain, RecheckOwned, SessionEffect, OwnerWritten, HasOwner, HasSlot,
       Launched, Busy, SlotHeld, HostBecomes, HostKeeps, At, extRegistry, extManaged
<1>6. CASE StartChild(s)
  <2>1. HostBecomes(s, "run", h.slot, TRUE, h.call) /\ HostKeeps(s)
    BY <1>6, HostMoves DEF HostPcs
  <2> QED
    BY <1>q, <1>6, <2>1 DEF StartChild, SessionEffect, OwnerWritten, HasOwner, HasSlot, Launched, Busy,
       SlotHeld, HostBecomes, HostKeeps, At, extRegistry, extManaged
<1>14. CASE LaunchFails(s)
  <2>1. HostBecomes(s, "release-owner", h.slot, h.child, h.call) /\ HostKeeps(s)
    BY <1>14, HostMoves DEF LaunchFails, HostPcs
  <2> QED
    BY <1>q, <1>14, <2>1 DEF LaunchFails, SessionEffect, OwnerWritten, HasOwner, HasSlot, Launched, Busy,
       SlotHeld, HostBecomes, HostKeeps, At, extRegistry, extManaged
<1>7. CASE \E method \in Methods : Dispatch(s, method)
  <2>1. HostBecomes(s, "calling", h.slot, h.child, TRUE) /\ HostKeeps(s)
    BY <1>7, HostMoves DEF HostPcs
  <2> QED
    BY <1>q, <1>7, <2>1 DEF Dispatch, SessionEffect, OwnerWritten, HasOwner, HasSlot, Launched, Busy,
       SlotHeld, HostBecomes, HostKeeps, At, extRegistry, extManaged
<1>8. CASE CallReturns(s)
  <2>1. HostBecomes(s, IF h.pc = "calling" THEN "run" ELSE "stopping", h.slot, h.child, FALSE) /\ HostKeeps(s)
    BY <1>8, HostMoves DEF HostPcs
  <2> QED
    BY <1>q, <1>8, <2>1 DEF CallReturns, SessionEffect, OwnerWritten, HasOwner, HasSlot, Launched,
       Busy, SlotHeld, HostBecomes, HostKeeps, At, extRegistry, extManaged
<1>9. CASE SessionAborts(s)
  <2>1. \/ HostBecomes(s, "stopping", h.slot, h.child, h.call) /\ HostKeeps(s)
        \/ HostBecomes(s, "aborting", h.slot, h.child, h.call) /\ HostKeeps(s)
    BY <1>9, HostMoves DEF SessionAborts, HostPcs
  <2> QED
    BY <1>q, <1>9, <2>1 DEF SessionAborts, SessionEffect, OwnerWritten, HasOwner, HasSlot, Launched,
       Busy, SlotHeld, HostBecomes, HostKeeps, At, extRegistry, extManaged
<1>10. CASE CloseChild(s)
  <2>1. \/ HostBecomes(s, "release-owner", h.slot, h.child, h.call) /\ HostKeeps(s)
        \/ HostBecomes(s, "release-owner", h.slot, FALSE, h.call) /\ HostKeeps(s)
    BY <1>10, HostMoves DEF CloseChild, HostPcs
  <2> QED
    BY <1>q, <1>10, <2>1 DEF CloseChild, SessionEffect, OwnerWritten, HasOwner, HasSlot, Launched,
       Busy, SlotHeld, HostBecomes, HostKeeps, At, extRegistry, extManaged
<1>11. CASE ReleaseOwner(s)
  <2>1. (HostBecomes(s, "release", h.slot, h.child, h.call) /\ HostKeeps(s))
    BY <1>11, HostMoves DEF ReleaseOwner, HostPcs
  <2>2. /\ \A t \in ExtSessions \ {s} : extOwner'[t] = extOwner[t]
        /\ extOwner'[s].reg = extOwner[s].reg
        /\ h.child => extOwner'[s].cleanup = "failed"
        /\ extOwner'[s].cleanup # "none" => h.child
    BY <1>o, <1>11 DEF ReleaseOwner, OwnerSet
  <2> QED
    BY <1>q, <1>11, <2>1, <2>2 DEF ReleaseOwner, SessionEffect, OwnerWritten, HasOwner, HasSlot,
       Launched, Busy, SlotHeld, HostBecomes, HostKeeps, At, extRegistry, extManaged
<1>12. CASE ReleaseSlot(s)
  <2>1. (HostBecomes(s, "ended", h.slot, h.child, h.call) /\ HostKeeps(s))
    BY <1>12, HostMoves DEF ReleaseSlot, HostPcs
  <2> QED
    BY <1>q, <1>12, <2>1 DEF ReleaseSlot, SessionEffect, OwnerWritten, HasOwner, HasSlot, Launched,
       Busy, SlotHeld, HostBecomes, HostKeeps, At, extRegistry, extManaged
<1>13. CASE HostDies(s)
  <2>1. HostBecomes(s, "died", h.slot, h.child, FALSE) /\ HostKeeps(s)
    BY <1>13, HostMoves DEF HostPcs
  <2>2. /\ \A t \in ExtSessions \ {s} : extOwner'[t] = extOwner[t]
        /\ extOwner'[s].reg = extOwner[s].reg /\ extOwner'[s].cleanup = extOwner[s].cleanup
    BY <1>o, <1>13 DEF HostDies, OwnerSet
  <2> QED
    BY <1>q, <1>13, <2>1, <2>2 DEF HostDies, SessionEffect, OwnerWritten, HasOwner, HasSlot, Launched,
       Busy, SlotHeld, HostBecomes, HostKeeps, At, extRegistry, extManaged
<1> QED
  BY <1>1, <1>2, <1>3, <1>4, <1>5, <1>6, <1>7, <1>8, <1>9, <1>10, <1>11, <1>12, <1>13, <1>14 DEF SessionStep,
     MonitorTick

LEMMA OwnersStep ==
  ASSUME HostTypeOK, SlotsHeld, OwnersWritten, [ExtensionNext]_extensionVars PROVE OwnersWritten'
<1>1. ASSUME NEW s \in ExtSessions, SessionStep(s) PROVE OwnersWritten'
  <2>1. OwnerWritten(s)
    BY DEF OwnersWritten, OwnerWritten
  <2>2. SessionEffect(s)
    BY <1>1, <2>1, SessionEffects
  <2> QED
    BY <2>2 DEF SessionEffect, OwnersWritten, OwnerWritten, HasOwner, Launched, Busy
<1>2. ASSUME UNCHANGED <<extSess, extOwner>> PROVE OwnersWritten'
  BY <1>2 DEF OwnersWritten, OwnerWritten, HasOwner, Launched, Busy
<1>3. ASSUME NEW m \in DOMAIN ExtManagers, ManagerStep(m) PROVE UNCHANGED <<extSess, extOwner>>
  BY <1>3 DEF ManagerStep, Enable, Disable, Retire, WaitStep, WaitPassEnds, RetireWaits, Unset,
     RemoveRegistration, GivesUp
<1> QED
  BY <1>1, <1>2, <1>3 DEF ExtensionNext, Register, ExecutableChanges, extensionVars

\* What a manager's step leaves: a command of its own, and entries whose epochs
\* only grow.
ManagerEffect(m) ==
  /\ UNCHANGED <<extSess, extSlot, extOwner>>
  /\ extRevoked \subseteq extRevoked'
  /\ \A k \in DOMAIN ExtManagers \ {m} : extMgr'[k] = extMgr[k]
  /\ extEdits' \in Nat
  /\ \A r \in ExtRegistrations :
       /\ extEntry'[r].epoch <= extEdits' /\ extEntry[r].epoch <= extEntry'[r].epoch
  /\ \/ extMgr'[m].pc = "idle"
     \/ /\ extMgr'[m].pc = "wait" /\ extMgr'[m].kind # "none" /\ extMgr'[m].reg \in ExtRegistrations
        /\ extMgr'[m].epoch <= extEntry'[extMgr'[m].reg].epoch
        /\ \/ extMgr'[m].at = 1
           \/ /\ extMgr[m].pc = "wait" /\ CommandKeeps(m)
              /\ extMgr[m].at <= ExtSlots /\ extMgr'[m].at = extMgr[m].at + 1
              /\ extMgr[m].busy => extMgr'[m].busy
              /\ \A t \in ExtSessions :
                   (/\ Launched(t) /\ extSess[t].slot = extMgr[m].at
                    /\ extSess[t].reg = extMgr[m].reg /\ extSess[t].epoch < extMgr[m].epoch)
                   => extMgr'[m].busy
     \/ /\ extMgr'[m].pc \in {"retire", "unset", "edit"}
        /\ extMgr'[m].reg \in ExtRegistrations /\ extMgr'[m].reg \in extRevoked'
        /\ extMgr'[m].pc # "retire" => OwnersOf(extMgr'[m].reg) = {}
  /\ \A r \in extReports' \ extReports :
       \/ /\ r.kind = "remove" /\ extMgr[m].pc = "edit" /\ r.reg = extMgr[m].reg
       \/ /\ r.kind # "remove" /\ extMgr[m].pc = "wait" /\ r.reg = extMgr[m].reg
          /\ r.epoch = extMgr[m].epoch /\ extMgr[m].at > ExtSlots /\ ~extMgr[m].busy
LEMMA ManagerEffects ==
  ASSUME HostTypeOK, SlotsHeld, EpochsGrow, RevokedStays, NEW m \in DOMAIN ExtManagers, ManagerStep(m)
  PROVE  ManagerEffect(m)
<1> DEFINE w == extMgr[m]
<1>t. w \in CommandSet
  BY RegistryTypes
<1>r. extMgr[m].reg \in ExtRegistrations \/ extMgr[m].pc = "idle"
  BY DEF EpochsGrow
<1>e. \A r \in ExtRegistrations : extEntry[r].epoch \in Nat /\ extEntry[r].epoch <= extEdits
  BY RegistryTypes DEF EpochsGrow
<1>n. extEdits \in Nat
  BY DEF HostTypeOK
<1>s. ASSUME NEW reg \in ExtRegistrations, NEW grants \in SUBSET ExtGrants, NEW enabled \in BOOLEAN,
             SetEntry(reg, enabled, grants)
      PROVE  /\ extEdits' \in Nat /\ extEntry'[reg].epoch = extEdits + 1
             /\ \A r \in ExtRegistrations :
                  /\ extEntry'[r].epoch <= extEdits' /\ extEntry[r].epoch <= extEntry'[r].epoch
  <2>1. /\ extEdits' = extEdits + 1 /\ extEntry'[reg].epoch = extEdits + 1
        /\ \A r \in ExtRegistrations \ {reg} : extEntry'[r] = extEntry[r]
    BY <1>s, EntryMoves
  <2> QED
    BY <2>1, <1>e, <1>n
<1>1. ASSUME NEW g \in {{"read"}, ExtGrants}, Enable(m, g) PROVE ManagerEffect(m)
  <2>1. extReg \in ExtRegistrations /\ g \in SUBSET ExtGrants
    BY <1>1, RegistryTypes DEF Enable, ExtGrants
  <2>2. /\ CommandBecomes(m, "wait", 1, FALSE)
        /\ extMgr'[m].reg = extReg /\ extMgr'[m].epoch = extEdits + 1 /\ extMgr'[m].kind = "enable"
    BY <1>1, CommandMoves DEF Enable
  <2>3. /\ extEdits' \in Nat /\ extEntry'[extReg].epoch = extEdits + 1
        /\ \A r \in ExtRegistrations :
             /\ extEntry'[r].epoch <= extEdits' /\ extEntry[r].epoch <= extEntry'[r].epoch
    BY <1>1, <1>s, <2>1 DEF Enable
  <2> QED
    BY <1>1, <1>n, <2>1, <2>2, <2>3 DEF Enable, ManagerEffect, CommandBecomes
<1>2. CASE Disable(m)
  <2>1. extReg \in ExtRegistrations /\ extEntry[extReg].grants \in SUBSET ExtGrants
    BY <1>2, RegistryTypes DEF Disable
  <2>2. /\ CommandBecomes(m, "wait", 1, FALSE)
        /\ extMgr'[m].reg = extReg /\ extMgr'[m].epoch = extEdits + 1 /\ extMgr'[m].kind = "disable"
    BY <1>2, CommandMoves DEF Disable
  <2>3. /\ extEdits' \in Nat /\ extEntry'[extReg].epoch = extEdits + 1
        /\ \A r \in ExtRegistrations :
             /\ extEntry'[r].epoch <= extEdits' /\ extEntry[r].epoch <= extEntry'[r].epoch
    BY <1>2, <1>s, <2>1 DEF Disable
  <2> QED
    BY <1>2, <1>n, <2>1, <2>2, <2>3 DEF Disable, ManagerEffect, CommandBecomes
<1>3. CASE Retire(m)
  <2>1. CommandBecomes(m, "retire", 0, FALSE) /\ extMgr'[m].reg = extReg
    BY <1>3, CommandMoves
  <2>2. extReg \in ExtRegistrations
    BY <1>3, RegistryTypes DEF Retire
  <2> QED
    BY <1>3, <1>e, <1>n, <2>1, <2>2 DEF Retire, ManagerEffect, CommandBecomes
<1>4. CASE WaitStep(m)
  <2>1. /\ w.pc = "wait" /\ w.at <= ExtSlots /\ w.at \in Nat
        /\ UNCHANGED <<extRegistry, extSlot, extOwner, extSess, extReports, extFaults>>
    BY <1>4, <1>t DEF WaitStep, CommandSet
  <2>2. w.kind # "none" /\ w.epoch <= extEntry[w.reg].epoch
    BY <2>1 DEF EpochsGrow
  <2>3. CASE extMgr' = [extMgr EXCEPT ![m] = NoCommand]
    <3>1. CommandBecomes(m, "idle", 0, FALSE)
      BY <2>3, CommandMoves
    <3> QED
      BY <1>e, <1>n, <2>1, <3>1 DEF ManagerEffect, CommandBecomes, extRegistry
  <2>4. CASE extMgr' = [extMgr EXCEPT ![m].at = @ + 1, ![m].busy = TRUE]
    <3>1. w.at + 1 \in Nat
      BY <2>1
    <3>2. CommandBecomes(m, w.pc, w.at + 1, TRUE) /\ CommandKeeps(m)
      BY <2>4, <3>1, CommandMoves
    <3> QED
      BY <1>e, <1>n, <1>r, <2>1, <2>2, <3>2 DEF ManagerEffect, CommandBecomes, CommandKeeps, extRegistry
  <2>5. CASE /\ extMgr' = [extMgr EXCEPT ![m].at = @ + 1]
             /\ ~(extSlot[w.at].by = NoBody /\ LeftBehind(m, extSlot[w.at].id))
             /\ ~(extSlot[w.at].by # NoBody /\ Older(m, extSlot[w.at].id))
    <3>1. CommandBecomes(m, w.pc, w.at + 1, w.busy) /\ CommandKeeps(m)
      BY <2>5, CommandMoves
    <3>2. ASSUME NEW t \in ExtSessions, Launched(t), extSess[t].slot = w.at, extSess[t].reg = w.reg,
                 extSess[t].epoch < w.epoch
          PROVE  FALSE
      <4>1. SlotHeld(t) /\ t # NoBody
        BY ExtensionAssumption DEF SlotsHeld, NoBody
      <4>2. w.epoch \in Nat /\ extSess[t].epoch \in Nat
        BY <1>t DEF CommandSet, HostTypeOK, HostSet
      <4>3. /\ extSlot[w.at].id.reg = w.reg /\ extSlot[w.at].id.epoch # w.epoch
            /\ extSlot[w.at].id.cleanup # "verified"
        BY <3>2, <4>1, <4>2 DEF SlotHeld
      <4> QED
        BY <2>5, <4>3 DEF LeftBehind, Older
    <3> QED
      BY <1>e, <1>n, <1>r, <2>1, <2>2, <3>1, <3>2 DEF ManagerEffect, CommandBecomes, CommandKeeps,
         extRegistry
  <2> QED
    BY <1>4, <2>3, <2>4, <2>5 DEF WaitStep
<1>5. CASE WaitPassEnds(m)
  <2>1. /\ w.pc = "wait" /\ w.at > ExtSlots
        /\ UNCHANGED <<extRegistry, extSlot, extOwner, extSess, extFaults>>
    BY <1>5 DEF WaitPassEnds
  <2>2. w.kind \in {"enable", "disable"} /\ w.epoch <= extEntry[w.reg].epoch
    BY <1>t, <2>1 DEF EpochsGrow, CommandSet
  <2>3. CASE w.busy
    <3>1. CommandBecomes(m, w.pc, 1, FALSE) /\ CommandKeeps(m)
      BY <1>5, <2>3, CommandMoves DEF WaitPassEnds
    <3> QED
      BY <1>5, <1>e, <1>n, <1>r, <2>1, <2>2, <2>3, <3>1
         DEF WaitPassEnds, ManagerEffect, CommandBecomes, CommandKeeps, extRegistry
  <2>4. CASE ~w.busy
    <3>1. CommandBecomes(m, "idle", 0, FALSE)
      BY <1>5, <2>4, CommandMoves DEF WaitPassEnds, Reports
    <3>2. \A r \in extReports' \ extReports : r = [kind |-> w.kind, reg |-> w.reg, epoch |-> w.epoch]
      BY <1>5, <2>4 DEF WaitPassEnds, Reports
    <3> QED
      BY <1>e, <1>n, <2>1, <2>2, <2>4, <3>1, <3>2 DEF ManagerEffect, CommandBecomes, extRegistry
  <2> QED
    BY <2>3, <2>4
<1>6. CASE RetireWaits(m)
  <2>1. /\ w.pc = "retire" /\ UNCHANGED <<extRegistry, extSlot, extOwner, extSess, extReports, extFaults>>
    BY <1>6 DEF RetireWaits
  <2>2. w.reg \in extRevoked
    BY <2>1 DEF RevokedStays
  <2>3. CASE OwnersOf(w.reg) = {}
    <3>1. CommandBecomes(m, "unset", w.at, w.busy) /\ CommandKeeps(m)
      BY <1>6, <2>3, CommandMoves DEF RetireWaits
    <3> QED
      BY <1>e, <1>n, <1>r, <2>1, <2>2, <2>3, <3>1 DEF ManagerEffect, CommandBecomes, CommandKeeps,
         extRegistry
  <2>4. CASE OwnersOf(w.reg) # {}
    <3>1. CommandBecomes(m, "idle", 0, FALSE)
      BY <1>6, <2>4, CommandMoves DEF RetireWaits
    <3> QED
      BY <1>e, <1>n, <2>1, <3>1 DEF ManagerEffect, CommandBecomes, extRegistry
  <2> QED
    BY <2>3, <2>4
<1>7. CASE Unset(m)
  <2>1. w.pc = "unset" /\ w.reg \in ExtRegistrations
    BY <1>7, <1>r DEF Unset
  <2>2. RetiredHasNoOwner(w.reg)
    BY <2>1 DEF RevokedStays
  <2>3. CommandBecomes(m, "edit", w.at, w.busy) /\ CommandKeeps(m)
    BY <1>7, CommandMoves DEF Unset
  <2>4. extEntry[w.reg].grants \in SUBSET ExtGrants
    BY <2>1, RegistryTypes
  <2>5. /\ extEdits' \in Nat
        /\ \A r \in ExtRegistrations :
             /\ extEntry'[r].epoch <= extEdits' /\ extEntry[r].epoch <= extEntry'[r].epoch
    <3>1. CASE SetEntry(w.reg, FALSE, extEntry[w.reg].grants)
      BY <1>s, <2>1, <2>4, <3>1
    <3>2. CASE UNCHANGED <<extEntry, extEdits>>
      BY <1>e, <1>n, <3>2
    <3> QED
      BY <1>7, <3>1, <3>2 DEF Unset
  <2> QED
    BY <1>7, <2>1, <2>2, <2>3, <2>5 DEF Unset, ManagerEffect, CommandBecomes, CommandKeeps,
       RetiredHasNoOwner
<1>8. CASE RemoveRegistration(m)
  <2>1. CommandBecomes(m, "idle", 0, FALSE)
    BY <1>8, CommandMoves DEF RemoveRegistration, Reports
  <2>2. \A r \in extReports' \ extReports : r = [kind |-> "remove", reg |-> w.reg, epoch |-> w.epoch]
    BY <1>8 DEF RemoveRegistration, Reports
  <2> QED
    BY <1>8, <1>e, <1>n, <2>1, <2>2 DEF RemoveRegistration, ManagerEffect, CommandBecomes
<1>9. CASE GivesUp(m)
  <2>1. CommandBecomes(m, "idle", 0, FALSE)
    BY <1>9, CommandMoves DEF GivesUp
  <2> QED
    BY <1>9, <1>e, <1>n, <2>1 DEF GivesUp, ManagerEffect, CommandBecomes, extRegistry
<1> QED
  BY <1>1, <1>2, <1>3, <1>4, <1>5, <1>6, <1>7, <1>8, <1>9 DEF ManagerStep

\* The managers' part of the invariant.
LEMMA ManagersStep ==
  ASSUME HostInv, [ExtensionNext]_extensionVars
  PROVE  (EpochsGrow /\ PassMissesNone /\ OlderAreGone /\ RevokedStays)'
<1> USE DEF HostInv
<1>1. ASSUME NEW s \in ExtSessions, SessionStep(s)
      PROVE  (EpochsGrow /\ PassMissesNone /\ OlderAreGone /\ RevokedStays)'
  <2>1. OwnerWritten(s)
    BY DEF OwnersWritten, OwnerWritten
  <2>2. SessionEffect(s)
    BY <1>1, <2>1, SessionEffects
  <2>3. UNCHANGED <<extRegistry, extManaged>>
    BY <2>2 DEF SessionEffect
  <2>4. EpochsGrow'
    BY <2>3 DEF EpochsGrow, extRegistry, extManaged
  <2>5. ASSUME NEW reg \in ExtRegistrations, NEW epoch, epoch \in Nat, epoch <= extEntry[reg].epoch,
               Launched(s)', extSess'[s].reg = reg, extSess'[s].epoch < epoch
        PROVE  Launched(s) /\ HostKeeps(s) /\ extSess'[s].slot = extSess[s].slot
    <3>1. extSess[s].epoch \in Nat /\ extEntry[reg].epoch \in Nat
      BY RegistryTypes DEF HostTypeOK, HostSet
    <3> QED
      BY <2>2, <2>5, <3>1 DEF SessionEffect, HostKeeps, Recheck, Authorize
  <2>6. PassMissesNone'
    <3> SUFFICES ASSUME NEW m \in DOMAIN ExtManagers, extMgr[m].pc = "wait", NEW t \in ExtSessions,
                        Launched(t)', extSess'[t].reg = extMgr[m].reg,
                        extSess'[t].epoch < extMgr[m].epoch, extSess'[t].slot < extMgr[m].at
                 PROVE  extMgr[m].busy
      BY <2>3 DEF PassMissesNone, extManaged
    <3>1. extMgr[m].epoch \in Nat /\ extMgr[m].reg \in ExtRegistrations
          /\ extMgr[m].epoch <= extEntry[extMgr[m].reg].epoch
      BY RegistryTypes DEF CommandSet, EpochsGrow
    <3>2. Launched(t) /\ extSess'[t].reg = extSess[t].reg /\ extSess'[t].epoch = extSess[t].epoch
          /\ extSess'[t].slot = extSess[t].slot
      <4>1. CASE t = s
        BY <2>5, <3>1, <4>1 DEF HostKeeps
      <4>2. CASE t # s
        BY <2>2, <4>2 DEF SessionEffect, Launched, Busy
      <4> QED
        BY <4>1, <4>2
    <3> QED
      BY <3>2 DEF PassMissesNone
  <2>7. OlderAreGone'
    <3> SUFFICES ASSUME NEW r \in extReports, r.kind # "remove", NEW t \in ExtSessions,
                        Launched(t)', extSess'[t].reg = r.reg
                 PROVE  extSess'[t].epoch >= r.epoch
      BY <2>3 DEF OlderAreGone, extManaged
    <3>1. r.epoch \in Nat /\ r.reg \in ExtRegistrations /\ r.epoch <= extEntry[r.reg].epoch
      BY DEF HostTypeOK, ReportSet, EpochsGrow
    <3>2. CASE t # s
      BY <2>2, <3>2 DEF SessionEffect, Launched, Busy, OlderAreGone
    <3>3. CASE t = s
      <4>1. extSess[s].epoch \in Nat /\ extSess'[s].epoch = extSess[s].epoch
        BY <2>2, <3>3 DEF HostTypeOK, HostSet, SessionEffect, HostKeeps
      <4> QED
        BY <2>5, <3>1, <3>3, <4>1 DEF OlderAreGone, HostKeeps
    <3> QED
      BY <3>2, <3>3
  <2>8. RevokedStays'
    <3>1. \A reg : RetiredHasNoOwner(reg) => RetiredHasNoOwner(reg)'
      BY <2>2, <2>3 DEF SessionEffect, RetiredHasNoOwner, OwnersOf, extRegistry
    <3> QED
      BY <2>3, <3>1 DEF RevokedStays, extManaged, extRegistry
  <2> QED
    BY <2>4, <2>6, <2>7, <2>8
<1>2. ASSUME NEW m \in DOMAIN ExtManagers, ManagerStep(m)
      PROVE  (EpochsGrow /\ PassMissesNone /\ OlderAreGone /\ RevokedStays)'
  <2>1. ManagerEffect(m)
    BY <1>2, ManagerEffects
  <2>t. /\ \A r \in ExtRegistrations : extEntry[r].epoch \in Nat
        /\ \A k \in DOMAIN ExtManagers :
             extMgr[k].epoch \in Nat /\ extMgr[k].at \in Nat
        /\ \A s \in ExtSessions : extSess[s].epoch \in Nat /\ extSess[s].slot \in Nat
        /\ \A r \in extReports : r.epoch \in Nat
    BY RegistryTypes DEF CommandSet, HostTypeOK, HostSet, ReportSet
  <2>u. HostTypeOK'
    BY HostTypeStep
  <2>v. \A r \in ExtRegistrations : extEntry'[r].epoch \in Nat
    BY <2>u DEF HostTypeOK, EntrySet
  <2>2. EpochsGrow'
    <3>1. \A r \in ExtRegistrations : (extEntry[r].epoch <= extEdits)'
      BY <2>1 DEF ManagerEffect
    <3>2. ASSUME NEW k \in DOMAIN ExtManagers
          PROVE  (/\ extMgr[k].pc # "idle" => extMgr[k].reg \in ExtRegistrations
                  /\ extMgr[k].pc = "wait" =>
                       extMgr[k].epoch <= extEntry[extMgr[k].reg].epoch /\ extMgr[k].kind # "none")'
      <4>1. CASE k = m
        BY <2>1, <4>1 DEF ManagerEffect
      <4>2. CASE k # m
        BY <2>1, <2>t, <2>v, <4>2 DEF ManagerEffect, EpochsGrow
      <4> QED
        BY <4>1, <4>2
    <3>3. ASSUME NEW r \in extReports', r.kind # "remove"
          PROVE  r.reg \in ExtRegistrations /\ r.epoch <= extEntry'[r.reg].epoch
      BY <2>1, <2>t, <2>v, <3>3 DEF ManagerEffect, EpochsGrow
    <3> QED
      BY <3>1, <3>2, <3>3 DEF EpochsGrow
  <2>3. PassMissesNone'
    <3> SUFFICES ASSUME NEW k \in DOMAIN ExtManagers, extMgr'[k].pc = "wait", NEW t \in ExtSessions,
                        Launched(t), extSess[t].reg = extMgr'[k].reg,
                        extSess[t].epoch < extMgr'[k].epoch, extSess[t].slot < extMgr'[k].at
                 PROVE  extMgr'[k].busy
      BY <2>1 DEF PassMissesNone, ManagerEffect, Launched, Busy
    <3>1. CASE k # m
      BY <2>1, <3>1 DEF ManagerEffect, PassMissesNone
    <3>2. CASE k = m /\ extMgr'[m].at = 1
      <4>1. extSess[t].slot \in 1..ExtSlots
        BY DEF SlotsHeld, SlotHeld
      <4> QED
        BY <2>t, <3>2, <4>1
    <3>3. CASE k = m /\ extMgr'[m].at # 1
      <4>1. /\ extMgr[m].pc = "wait" /\ CommandKeeps(m)
            /\ extMgr[m].at <= ExtSlots /\ extMgr'[m].at = extMgr[m].at + 1
            /\ extMgr[m].busy => extMgr'[m].busy
            /\ (Launched(t) /\ extSess[t].slot = extMgr[m].at /\ extSess[t].reg = extMgr[m].reg
                    /\ extSess[t].epoch < extMgr[m].epoch) => extMgr'[m].busy
        BY <2>1, <3>3 DEF ManagerEffect
      <4>2. extSess[t].slot = extMgr[m].at \/ extSess[t].slot < extMgr[m].at
        BY <2>t, <3>3, <4>1
      <4> QED
        BY <3>3, <4>1, <4>2 DEF CommandKeeps, PassMissesNone
    <3> QED
      BY <3>1, <3>2, <3>3
  <2>4. OlderAreGone'
    <3> SUFFICES ASSUME NEW r \in extReports', r.kind # "remove", NEW t \in ExtSessions,
                        Launched(t), extSess[t].reg = r.reg
                 PROVE  extSess[t].epoch >= r.epoch
      BY <2>1 DEF OlderAreGone, ManagerEffect, Launched, Busy
    <3>1. CASE r \in extReports
      BY <3>1 DEF OlderAreGone
    <3>2. CASE r \notin extReports
      <4>1. extMgr[m].pc = "wait" /\ r.reg = extMgr[m].reg /\ r.epoch = extMgr[m].epoch
            /\ extMgr[m].at > ExtSlots /\ ~extMgr[m].busy
        BY <2>1, <3>2 DEF ManagerEffect
      <4>2. extSess[t].slot \in 1..ExtSlots
        BY DEF SlotsHeld, SlotHeld
      <4>3. extSess[t].slot < extMgr[m].at
        BY <2>t, <4>1, <4>2, ExtensionAssumption
      <4> QED
        BY <2>t, <4>1, <4>3 DEF PassMissesNone
    <3> QED
      BY <3>1, <3>2
  <2>5. RevokedStays'
    <3>1. \A reg : RetiredHasNoOwner(reg) => RetiredHasNoOwner(reg)'
      BY <2>1 DEF ManagerEffect, RetiredHasNoOwner, OwnersOf
    <3>2. OwnersOf(extMgr'[m].reg) = {} => (OwnersOf(extMgr[m].reg))' = {}
      BY <2>1 DEF ManagerEffect, OwnersOf
    <3>3. ASSUME NEW k \in DOMAIN ExtManagers
          PROVE  (/\ extMgr[k].pc = "retire" => extMgr[k].reg \in extRevoked
                  /\ extMgr[k].pc \in {"unset", "edit"} => RetiredHasNoOwner(extMgr[k].reg))'
      <4>1. CASE k # m
        BY <2>1, <3>1, <4>1 DEF ManagerEffect, RevokedStays, RetiredHasNoOwner, OwnersOf
      <4>2. CASE k = m
        BY <2>1, <3>2, <4>2 DEF ManagerEffect, RetiredHasNoOwner
      <4> QED
        BY <4>1, <4>2
    <3>4. ASSUME NEW r \in extReports', r.kind = "remove" PROVE RetiredHasNoOwner(r.reg)'
      BY <2>1, <3>1, <3>4 DEF ManagerEffect, RevokedStays
    <3> QED
      BY <3>3, <3>4 DEF RevokedStays
  <2> QED
    BY <2>2, <2>3, <2>4, <2>5
<1>3. ASSUME UNCHANGED <<extEntry, extEdits, extRevoked, extSlot, extOwner, extSess, extMgr, extReports>>
      PROVE  (EpochsGrow /\ PassMissesNone /\ OlderAreGone /\ RevokedStays)'
  BY <1>3 DEF EpochsGrow, PassMissesNone, OlderAreGone, RevokedStays, Launched, Busy, RetiredHasNoOwner,
     OwnersOf
<1> QED
  BY <1>1, <1>2, <1>3 DEF ExtensionNext, Register, ExecutableChanges, extensionVars, extManaged

\* Once a manager reported success, what it took back has stopped, in every
\* interleaving of sessions and managers, hosts that died and children that did not
\* stop included (process.go WaitRetired, registration.go RetireRegistration).
THEOREM RetiredStopped == ExtensionSpec => []RetiredMeansStopped
<1>1. ExtensionInit => HostInv
  <2> SUFFICES ASSUME ExtensionInit PROVE HostInv
    OBVIOUS
  <2> USE DEF ExtensionInit
  <2>1. HostTypeOK
    <3>1. extEntry \in EntrySet
      BY DEF EntrySet, NoEntry, ExtRegistrations, ExtGrants
    <3>2. extSlot \in SlotSet
      BY DEF SlotSet, SlotID, NoOwnerID, OwnerID, Cleanups, NoBody
    <3>3. extOwner \in OwnerSet
      BY DEF OwnerSet, Cleanups
    <3>4. extSess \in HostSet
      BY DEF HostSet, NoHost, HostPcs
    <3>5. extMgr \in MgrSet
      BY DEF MgrSet, CommandSet, NoCommand
    <3> QED
      BY <3>1, <3>2, <3>3, <3>4, <3>5, ExtensionAssumption DEF HostTypeOK
  <2>2. \A s \in ExtSessions : ~HasSlot(s) /\ ~HasOwner(s) /\ ~Launched(s)
    BY DEF HasSlot, HasOwner, Launched, Busy, NoHost
  <2>3. \A s \in ExtSessions : ~extSess[s].child /\ ~extSess[s].call
    BY DEF NoHost
  <2>4. SlotsHeld /\ OwnersWritten
    BY <2>2, <2>3 DEF SlotsHeld, SlotHeld, OwnersWritten, OwnerWritten
  <2>5. \A m \in DOMAIN ExtManagers : extMgr[m].pc = "idle"
    BY DEF NoCommand
  <2> QED
    BY <2>1, <2>4, <2>5 DEF HostInv, EpochsGrow, PassMissesNone, OlderAreGone, RevokedStays,
       ExtRegistrations, NoEntry
<1>2. HostInv /\ [ExtensionNext]_extensionVars => HostInv'
  BY HostTypeStep, SlotsStep, OwnersStep, ManagersStep DEF HostInv
<1>3. HostInv => RetiredMeansStopped
  <2> SUFFICES ASSUME HostInv, NEW r \in extReports, NEW s \in ExtSessions,
                      extSess[s].reg = r.reg, Busy(s)
               PROVE  r.kind # "remove" /\ extSess[s].epoch >= r.epoch
    BY DEF RetiredMeansStopped
  <2>1. Launched(s)
    BY DEF Launched
  <2>2. extOwner[s].reg = r.reg /\ extOwner[s].cleanup # "none"
    BY <2>1 DEF HostInv, OwnersWritten, OwnerWritten
  <2>3. r.kind # "remove"
    BY <2>2 DEF HostInv, RevokedStays, RetiredHasNoOwner, OwnersOf
  <2> QED
    BY <2>1, <2>3 DEF HostInv, OlderAreGone
<1> QED
  BY <1>1, <1>2, <1>3, PTL DEF ExtensionSpec
=============================================================================
