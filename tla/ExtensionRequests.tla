-------------------------- MODULE ExtensionRequests --------------------------
(***************************************************************************)
(* One extension session's requests (internal/extension/session.go Run,    *)
(* sessionReader, writeFrame; protocol.go InspectMessage; the dispatch of  *)
(* extension_host_command.go).  Four threads of the host meet here: the    *)
(* main loop, the reader of the module's frames, the writer of one         *)
(* response, and the handler of one request; the monitor shows as an abort *)
(* that may come at any moment.                                            *)
(*                                                                         *)
(* A frame is [kind, id, mut].  The module may send anything at any time;  *)
(* xrConforms says whether it has kept to one outstanding request so far.  *)
(***************************************************************************)
EXTENDS Naturals, Sequences

CONSTANTS
  MaxXrRequests, \* bound: requests the module sends
  MaxXrFrames    \* bound: frames in all

ASSUME RequestsAssumption == {MaxXrRequests, MaxXrFrames} \subseteq Nat

VARIABLES
  xrPipe,     \* frames written by the module and not yet read
  xrSent,     \* frames and requests the module wrote
  xrConforms, \* the module has one outstanding request at most, and no other fault
  xrReader,   \* the event the reader holds, and its sequence number
  xrFrames,   \* the channel to the main loop: at most one event
  xrPc,       \* the main loop: where it is
  xrReq,      \* ... the request it works on
  xrPending,  \* ... the event it holds back
  xrConsumed, \* ... the last sequence number it disposed of
  xrSettled,  \* ... the mark taken when the write was joined
  xrCause,    \* ... why it gives the request up
  xrSeen,     \* ... the request ids it admitted
  xrWriter,   \* the response writer, and the mark it offered
  xrCall,     \* the handler of the current request
  xrEffects,  \* mutations that took effect
  xrAnswered, \* requests whose whole response was written
  xrOutcome   \* what the run reports

xrMain      == <<xrPc, xrReq, xrPending, xrConsumed, xrSettled, xrCause, xrSeen>>
requestVars == <<xrPipe, xrSent, xrConforms, xrReader, xrFrames, xrMain, xrWriter, xrCall,
                 xrEffects, xrAnswered, xrOutcome>>

Frame(kind, id, mut) == [kind |-> kind, id |-> id, mut |-> mut]
NoFrame   == Frame("none", 0, FALSE)
Event(f, n) == [frame |-> f, seq |-> n]
NoEvent   == Event(NoFrame, 0)
NoMark    == [set |-> FALSE, seq |-> 0]
Mark(n)   == [set |-> TRUE, seq |-> n]
NoCall    == [state |-> "none", err |-> "none", sent |-> FALSE]
NoWriter  == [state |-> "none", offered |-> NoMark]
\* A deadline or a cancelled host, and the causes of the monitor.
Interrupts == {"cancelled", "denied_access"}

RequestsInit ==
  /\ xrPipe = <<>> /\ xrSent = [frames |-> 0, requests |-> 0] /\ xrConforms = TRUE
  /\ xrReader = [event |-> NoEvent, seq |-> 0, open |-> TRUE] /\ xrFrames = <<>>
  /\ xrPc = "idle" /\ xrReq = NoFrame /\ xrPending = NoEvent /\ xrConsumed = 0
  /\ xrSettled = NoMark /\ xrCause = "none" /\ xrSeen = {}
  /\ xrWriter = NoWriter /\ xrCall = NoCall
  /\ xrEffects = {} /\ xrAnswered = {} /\ xrOutcome = "running"

-----------------------------------------------------------------------------
(* The module. *)

Outstanding == \E i \in 1..xrSent.requests : i \notin xrAnswered

Send(f, conforms) ==
  /\ xrOutcome = "running" /\ xrSent.frames < MaxXrFrames
  /\ xrPipe' = Append(xrPipe, f)
  /\ xrSent' = [frames   |-> IF f.kind = "eof" THEN MaxXrFrames ELSE xrSent.frames + 1,
                requests |-> IF f.kind = "request" /\ f.id > xrSent.requests
                             THEN f.id ELSE xrSent.requests]
  /\ xrConforms' = (xrConforms /\ conforms)
  /\ UNCHANGED <<xrReader, xrFrames, xrMain, xrWriter, xrCall, xrEffects, xrAnswered, xrOutcome>>

SendRequest(mut) ==
  /\ xrSent.requests < MaxXrRequests
  /\ Send(Frame("request", xrSent.requests + 1, mut), ~Outstanding)
SendAgain  == xrSent.requests > 0 /\ Send(Frame("request", 1, FALSE), FALSE)
SendCancel == xrSent.requests > 0 /\ Send(Frame("cancel", xrSent.requests, FALSE), FALSE)
SendBad    == Send(Frame("bad", 0, FALSE), FALSE)
SendEOF    == Send(Frame("eof", 0, FALSE), ~Outstanding)

-----------------------------------------------------------------------------
(* The reader: a frame has its place in the order once its first byte is read. *)

ReadFrame ==
  /\ xrOutcome = "running" /\ xrReader.event = NoEvent /\ xrReader.open /\ xrPipe # <<>>
  /\ xrReader' = [event |-> Event(Head(xrPipe), xrReader.seq + 1), seq |-> xrReader.seq + 1,
                  open |-> Head(xrPipe).kind # "eof"]
  /\ xrPipe' = Tail(xrPipe)
  /\ UNCHANGED <<xrSent, xrConforms, xrFrames, xrMain, xrWriter, xrCall, xrEffects, xrAnswered, xrOutcome>>
OfferFrame ==
  /\ xrReader.event # NoEvent /\ xrFrames = <<>>
  /\ xrFrames' = <<xrReader.event>>
  /\ xrReader' = [event |-> NoEvent, seq |-> xrReader.seq, open |-> xrReader.open]
  /\ UNCHANGED <<xrPipe, xrSent, xrConforms, xrMain, xrWriter, xrCall, xrEffects, xrAnswered, xrOutcome>>

-----------------------------------------------------------------------------
(* The main loop: admission and dispatch. *)

Ends(cause)  == xrOutcome' = cause
MainGoto(pc) == xrPc' = pc
MainHolds    == <<xrReq, xrPending, xrConsumed, xrSettled, xrSeen>>
InspectMessage(f, kind, id) == f.kind = kind /\ (kind = "cancel" => f.id = id)
xrOutside    == <<xrPipe, xrSent, xrConforms>>

Admit(e, rest) ==
  /\ xrFrames' = rest
  /\ CASE e.frame.kind = "eof" ->
            /\ xrOutcome' \in {"completed", "unavailable_module"}
            /\ MainGoto("ended") /\ UNCHANGED <<xrReq, xrConsumed, xrSettled, xrSeen>>
       [] InspectMessage(e.frame, "request", 0) /\ e.frame.id \notin xrSeen ->
            /\ MainGoto("admit") /\ xrReq' = e.frame /\ xrConsumed' = e.seq
            /\ xrSeen' = xrSeen \cup {e.frame.id} /\ xrSettled' = NoMark
            /\ UNCHANGED xrOutcome
       [] OTHER -> /\ Ends("invalid_input")
                   /\ MainGoto("ended") /\ UNCHANGED <<xrReq, xrConsumed, xrSettled, xrSeen>>
  /\ xrPending' = NoEvent
  /\ UNCHANGED <<xrOutside, xrReader, xrCause, xrWriter, xrCall, xrEffects, xrAnswered>>
AdmitNext ==
  /\ xrPc = "idle"
  /\ \/ xrPending # NoEvent /\ Admit(xrPending, xrFrames)
     \/ xrPending = NoEvent /\ xrFrames # <<>> /\ Admit(xrFrames[1], <<>>)
AbortIdle ==
  /\ xrPc = "idle" /\ xrPending = NoEvent
  /\ \E c \in Interrupts : Ends(c)
  /\ MainGoto("ended") /\ UNCHANGED <<MainHolds, xrCause>>
  /\ UNCHANGED <<xrOutside, xrReader, xrFrames, xrWriter, xrCall, xrEffects, xrAnswered>>

\* Ownership and binding checked again, then the handler starts; a request that is
\* refused here was not dispatched and its refusal is the response.
DispatchRequest ==
  /\ xrPc = "admit"
  /\ xrCall' \in {[state |-> "running", err |-> "none", sent |-> TRUE],
                  [state |-> "done", err |-> "denied_access", sent |-> FALSE]}
  /\ MainGoto("waiting") /\ UNCHANGED <<MainHolds, xrCause>>
  /\ UNCHANGED <<xrOutside, xrReader, xrFrames, xrWriter, xrEffects, xrAnswered, xrOutcome>>

\* The handler is synchronous and always returns.  "refused" stands for every error
\* of the checks before the append.  After it the admission may be left pending, or a
\* read may fail ("repository_error", here also invalid_history and the
\* concurrent_update of an append whose acknowledgement was lost), codes that the
\* append's own failure shares.
AfterAppend == {"admission_pending", "repository_error", "cancelled", "uncertain_operation"}
HandlerReturns ==
  /\ xrCall.state = "running"
  /\ \E err \in {"none", "refused"} \cup AfterAppend, effect \in BOOLEAN :
       /\ effect => xrReq.mut /\ err # "refused"
       /\ err = "none" /\ xrReq.mut => effect
       /\ err = "admission_pending" => effect
       /\ xrCall' = [state |-> "done", err |-> err, sent |-> xrCall.sent]
       /\ xrEffects' = IF effect THEN xrEffects \cup {xrReq.id} ELSE xrEffects
  /\ UNCHANGED <<xrOutside, xrReader, xrFrames, xrMain, xrWriter, xrAnswered, xrOutcome>>

\* A typed refusal that settles the mutation; one that counts every error as such:
AnyError(err)     == err # "none"
KnownRefusal(err) == err \notin {"none", "cancelled", "uncertain_operation"}
MutationFailure(err) == IF KnownRefusal(err) THEN err ELSE "uncertain_operation"
Failure(cause) == IF xrCall.sent /\ xrReq.mut THEN MutationFailure(xrCall.err) ELSE cause

\* While the handler runs: a deadline, an abort, or a frame of the module, which may
\* only be the cancellation of this request; each ends the session after the handler.
ControlCause(f) ==
  CASE f.kind = "eof" -> "unavailable_module"
    [] InspectMessage(f, "cancel", xrReq.id) -> "cancelled"
    [] OTHER -> "invalid_input"
Interrupted ==
  /\ xrPc = "waiting"
  /\ \/ /\ \E c \in Interrupts : MainGoto("joining") /\ xrCause' = c
        /\ UNCHANGED xrFrames
     \/ /\ xrFrames # <<>> /\ xrFrames' = <<>>
        /\ MainGoto("joining") /\ xrCause' = ControlCause(xrFrames[1].frame)
  /\ UNCHANGED <<xrOutside, MainHolds, xrReader, xrWriter, xrCall, xrEffects, xrAnswered, xrOutcome>>
JoinHandler ==
  /\ xrPc = "joining" /\ xrCall.state = "done"
  /\ Ends(Failure(xrCause))
  /\ MainGoto("ended") /\ UNCHANGED <<MainHolds, xrCause>>
  /\ UNCHANGED <<xrOutside, xrReader, xrFrames, xrWriter, xrCall, xrEffects, xrAnswered>>

\* The response is validated against the contract and its write begins.  When it is
\* not valid the error of InspectMessage ends the run (invalid_input or
\* resource_limit, named apart here from the accusations of the module).
Respond ==
  /\ xrPc = "waiting" /\ xrCall.state = "done"
  /\ MainGoto("writing") /\ UNCHANGED <<MainHolds, xrCause>>
  /\ xrWriter' = [state |-> "body", offered |-> NoMark]
  /\ UNCHANGED <<xrOutside, xrReader, xrFrames, xrCall, xrEffects, xrAnswered, xrOutcome>>
ResponseInvalid ==
  /\ xrPc = "waiting" /\ xrCall.state = "done"
  /\ Ends(Failure("invalid_response"))
  /\ MainGoto("ended") /\ UNCHANGED <<MainHolds, xrCause>>
  /\ UNCHANGED <<xrOutside, xrReader, xrFrames, xrWriter, xrCall, xrEffects, xrAnswered>>

-----------------------------------------------------------------------------
(* The writer and the settlement of a response. *)

\* The reader's sequence number is offered before the last byte is written.
WriteBody ==
  /\ xrWriter.state = "body"
  /\ xrWriter' = [state |-> "tail", offered |-> Mark(xrReader.seq)]
  /\ UNCHANGED <<xrOutside, xrReader, xrFrames, xrMain, xrCall, xrEffects, xrAnswered, xrOutcome>>
WriteTail ==
  /\ xrWriter.state = "tail"
  /\ xrWriter' = [state |-> "written", offered |-> xrWriter.offered]
  /\ xrAnswered' = xrAnswered \cup {xrReq.id}
  /\ UNCHANGED <<xrOutside, xrReader, xrFrames, xrMain, xrCall, xrEffects, xrOutcome>>
WriteFails ==
  /\ xrWriter.state \in {"body", "tail"}
  /\ xrWriter' = [state |-> "failed", offered |-> xrWriter.offered]
  /\ UNCHANGED <<xrOutside, xrReader, xrFrames, xrMain, xrCall, xrEffects, xrAnswered, xrOutcome>>

Joined == xrSettled.set

\* A successful write is joined, and the reader's sequence marked again.
JoinWriter ==
  /\ xrPc = "writing" /\ ~Joined /\ xrWriter.state = "written"
  /\ xrSettled' = Mark(xrReader.seq)
  /\ UNCHANGED <<xrPc, xrReq, xrPending, xrConsumed, xrCause, xrSeen>>
  /\ UNCHANGED <<xrOutside, xrReader, xrFrames, xrWriter, xrCall, xrEffects, xrAnswered, xrOutcome>>

\* Everything the reader has observed is disposed of: the next request may begin.
Advance ==
  /\ xrPc = "writing" /\ Joined /\ xrReader.seq = xrConsumed
  /\ MainGoto("idle") /\ UNCHANGED <<MainHolds, xrCause>>
  /\ xrWriter' = NoWriter /\ xrCall' = NoCall
  /\ UNCHANGED <<xrOutside, xrReader, xrFrames, xrEffects, xrAnswered, xrOutcome>>

\* The one frame that may come early: read after the last byte was offered; a rule
\* that waited for the joined write instead:
AfterJoin(e) == Joined /\ e.seq > xrSettled.seq
AfterTail(e) == xrWriter.offered.set /\ e.seq > xrWriter.offered.seq
Candidate(e) == xrPending = NoEvent /\ AfterTail(e) /\ e.frame.kind \in {"request", "eof"}
HoldCandidate ==
  /\ xrPc = "writing" /\ xrFrames # <<>> /\ Candidate(xrFrames[1])
  /\ xrPending' = xrFrames[1] /\ xrConsumed' = xrFrames[1].seq /\ xrFrames' = <<>>
  /\ UNCHANGED <<xrPc, xrReq, xrSettled, xrCause, xrSeen>>
  /\ UNCHANGED <<xrOutside, xrReader, xrWriter, xrCall, xrEffects, xrAnswered, xrOutcome>>

\* Otherwise the frame, an abort, a deadline or the write's failure ends the session.
WriteCause(e) ==
  CASE e.frame.kind = "eof" -> "unavailable_module"
    [] InspectMessage(e.frame, "cancel", xrReq.id)
         /\ ~(Joined /\ e.seq > xrSettled.seq) -> "cancelled"
    [] OTHER -> "invalid_input"
ResponseBroken ==
  /\ xrPc = "writing"
  /\ \/ /\ xrFrames # <<>> /\ ~Candidate(xrFrames[1]) /\ xrFrames' = <<>>
        /\ MainGoto("closing") /\ xrCause' = WriteCause(xrFrames[1])
     \/ /\ \E c \in Interrupts : MainGoto("closing") /\ xrCause' = c
        /\ UNCHANGED xrFrames
  /\ UNCHANGED <<xrOutside, MainHolds, xrReader, xrWriter, xrCall, xrEffects, xrAnswered, xrOutcome>>
JoinBrokenWriter ==
  /\ xrPc = "closing" /\ xrWriter.state \in {"written", "failed"}
  /\ Ends(Failure(xrCause))
  /\ MainGoto("ended") /\ UNCHANGED <<MainHolds, xrCause>>
  /\ UNCHANGED <<xrOutside, xrReader, xrFrames, xrWriter, xrCall, xrEffects, xrAnswered>>

-----------------------------------------------------------------------------

RequestsNext ==
  \/ (\E mut \in BOOLEAN : SendRequest(mut)) \/ SendAgain \/ SendCancel \/ SendBad \/ SendEOF
  \/ ReadFrame \/ OfferFrame
  \/ AdmitNext \/ AbortIdle \/ DispatchRequest \/ HandlerReturns \/ Interrupted \/ JoinHandler
  \/ Respond \/ ResponseInvalid \/ WriteBody \/ WriteTail \/ WriteFails
  \/ JoinWriter \/ Advance \/ HoldCandidate \/ ResponseBroken \/ JoinBrokenWriter

RequestsSpec == RequestsInit /\ [][RequestsNext]_requestVars

-----------------------------------------------------------------------------
(* Properties. *)

\* Nothing a module had done is lost from the report: when the run ends, every
\* mutation that took effect was answered in full, or it is the current request and
\* the run reports it as uncertain or with the very code its handler returned after
\* the append (a pending admission, a failed read), wherever the deadline, abort,
\* cancellation or end of the pipe fell: none of these is ever the report; and a
\* completed run answered every request the module sent (session.go
\* mutationFailure, "Only an actual settled typed handler refusal can displace
\* mutation uncertainty").
ReportsEffect(outcome, err) ==
  \/ outcome = "uncertain_operation"
  \/ outcome = err /\ outcome \in {"admission_pending", "repository_error"}
EffectsAccountedFor ==
  xrPc = "ended" =>
    /\ \A i \in xrEffects :
         i \in xrAnswered \/ (i = xrReq.id /\ ReportsEffect(xrOutcome, xrCall.err))
    /\ xrOutcome = "completed" => \A i \in 1..xrSent.requests : i \in xrAnswered

\* A module that sends its next request or closes its output only after the whole
\* response never loses its session to "second business request", however late the
\* host joins its own writer (session.go responseFrontier, advance).
ConformingNeverAccused ==
  xrConforms => xrOutcome # "invalid_input"
=============================================================================
