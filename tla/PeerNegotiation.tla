-------------------------- MODULE PeerNegotiation ---------------------------
(***************************************************************************)
(* The storage side of the eth peer (package eth in                        *)
(* core/vm/storage_contract_validation.go, lines 478-837): the messages a  *)
(* storage client and a storage host send each other to negotiate, the     *)
(* waits for the answer that race a timer and the end of the peer, the     *)
(* one-slot channels that refuse a second negotiation, and TriggerError.   *)
(*                                                                         *)
(* One connection is modelled, with the peer object at its client end and  *)
(* the one at its host end.  Client goroutines begin negotiations; the     *)
(* host's read loop starts a handler for each request it lets in.  What a  *)
(* message carries is left out: a message is its code and, for the         *)
(* properties only, the negotiation it was sent in.  Whether a signature   *)
(* or a proof received is valid is a choice of the party that answers.     *)
(***************************************************************************)
EXTENDS Integers, Sequences, FiniteSets, TLC

CONSTANTS
    Clients,        \* the client's goroutines that negotiate
    Requests,       \* the requests they make: codes that open a negotiation
    MaxSessions,    \* bound: negotiations begun
    ChanCap         \* capacity of the peer's channels (set where the peer is made)

VARIABLES
    lock,           \* tokens in the four chan struct{} of the peer
    inbox,          \* the p2p.Msg channels of the peer
    wire,           \* sent with p2p.Send to an end, not yet read by its read loop
    errMsg,         \* errors in p.errMsg, of each end
    stopped,        \* StopChan of each end is closed
    client,         \* the client's goroutines
    handler,        \* the host's handlers, by the negotiation they serve
    started,        \* negotiations begun
    quiet,          \* history: no wait has timed out so far
    strays          \* history: <<negotiation, negotiation of the message it took>>

vars == <<lock, inbox, wire, errMsg, stopped, client, handler, started, quiet, strays>>

Ends == {"client", "host"}
Other(end) == IF end = "client" THEN "host" ELSE "client"
Locks == {"hostConfigProcessing", "hostContractProcessing",
          "contractRevisingOrRenewing", "hostConfigRequesting"}
Inboxes == {"clientConfigMsg", "clientContractMsg", "hostContractMsg"}
Sessions == 1..MaxSessions

-----------------------------------------------------------------------------
(* The messages, and which answers which: from the comments of the         *)
(* functions that send them.                                               *)

ConfigExchange == [HostConfigReqMsg |-> {"HostConfigRespMsg"}]

ClientCommits == {"ClientCommitSuccessMsg", "ClientCommitFailedMsg"}

CreateExchange ==
    [ContractCreateReqMsg             |-> {"ContractCreateHostSign"},
     ContractCreateHostSign           |-> {"ContractCreateClientRevisionSign"},
     ContractCreateClientRevisionSign |-> {"ContractCreateRevisionSign"},
     ContractCreateRevisionSign       |-> ClientCommits]

UploadExchange ==
    [ContractUploadReqMsg             |-> {"ContractUploadMerkleProofMsg"},
     ContractUploadMerkleProofMsg     |-> {"ContractUploadClientRevisionSign"},
     ContractUploadClientRevisionSign |-> {"ContractUploadRevisionSign"},
     ContractUploadRevisionSign       |-> ClientCommits]

DownloadExchange ==
    [ContractDownloadReqMsg  |-> {"ContractDownloadDataMsg"},
     ContractDownloadDataMsg |-> ClientCommits]

\* The host's ack is "the last negotiate msg no matter what success or
\* failed"; a host whose own commit fails says so and is acknowledged.
CommitExchange ==
    [ClientCommitSuccessMsg |-> {"HostAckMsg", "HostCommitFailedMsg"},
     ClientCommitFailedMsg  |-> {"HostAckMsg"},
     HostCommitFailedMsg    |-> {"ClientAckMsg"}]

HostSends ==
    {"HostConfigRespMsg", "ContractCreateHostSign", "ContractCreateRevisionSign",
     "ContractUploadMerkleProofMsg", "ContractUploadRevisionSign",
     "ContractDownloadDataMsg", "HostBusyHandleReqMsg", "HostCommitFailedMsg",
     "HostAckMsg", "HostNegotiateErrorMsg"}

Negotiation == CreateExchange @@ UploadExchange @@ DownloadExchange
Exchange == ConfigExchange @@ Negotiation @@ CommitExchange

\* A party that does not accept what it received says so instead.
NegotiateError(code) ==
    IF code \in HostSends THEN "ClientNegotiateErrorMsg" ELSE "HostNegotiateErrorMsg"

\* The codes that may answer code; none when code ends the negotiation.
Answer(code) ==
    IF code \notin DOMAIN Exchange THEN {}
    ELSE Exchange[code] \cup
            (IF code \in DOMAIN Negotiation THEN {NegotiateError(code)} ELSE {})

Codes == DOMAIN Exchange \cup UNION {Answer(code) : code \in DOMAIN Exchange}
            \cup {"HostBusyHandleReqMsg"}
Msgs == [code : Codes, sid : Sessions]

KindOf(request) == IF request = "HostConfigReqMsg" THEN "config" ELSE "contract"

-----------------------------------------------------------------------------
(* The functions of the peer.                                              *)

\* select { case ch <- struct{}{}: ...; default: ... }: the case taken
\* when the channel has room.
Offer(l) == lock[l] < ChanCap /\ lock' = [lock EXCEPT ![l] = @ + 1]

OfferUnguarded(l) == lock' = [lock EXCEPT ![l] = IF @ < ChanCap THEN @ + 1 ELSE @]

\* select { case <-ch: ...; default: ... }: a token is taken if there is one.
Drain(l) == lock' = [lock EXCEPT ![l] = IF @ > 0 THEN @ - 1 ELSE @]

HostConfigProcessing == Offer("hostConfigProcessing")
HostConfigProcessingDone == Drain("hostConfigProcessing")

HostContractProcessingUnguarded == OfferUnguarded("hostContractProcessing")

HostContractProcessing == Offer("hostContractProcessing")
HostContractProcessingDone == Drain("hostContractProcessing")

TryToRenewOrReviseUnguarded == OfferUnguarded("contractRevisingOrRenewing")

TryToRenewOrRevise == Offer("contractRevisingOrRenewing")
RevisionOrRenewingDone == Drain("contractRevisingOrRenewing")

TryRequestHostConfigUnguarded == OfferUnguarded("hostConfigRequesting")

TryRequestHostConfig == Offer("hostConfigRequesting")
RequestHostConfigDone == Drain("hostConfigRequesting")

\* The body every Send and Request function has: checkPeerStopHook, and
\* p2p.Send if it returned no error.
Send(from, msg) ==
    IF stopped[from]
    THEN UNCHANGED wire
    ELSE wire' = [wire EXCEPT ![Other(from)] = Append(@, msg)]

\* What a wait returns when it returns no message.
Timeout == [code |-> "timeout", sid |-> 0]
ErrProgramExit == [code |-> "ErrProgramExit", sid |-> 0]

\* What a select over a message channel, the timer and StopChan may yield.
Select(ch, end) ==
    (IF inbox[ch] # <<>> THEN {Head(inbox[ch])} ELSE {})
        \cup {Timeout}
        \cup (IF stopped[end] THEN {ErrProgramExit} ELSE {})

WaitConfigResp == Select("clientConfigMsg", "client")
ClientWaitContractResp == Select("clientContractMsg", "client")

HostWaitContractRespForever == Select("hostContractMsg", "host") \ {Timeout}

HostWaitContractResp == Select("hostContractMsg", "host")

\* The message is taken from the channel the select yielded it from.
Received(ch, got) ==
    inbox' = [inbox EXCEPT ![ch] = IF got \in Msgs THEN Tail(@) ELSE @]

TriggerErrorWithoutDefault(end) == errMsg' = [errMsg EXCEPT ![end] = @ + 1]

\* TriggerError: the error is put in errMsg if there is room, dropped if not.
TriggerError(end) == errMsg[end] < ChanCap /\ errMsg' = [errMsg EXCEPT ![end] = @ + 1]

-----------------------------------------------------------------------------
(* The parties: a client goroutine and a host handler take the same steps, *)
(* each with its own functions of the peer.                                *)

Idle == [pc |-> "idle", kind |-> "config", sid |-> 0, code |-> "none"]

Party == [pc : {"send", "wait", "done"}, kind : {"config", "contract"},
          sid : Sessions, code : Codes]

\* me has sent me.code and got an outcome of its wait: it goes on with an
\* answer to the message, or is done when it got no message, one it did not
\* wait for, or the last one.
After(me, got) ==
    IF got \notin Msgs \/ got.code \notin Answer(me.code) \/ Answer(got.code) = {}
    THEN {[me EXCEPT !.pc = "done"]}
    ELSE {[me EXCEPT !.pc = "send", !.code = next] : next \in Answer(got.code)}

\* me after it sent me.code: it waits if an answer is due.
Sent(me, end) ==
    [me EXCEPT !.pc = IF stopped[end] \/ Answer(me.code) = {} THEN "done" ELSE "wait"]

\* The history of what the waits yielded.
Noted(me, got) ==
    /\ quiet' = (quiet /\ got # Timeout)
    /\ strays' = IF got \in Msgs /\ got.code \in Answer(me.code) /\ got.sid # me.sid
                 THEN strays \cup {<<me.sid, got.sid>>}
                 ELSE strays

\* A client goroutine takes the guard of its kind of negotiation.
Begin(c, request) ==
    /\ client[c].pc = "idle"
    /\ ~stopped.client
    /\ started < MaxSessions
    /\ \/ KindOf(request) = "config" /\ TryRequestHostConfig
       \/ KindOf(request) = "contract" /\ TryToRenewOrRevise
    /\ started' = started + 1
    /\ client' = [client EXCEPT ![c] = [pc |-> "send", kind |-> KindOf(request),
                                        sid |-> started', code |-> request]]
    /\ UNCHANGED <<inbox, wire, errMsg, stopped, handler, quiet, strays>>

ClientSend(c) ==
    LET me == client[c]
    IN  /\ me.pc = "send"
        /\ Send("client", [code |-> me.code, sid |-> me.sid])
        /\ client' = [client EXCEPT ![c] = Sent(me, "client")]
        /\ UNCHANGED <<lock, inbox, errMsg, stopped, handler, started, quiet, strays>>

ClientWait(c) ==
    LET me == client[c]
    IN  /\ me.pc = "wait"
        /\ \/ /\ me.kind = "config"
              /\ \E got \in WaitConfigResp :
                    /\ Received("clientConfigMsg", got)
                    /\ \E after \in After(me, got) : client' = [client EXCEPT ![c] = after]
                    /\ Noted(me, got)
           \/ /\ me.kind = "contract"
              /\ \E got \in ClientWaitContractResp :
                    /\ Received("clientContractMsg", got)
                    /\ \E after \in After(me, got) : client' = [client EXCEPT ![c] = after]
                    /\ Noted(me, got)
        /\ UNCHANGED <<lock, wire, errMsg, stopped, handler, started>>

ClientDone(c) ==
    LET me == client[c]
    IN  /\ me.pc = "done"
        /\ \/ me.kind = "config" /\ RequestHostConfigDone
           \/ me.kind = "contract" /\ RevisionOrRenewingDone
        /\ client' = [client EXCEPT ![c] = Idle]
        /\ UNCHANGED <<inbox, wire, errMsg, stopped, handler, started, quiet, strays>>

HandlerSend(s) ==
    LET me == handler[s]
    IN  /\ me.pc = "send"
        /\ \E code \in Answer(me.code) :
            LET reply == [me EXCEPT !.code = code]
            IN  /\ Send("host", [code |-> code, sid |-> s])
                /\ handler' = [handler EXCEPT ![s] = Sent(reply, "host")]
        /\ UNCHANGED <<lock, inbox, errMsg, stopped, client, started, quiet, strays>>

HandlerWait(s) ==
    LET me == handler[s]
    IN  /\ me.pc = "wait"
        /\ \E got \in HostWaitContractResp :
            /\ Received("hostContractMsg", got)
            /\ Noted(me, got)
            /\ IF got \in Msgs /\ got.code \in Answer(me.code) /\ Answer(got.code) # {}
               THEN handler' = [handler EXCEPT ![s] = [me EXCEPT !.pc = "send", !.code = got.code]]
               ELSE handler' = [handler EXCEPT ![s] = [me EXCEPT !.pc = "done"]]
        /\ UNCHANGED <<lock, wire, errMsg, stopped, client, started>>

HandlerDone(s) ==
    LET me == handler[s]
    IN  /\ me.pc = "done"
        /\ \/ me.kind = "config" /\ HostConfigProcessingDone
           \/ me.kind = "contract" /\ HostContractProcessingDone
        /\ handler' = [handler EXCEPT ![s] = Idle]
        /\ UNCHANGED <<inbox, wire, errMsg, stopped, client, started, quiet, strays>>

-----------------------------------------------------------------------------
(* The read loops of the two ends, which are outside this file: what they  *)
(* do with a message is taken from the comments of the functions above.    *)

\* The channel a message read at an end is put in.
Route(end, code) ==
    IF end = "host" THEN "hostContractMsg"
    ELSE IF code = "HostConfigRespMsg" THEN "clientConfigMsg" ELSE "clientContractMsg"

Head1(end) == Head(wire[end])

\* The read loop puts a message in its channel, when the channel has room.
Deliver(end) ==
    /\ ~stopped[end]
    /\ wire[end] # <<>>
    /\ Head1(end).code \notin Requests
    /\ Len(inbox[Route(end, Head1(end).code)]) < ChanCap
    /\ inbox' = [inbox EXCEPT ![Route(end, Head1(end).code)] = Append(@, Head1(end))]
    /\ wire' = [wire EXCEPT ![end] = Tail(@)]
    /\ UNCHANGED <<lock, errMsg, stopped, client, handler, started, quiet, strays>>

Serving(m) ==
    [handler EXCEPT ![m.sid] = [pc |-> "send", kind |-> KindOf(m.code),
                                sid |-> m.sid, code |-> m.code]]

\* The host's read loop meets a request: a handler is started if the guard
\* of its kind lets it in; a contract request that is not let in is
\* answered HostBusyHandleReqMsg, a configuration request is dropped.
Admit ==
    LET m == Head1("host")
        busy == [code |-> "HostBusyHandleReqMsg", sid |-> m.sid]
    IN  /\ ~stopped.host
        /\ wire.host # <<>>
        /\ m.code \in Requests
        /\ \/ /\ KindOf(m.code) = "config"
              /\ \/ /\ HostConfigProcessing
                    /\ handler' = Serving(m)
                 \/ /\ lock.hostConfigProcessing >= ChanCap
                    /\ UNCHANGED <<lock, handler>>
              /\ wire' = [wire EXCEPT !.host = Tail(@)]
           \/ /\ KindOf(m.code) = "contract"
              /\ \/ /\ HostContractProcessing
                    /\ handler' = Serving(m)
                    /\ wire' = [wire EXCEPT !.host = Tail(@)]
                 \/ /\ lock.hostContractProcessing >= ChanCap
                    /\ wire' = [wire EXCEPT !.host = Tail(@), !.client = Append(@, busy)]
                    /\ UNCHANGED <<lock, handler>>
        /\ UNCHANGED <<inbox, errMsg, stopped, client, started, quiet, strays>>

Parties(end) == IF end = "client" THEN {client[c] : c \in Clients}
                ELSE {handler[s] : s \in Sessions}

\* A party reports the error its negotiation ended with.
Report(end) ==
    /\ ~stopped[end]
    /\ \E party \in Parties(end) : party.pc = "done"
    /\ TriggerError(end)
    /\ UNCHANGED <<lock, inbox, wire, stopped, client, handler, started, quiet, strays>>

\* The read loop finds an error in errMsg and leaves: the peer stops.
Disconnect(end) ==
    /\ errMsg[end] > 0
    /\ ~stopped[end]
    /\ errMsg' = [errMsg EXCEPT ![end] = @ - 1]
    /\ stopped' = [stopped EXCEPT ![end] = TRUE]
    /\ UNCHANGED <<lock, inbox, wire, client, handler, started, quiet, strays>>

-----------------------------------------------------------------------------

Init ==
    /\ lock = [l \in Locks |-> 0]
    /\ inbox = [ch \in Inboxes |-> <<>>]
    /\ wire = [end \in Ends |-> <<>>]
    /\ errMsg = [end \in Ends |-> 0]
    /\ stopped = [end \in Ends |-> FALSE]
    /\ client = [c \in Clients |-> Idle]
    /\ handler = [s \in Sessions |-> Idle]
    /\ started = 0
    /\ quiet = TRUE
    /\ strays = {}

ClientStep(c) == ClientSend(c) \/ ClientWait(c) \/ ClientDone(c)
HandlerStep(s) == HandlerSend(s) \/ HandlerWait(s) \/ HandlerDone(s)

\* Nobody negotiates and nobody will.
Finished ==
    /\ started = MaxSessions \/ stopped.client
    /\ \A c \in Clients : client[c].pc = "idle"
    /\ \A s \in Sessions : handler[s].pc = "idle"
    /\ UNCHANGED vars

Next ==
    \/ \E c \in Clients, request \in Requests : Begin(c, request)
    \/ \E c \in Clients : ClientStep(c)
    \/ \E s \in Sessions : HandlerStep(s)
    \/ \E end \in Ends : Deliver(end) \/ Report(end) \/ Disconnect(end)
    \/ Admit
    \/ Finished

Spec == Init /\ [][Next]_vars

\* Goroutines that can take a step are scheduled, timers fire, and a read
\* loop that can read does.
FairSpec ==
    /\ Spec
    /\ \A c \in Clients : WF_vars(ClientStep(c))
    /\ \A s \in Sessions : WF_vars(HandlerStep(s))

-----------------------------------------------------------------------------
(* Properties.                                                             *)

TypeOK ==
    /\ lock \in [Locks -> 0..ChanCap]
    /\ errMsg \in [Ends -> 0..ChanCap]
    /\ stopped \in [Ends -> BOOLEAN]
    /\ \A ch \in Inboxes : inbox[ch] \in Seq(Msgs) /\ Len(inbox[ch]) <= ChanCap
    /\ \A end \in Ends : wire[end] \in Seq(Msgs)
    /\ client \in [Clients -> Party \cup {Idle}]
    /\ handler \in [Sessions -> Party \cup {Idle}]
    /\ started \in 0..MaxSessions
    /\ quiet \in BOOLEAN
    /\ strays \subseteq Sessions \X Sessions

Holding(parties, kind) ==
    {p \in DOMAIN parties : parties[p].pc # "idle" /\ parties[p].kind = kind}

HostConfigLock ==
    INSTANCE TryLock WITH Procs <- Sessions,
        held <- lock.hostConfigProcessing > 0, holders <- Holding(handler, "config")
HostContractLock ==
    INSTANCE TryLock WITH Procs <- Sessions,
        held <- lock.hostContractProcessing > 0, holders <- Holding(handler, "contract")
ClientConfigLock ==
    INSTANCE TryLock WITH Procs <- Clients,
        held <- lock.hostConfigRequesting > 0, holders <- Holding(client, "config")
ClientContractLock ==
    INSTANCE TryLock WITH Procs <- Clients,
        held <- lock.contractRevisingOrRenewing > 0, holders <- Holding(client, "contract")

\* Each of the four guard channels is a try-lock: HostConfigProcessing,
\* HostContractProcessing, TryRequestHostConfig and TryToRenewOrRevise let
\* one caller in and refuse the others until that caller's Done, also when
\* the guard is taken by the read loop and given back by the handler it
\* started, and when the peer stops in between.
GuardsAreTryLocks ==
    /\ HostConfigLock!Spec
    /\ HostContractLock!Spec
    /\ ClientConfigLock!Spec
    /\ ClientContractLock!Spec

\* While no wait has timed out, the message WaitConfigResp,
\* ClientWaitContractResp or HostWaitContractResp returns to a party that
\* waits for that code was sent in the party's own negotiation: answers do
\* not cross from one negotiation to the next, whatever the order in which
\* the goroutines, the handlers and the read loops run.
AnswersOwnRequest == quiet => strays = {}

\* While no wait has timed out, a read loop never finds the channel of the
\* message it has read full: one slot is enough, because the guards admit
\* one negotiation of a kind at a time and the parties take turns.
ReadLoopNeverBlocked ==
    quiet =>
        \A end \in Ends :
            wire[end] # <<>> /\ Head1(end).code \notin Requests
                => Len(inbox[Route(end, Head1(end).code)]) < ChanCap

\* A guard that is taken is given back: the waits end by a message, by the
\* timer or by the end of the peer, so that no handler and no client
\* goroutine keeps its guard for ever when the other end has given up.
GuardsGivenBack == \A l \in Locks : lock[l] > 0 ~> lock[l] = 0

=============================================================================
