# A verification development of the Simu5G user plane

The repository is Simu5G, a discrete-event simulator of 4G/5G networks for
OMNeT++ and INET, with applications for remote driving added on top
(`src/src/apps/sNavigator*`).  This directory holds TLA+ models of its protocol
entities, TLC runs over small instances and TLAPS proofs.

The program is a simulation: one thread executes events, every event handler
runs to its end, and modules interact by scheduled messages and by direct
method calls.  There are no locks and no data races.  Concurrency is in the
order of the events: timers of several entities, messages that the layers below
lose, delay and let overtake one another, and control messages that race with
data.  The models keep every handler atomic and leave the order of the events
open.  Above the MAC simulated time is not modelled: a running timer may fire at
any moment, which covers every setting of the timeouts and delays in the
configuration files.  Time is kept where the code's correctness rests on it: in
`MultiTimer`, whose subject is time; within a round of broadcasts of
`NrUeHandover`; and in the MAC, which works slot by slot, as do its models.

`cRuntimeError` ends a simulation.  In the models an action that throws records
the error and nothing happens afterwards, so "this throw is unreachable" is an
invariant.

## Inventory

Paths are relative to `src/src/`; `PROJECT.json` lists the files.

| Component | State | Operations | Interacts with | Hard parts | What makes it correct |
|---|---|---|---|---|---|
| RLC AM, transmitter (`stack/rlc/am/buffer/AmTxQueue.cc`) | window, stored PDUs, received and discarded flags, timers per PDU and per MRW, PDUs waiting for the MAC | `enque`, `addPdus`, `discard`, `checkForMrw`, `moveTxWindow`, `handleControlPacket`, timer handlers, `sendPdus` | PDCP above, MAC below, the peer's receiver | stale answers, retransmission against acknowledgement, window moves only on an answered command | no PDU forgotten before it is settled; a timer for each unsettled PDU and for no other; no throw |
| RLC AM, receiver (`AmRxQueue.cc`) | window, PDUs, received flags, pending fragments, status timer | `enque`, `checkCompleteSdu`, `passUp`, `moveRxWindow`, `sendStatusReport` | PDCP above, reverse `AmTxQueue` for control PDUs | duplicates, holes, SDUs that straddle a window move | true acknowledgements; each SDU once and whole |
| RLC UM (`stack/rlc/um`) | reordering window, partial SDU, SDU queue | `enque`, `reassemble`, `moveRxWindow`, reordering timer, `rlcPduMake`, D2D mode switch | PDCP, MAC | window moved by several steps, timer against arrival, reset after a switch | SDUs in order, at most once, never mixed |
| RLC TM, RLC mux (`stack/rlc/tm`, `stack/rlc`) | drop counter | pass-through | PDCP, MAC | none | nothing to order |
| HARQ (`stack/mac/buffer/harq`) | per process and codeword: PDU, status, attempts; selected process; count of empty processes | `insertPdu`, `markSelected`, `sendSelectedDown`, `receiveHarqFeedback`, `selfNack`, forced drops; `sendFeedback`, `extractCorrectPdus` | MAC on both sides, PHY | feedback in flight, counter shared by codewords, drops at handover or mode switch | both ends agree on which PDU a process carries; a PDU is delivered at most once |
| HARQ for D2D (`stack/mac/buffer/harq_d2d`) | as above and mirror buffers at the base station | forced drops, mirrored feedback | D2D mode selection | mirror out of step | mirror agrees with the UE |
| MAC queues (`stack/mac/buffer`) | sizes announced by RLC | push, pop | MAC, RLC | agreement with RLC's real queues | no request to an empty RLC queue |
| MAC (`stack/mac/layer`) | per UE buffers, grants, random access and BSR state | main loop per TTI, `macHandleRac`, `handleMessage` | scheduler, HARQ, RLC | backoff and retransmission timers over several TTIs | data waiting leads to a grant |
| Scheduling and AMC (`stack/mac/scheduler`, `scheduling_modules`, `allocator`, `amc`, `conflict_graph`) | allocated blocks, pilots, credits | allocation per TTI | MAC | arithmetic | blocks allocated at most once |
| PDCP/RRC (`stack/pdcp_rrc/layer`) | connection table, entities | header compression, numbering, dispatch | IP2Nic, RLC, dual connectivity | one bearer over two nodes | numbers unique per bearer |
| NR PDCP reordering (`layer/entity/NRRxPdcpEntity.cc`) | window, buffer, received flags, timer | `handlePdcpSdu`, timer | RLC of both legs | two legs reorder, timer against arrival, index shifts | delivery in order, at most once |
| IP2Nic (`stack/ip2nic`) | forwarding and holding tables, queues, UE hold flag | from/to IP, handover triggers and completions | IP, PDCP, handover manager, PHY | handovers back and forth, packets over two paths | no packet lost or held for ever |
| Handover manager (`stack/handoverManager`), X2 (`x2`) | none, message routing | commands, data tunnel | IP2Nic, the other base stations | two channels, reordering | commands matched to handovers |
| Dual connectivity (`stack/dualConnectivityManager`) | none | forward to and from the secondary node | PDCP, X2 | detach while data is in flight | data reaches the PDCP entity that numbers it |
| D2D mode selection (`stack/d2dModeSelection`) | mode per pair | periodic selection, switch notification | MAC, RLC, HARQ | switch with PDUs in flight | no PDU of the old mode accepted in the new |
| CoMP manager (`stack/compManager`) | requests, allocation | periodic coordination | X2, scheduler | arithmetic | disjoint bands |
| Packet flow manager (`stack/packetFlowManager`) | statistics by PDU | observers | RLC, PDCP, MAC | lifetime of entries | observes only |
| PHY, channel model, feedback (`stack/phy`), radio (`world/radio`) | positions, channel state | airframe handling, handover trigger, error draw | MAC, IP2Nic | randomness, floating point | |
| Binder (`common/binder`) | registry of nodes and next hops | register, lookup | all | global state during a handover | one next hop per UE |
| Timers (`common/timer`) | two lists and a pending message | `add`, `remove`, `handle` | RLC, PDCP | lists and message in step | earliest event pending |
| Core network (`corenetwork`) | tables | encapsulation | IP | none | |
| MEC (`nodes/mec`) | contexts, pending requests | create, delete, deferred answers, HTTP | device apps, VIM | answers after the request is gone | resources released once |
| Background cells and traffic, applications, common data | load generators, tables | | | randomness | |

Which of these are modelled, and why not the others, is in `PROJECT.json` under
`components`; the hard behaviours are under `hazards`, each at its line.

## Modules and plan

| Part | Modules | Composes | Abstract specification |
|---|---|---|---|
| RLC AM | `RlcAmPdu`, `AmTxQueue`, `AmRxQueue` | `RlcAm`: both entities and the channels | the delivery properties |
| HARQ, downlink | `HarqDl` | both ends on one carrier | `HarqService`, by `INSTANCE ... WITH` |
| MAC, uplink | `UlMac` | UE and base station, HARQ of the uplink included | |
| NR PDCP | `NrPdcp` | both entities of a leg | |
| Timers | `MultiTimer` | | `EventTimers` |
| RLC UM | `UmTxEntity`, `UmRxEntity` | `RlcUm`: both entities and the channel | `UmService` |
| Handover, network | `HandoverForwarding` | core, base stations, X2 | |
| Handover, UE | `NrUeHandover` | two stacks, IP2Nic, binder | |
| MEC applications | `MecLifecycle` | device applications, UALCMP, orchestrator, VIMs | |

The abstract specifications state what the layer above relies on: the channels of
`RlcAm` and `RlcUm` (a PDU arrives at most once, those in different processes in
any order, a PDU whose attempts are used up not at all) are the promise
`HarqService` makes; the timers of `RlcAm` are the ones `EventTimers` promises,
with the times left open.

What the plan has left, in this order:

1. D2D: the mirror buffers of `stack/mac/buffer/harq_d2d`, mode selection, and the
   mode switch, which resets HARQ processes, MAC queues and RLC UM entities while
   frames are under way (see "What is not modelled").
2. The split bearer: `NRTxPdcpEntity`, the dual connectivity manager, X2, and the
   deletion of entities and queues at a handover (`LteRlcAm::deleteQueues`,
   `LteMacBase::deleteQueues`), which would join `NrUeHandover` and
   `HandoverForwarding` to the protocol entities.
3. Theorems: every safety property that a passing run checks is proved, some under
   a named condition on the windows or the fragments.  Liveness stays with TLC.

## RLC AM

### Modules and code

| Module | Stands for |
|---|---|
| `RlcAmPdu` | the four PDU types (`LteRlcAmPdu`, `packet/*.msg`) and the parameters `TxW`, `RxW`, `MaxRtx`, `SduFrags` |
| `AmTxQueue` | `buffer/AmTxQueue.cc`, one action per event |
| `AmRxQueue` | `buffer/AmRxQueue.cc`, one action per event |
| `RlcAm` | one bearer direction: both entities, `LteRlcAm.cc` between them and the HARQ processes below; the properties |
| `MCRlcAm` | instances for TLC, with symmetry among HARQ processes |
| `RlcAmProofs` | theorems |

Variables are named after the members they stand for, as their comments say
(`txFirst` is `txWindowDesc_.firstSeqNum_`, `rtx` is `pduRtxQueue_`, `mrwQ` is
`mrwRtxQueue_`, ...).  The vectors of the code are functions over window indices
because the shifts of indices are where errors hide.  A timer that guards many
events (`TMultiTimer`) is the set of numbers it runs for.

| Action | Handler |
|---|---|
| `Enque(n)` | `AmTxQueue::enque` with `addPdus`: an SDU of n fragments |
| `PduTimer(sn)` | `pduTimerHandle`: retransmission, or `discard` of the SDU |
| `MrwTimer(serial)` | `mrwTimerHandle` |
| `BufferStatusTimer` | `handleMessage` of the transmitter, TTSIMPLE |
| `SendPdu(p)`, `SendCtl(p)` | `sendPdus`: the MAC requests a PDU of `pduBuffer_` for process p; the head leaves the buffer if it fits, and stays if not, while a copy of it goes down |
| `DeliverPdu(p)` | `handleLowerMessage`, `AmRxQueue::enque` (DATA, MRW), with `passUp`, `moveRxWindow` and the status reports it sends |
| `DeliverCtl(p)` | `handleLowerMessage`, `handleControlPacket` (ACK, MRW_ACK), with `moveTxWindow` and `checkForMrw` |
| `StatusTimer` | `AmRxQueue::handleMessage` |
| `AckInterval` | the passing of `ackReportInterval_`, no event in the code |
| `Lose(p)`, `LoseCtl(p)` | the last HARQ attempt fails (`LteHarqUnitTx::pduFeedback`) |

What is abstracted:

* An SDU is its PDCP number and its number of fragments; sizes in bytes are left
  out, so any request of the MAC may be too small for the head of `pduBuffer_`.
  The copy that `sendPdus` sends then has a header of one bit and, if it is of DATA,
  the whole payload (`AmTxQueue.cc:568`): the peer takes it for the PDU itself.
  Control PDUs are all header, and their copies are dropped by the MAC, which deletes
  packets of one bit (`bufferizePacket`): steps that change nothing.
* The processes of one direction carry one PDU each and finish in any order.
  HARQ does not duplicate PDUs, so neither do the channels; duplicates come from
  the retransmission timer and from requests that are too small.
* Time: timers and the report interval elapse at any moment.
* Data in the opposite direction: its only effect here is that status PDUs share
  a queue with it.
* `delivered`, `dropped` and `givenUp` are histories for the properties.

### Properties

In the words of the module's comments (`TypeOK` is proved, not run):

* `WindowsAgree` (`WindowsTogether` and `PdusAgree`): the windows, and all PDUs
  stored, waiting or travelling, agree; together they are inductive.
* `LeavesSettled`: no PDU leaves the transmitter's window unless received or
  discarded.
* `RxThrowsOnlyKnown`: which throws of the receiver are reachable.
* `ReceivedIsStored`, `AckTruthful`: what is flagged or acknowledged is there.
* `NoSilentLoss`, `DeliveredOnceWhole` (`DeliveredOnce` and `DeliveredIntact`): the
  service to PDCP.
* `StaleEventsHarmless` (`TxNeverThrows` and `TimersMatchWindow`): late timers and
  answers make no handler of the transmitter throw, and the timers fit the window.
* `WindowDriven`: the timers that keep the protocol going.

### Runs

The windows are 3 to 6 slots where the defaults are 200; MRWs move windows by one
to three slots, so a few MRWs exercise moves shorter and longer than half of the
window.  `MaxBuf` and `MaxCtl` bound the PDUs that wait for the MAC when a timer
or a report adds another one; `MaxMrw` bounds the MRW commands (the serial number
grows for ever in the code), `MaxSdus` the SDUs.  At the bounds, and after an
error, the instance stops, so deadlock is not checked.

| Run | Instance | Shows |
|---|---|---|
| `am_core` | windows 3 and 4, two SDUs of one or two fragments, no retransmission, two data processes and one control process | windows, acknowledgements and timers under reordering and loss |
| `am_retransmission` | the same SDUs, each PDU sent up to twice, one data process | old and new copies of PDUs, their ACKs and MRWs; fragments acknowledged, sent again and given up one by one; the service to PDCP |
| `am_threefragments` | SDUs of three fragments, windows 4 and 6 | `NoSilentLoss` fails |

The bounds are enough for the interesting cases: in `am_core` the windows move
several times, an SDU straddles a move (so the pending buffer is used), a PDU is
given up between received ones, and an MRW is repeated after its answer was
lost.  A PDU is sent twice by a request that is too small in all of them.  With one
control process the status PDUs arrive in the order in which they were sent, some of
them lost: that they may overtake each other too is covered by the theorems, which
hold for any number of processes, and not by TLC (with a second control process
`am_core` takes too long).  Every property has a mutant of the code's definition that violates it in
the same instance (`mutants` in `PROJECT.json`), which shows the case is reached.

### Where the code falls short

* Three fragments (`am_threefragments`): when an earlier fragment has been shifted
  out, only an SDU whose missing PDU is at index 0 can be completed.
* Equal windows, which are the default: `moveRxWindow` clears an old flag only for
  slots it copies from (`AmRxQueue.cc:759`).  After a move of more than half of the
  window some flags stay set for sequence numbers that never arrived.  They are
  acknowledged, and the PDU that would have filled the slot meets a null pointer;
  `ReceivedIsStored` fails with `TxW = RxW = 3`.  With `RxW >= 2 * (TxW - 1)` this
  cannot happen (proved), so the runs use such windows: otherwise one defect would
  hide every other behaviour.
* Leftovers: fragments of a given-up SDU stay in the pending buffer; passing up the
  next SDU that needs the buffer throws (`mixedPending`).
* An early MRW: the answer to an MRW that arrives before all DATA dereferences a
  null flow control info (`noFlowInfo`).

`RxThrowsOnlyKnown` in `am_core` admits the last two and no other throw.
`NoSilentLoss` does not count the SDUs that `addPdus` takes off the queue and forgets
because their fragments do not fit into the rest of the window (`dropped`): the code
loses them whenever that happens.

### Fairness

The specification of this part is `Init /\ [][Next]_vars`; no liveness is
claimed.  `WindowDriven` is the safety half of "a settled window moves": some
timer that will move it is running.

### Proofs

`RlcAmProofs` first proves that `Next` preserves the types: in particular every
index computed by a handler lies in its vector, or the handler throws.  All its
theorems hold for every `TxW`, `RxW`, bounds and sets of processes.

Assumptions (all in `RlcAmPdu`, evaluated by every run): the windows are positive
and the receiver's holds what the transmitter may have outstanding,
`TxW <= RxW + 1` (`WindowAssumption`); the bounds and fragment counts are naturals
(`ParameterAssumption`); and `NoPdu` is not a PDU (`NoPduAssumption`).

The invariant is `IInv == TypeOK /\ WindowsTogether /\ PdusAgree`.
`WindowsTogether` alone is not inductive: an MRW in flight could carry any
target and an MRW_ACK any first number.  `PdusAgree` adds what is needed: a
target lies in what is settled, so the receiver never moves past what was sent; an
MRW_ACK reports at most the receiver's own first number, so the transmitter never
moves past the receiver.  Settledness is stable: flags are only set, and a window
move shifts them with the PDUs.  `NextInvariant` has one lemma per action, each
proved part by part.  From it:

* `TypeCorrect`, `WindowsStayTogether`, `PdusStayInAgreement`: the parts of `IInv`,
  and `EndsNeverDriftApart`, `WindowsAgree`;
* `PdusLeaveSettled`: the action property `LeavesSettled`, because an MRW_ACK
  reports at most `rxFirst` and everything below it is settled;
* `SdusPassedUpOnce`: `DeliveredOnce`, for equal windows too.  `OnceInv` says that one
  cut of the sequence numbers into SDUs explains every PDU stored, waiting, travelling
  or buffered (retransmissions make copies of the same place, `Alike`), that the
  buffer holds each PDU at the slot of its number, and that the receiver takes no PDU
  of an SDU it has passed up any more: each number is before its window or flagged
  (`Past`).  A window move keeps the flags of the numbers it keeps, and its stale
  flags only add.  `checkCompleteSdu` finds an SDU only when all its numbers are
  `Past` or just set (`CompleteFound`); the PDU that completed it was not, so the SDU
  is a new one.

Seven more theorems hold under `RxW >= 2 * (TxW - 1)`, which the windows of the
passing runs satisfy and equal windows do not ("Where the code falls short").  The
receiver never moves by more than the `TxW - 1` PDUs that can be outstanding, and no
flag is set at or above that index, so no stale flag survives a move:

* `FlagsMeanStored`: `ReceivedIsStored`;
* `AcksAreTruthful`: `AckTruthful`.  What an acknowledgement names was received, in
  the status PDUs under way as in the flags they were made of, and stays so;
* `StaleEventsDoNoHarm`: `StaleEventsHarmless`.  An ACK names numbers that were sent,
  an MRW_ACK a number the receiver reached, and a timer of a PDU or an MRW runs only
  while its entry is there, so no late event meets what is gone;
* `WindowAlwaysDriven`: `WindowDriven`.  While the first PDU outstanding is
  settled one of the timers runs that will make the window move: an MRW to repeat, the
  buffer status timer, or the receiver's status timer with PDUs to report.

The next two also need to know what the pending buffer holds:

* `SdusPassedUpWhole`: `DeliveredOnceWhole`, and
* `ReceiverThrowsOnlyKnown`: `RxThrowsOnlyKnown`.

`WholeInv` adds to the cut of `OnceInv` that the numbers of an SDU are one block
(`Blocks`), and describes the start of the receiver's window when it cuts an SDU in
two (`StartKept`): the receiver knows which SDU that is (`FirstKnown`), pending is in
order and lies before the window (`PendingInOrder`), and it holds all of that SDU
before the window unless the SDU is passed up (`PendingHas`).  The last part is kept
by a window move only if the receiver has all numbers of the SDU at the target before
the target (`Reached`).  That is so because the transmitter gives up an SDU as a whole
or not at all (`Uniform`: `discard` marks exactly the PDUs of one SDU, `GroupIsSdu`):
the PDU at the target of an MRW is not given up, so those of its SDU before it are not
either and must be received, and what is received the receiver holds
(`AcksAreTruthful`).  So `checkCompleteSdu` never finds two SDUs out of order
(`NeverInconsistent`); an SDU that it finds complete has its start in pending and the
rest in the buffer without a hole, and `passUp` collects exactly these, in order
(`FramesWhole`).

The seventh needs `SduFrags \subseteq {1, 2}` too, as the passing runs have it, and is
false without (`am_threefragments`):

* `NoSduLostInSilence`: `NoSilentLoss`.

`LossInv` adds to the same cut that every SDU that was taken from above has numbers,
unless it did not fit (`Numbered`), and that every SDU with numbers is given up, is
passed up, or lacks a PDU at the receiver (`Accounted`).  From this the theorem
follows: a number that has left the transmitter's window is before the receiver's
(`WindowsTogether`), so an SDU without a PDU in the window lacks none.  `Accounted` is
kept for two reasons.  A PDU that arrives and is the last that was missing lets
`checkCompleteSdu` find the SDU, because in an SDU of two PDUs the other one is next to
it, in the buffer or, before the window, in pending (`PairFound`, `StoreDataAccounted`);
with three, one PDU may be in pending while the last to arrive is not at index 0, the
only index at which the code asks pending. And a window move that passes a missing PDU
does so on an MRW, whose target lies in what is settled; the missing PDU cannot be
received (`AcksAreTruthful`), so it is marked discarded and its SDU counts as given up
(`GivenUpNoted`, `RecvMrwAccounted`).

Of this component nothing is left to the runs alone.

## Downlink HARQ

### Modules and code

`HarqDl` is one UE on one carrier: the `LteHarqBufferTx` the eNB keeps for it
(`tx`, `selectedAcid`), the `LteHarqBufferRx` of the UE (`rx`), the eNB's count of
units that wait for a retransmission (`needRtx`), the frames under way (`air`) and
the parts of the two MACs that drive them.  `HarqService` is what all this
promises to the RLC.

A slot has a fixed order in the code, and the model has the same: the main loops
of both MACs run on the slot tick (in either order), the eNB flushes its buffers
after its main loop, and the frames sent in the slot before arrive last, because
the event priority of an air frame is lower.  `enbStep` and `ueDone` say how far
the slot is, `due` when a frame arrives.

| Action | Code |
|---|---|
| `Retransmit(a)` | `LteScheduler::scheduleRetransmissions`, `LteSchedulerEnbDl::rtxschedule`, `schedulePerAcidRtx`, `markSelected` |
| `SendNew(p, a)` | `scheduleGrant`, `LteMacEnb::macPduMake`, `insertPdu` |
| `DeleteNew(p)` | the same when `checkEligibility` found no process |
| `SendNothing` | a slot without data or room |
| `FlushHarqBuffers` | `LteMacEnb::flushHarqBuffers`, `sendSelectedDown`, `extractPdu` |
| `UeMainLoop` | `LteMacUe::handleSelfMessage`: `extractCorrectPdus`, `sendFeedback`, `purgeCorruptedPdus` |
| `DataArrives(f, decoded)` | `LteMacBase::fromPhy`, `LteHarqBufferRx::insertPdu` |
| `AckArrives(f)`, `LastNackArrives(f)`, `NackArrives(f)` | `receiveHarqFeedback`, `pduFeedback`, `signalProcessForRtx` |
| `NextSlot` | the tick; `isEvaluated` compares the age of a PDU with the tick |

What is abstracted:

* One codeword.  `scheduleGrant` sets `numCodewords = 1` and allocates nothing
  once a codeword is allocated; the AMC pilots always ask for transmit diversity.
  A process is therefore its unit 0, and the code for the second is never reached.
* Whether a retransmission fits the blocks that are left is arithmetic over
  channel quality.  On a tight band (`tightBand`, chosen at the start) it is left
  open, on a loose one every PDU fits.
* Whether a frame can be decoded is open.  Frames are not lost: the PHY hands a
  PDU that failed to the MAC with a flag.
* `Purges` tells an `LteMacUeD2D`, which clears corrupted units in each slot, from
  an `LteMacUe`, which keeps their count of transmissions.
* The identity of a PDU is used again once no process and no frame holds it, so
  that traffic goes on for ever within a finite instance.
* A handler that would throw is not enabled; the properties say the case never
  occurs, and the deadlock check (on in all passing runs) says nothing is stuck.
* `fate` and `deliveries` are histories: what the eNB thinks became of a PDU, and
  how often the UE passed it up.

### Properties

* `OneCopyUnderWay`: a PDU under way is in one place.
* `EndsAgree`: both ends agree on its transmissions, owner and delivery, though
  the receiver gives up by counting on its own.
* `NeverThrows` (`NewDataMeetsIdleUnit` and `FeedbackIsExpected`): the throws of
  `insertPdu`, `receiveHarqFeedback` and `pduFeedback` are unreachable.
* `NothingForgotten` (`SelectedIsSent` and `NeedRtxCounts`): the bookkeeping of the
  scheduler.
* `KeepsService`: the refinement of `HarqService`.
* `GrantFindsProcess`: no PDU is made that no process has room for.
* `EverySentPduIsSettled`: liveness, under `FairSpec`.

### Runs

| Run | Instance | Shows |
|---|---|---|
| `harq_slots` | 4 processes, 5 PDUs, 1 retransmission, 2 slots of evaluation, a tight and a loose band | all the properties above, for an `LteMacUe`; the proofs cover an `LteMacUeD2D` and more retransmissions |

Four processes on a loose band are just enough for PDUs that are busy for four slots,
and on a tight one they are not; with one PDU identity more than processes one PDU
can be at each process and one be refused.  One retransmission gives a first and a
last attempt; with two the run takes five times as long and shows the same, and what
the invariants say of the attempts in between is proved.

On a tight band `GrantFindsProcess` does not hold: `checkEligibility`
says yes when no process is empty.  Blocks are then allocated, SDUs are taken
from the RLC, and the MAC PDU made from them is deleted.  It takes a
retransmission that had to wait, or fewer processes than `FbTimer + 2` or than four;
RLC AM then sees a loss no NACK tells of.

### Fairness

`FairSpec` adds `WF_vars(Next)`: the ticks of both MACs reschedule themselves in
every slot and the event queue always runs its next event.  Within a slot nothing
may be repeated, so this is all that is needed; neither the decoder nor the
scheduler is assumed to be fair.  Liveness is claimed for a loose band only: a
PDU that never fits again stays `BUFFERED` for ever (`selfNack`, written for this,
is not called).

### Proofs

`HarqDlProofs` proves every safety property and the refinement, for all values of the constants that satisfy `HarqAssumption`: at least
one process and one slot of evaluation, and `NoPdu` outside the PDUs.  Nothing
is assumed about the order of the main loops, the decoder or the room.

The invariant `IInv` is a statement about each process, `ProcInv(a)`, and
`LiveIsOwned`.  `OneCopy` is what makes it inductive: while a unit waits, exactly one
thing can happen to it next, so the count of the receiver can only be ahead of what
the transmitter knows by the answer that is under way; `InStep` writes that out for
each place the PDU can be in.  `Owned` keeps the PDUs of different processes
apart, which a delivery needs to be counted once, and `SelectedNow` adds that a
selected unit is the one `selectedAcid` names.  Each action concerns one process;
`Untouched` disposes of all the others.  `NextIInv` has one lemma per action.

`NeedRtxIsExact` is a second induction on the cardinality of `Ready`;
`HandlersNeverThrow` and `NothingIsForgotten` state the conjunctions the runs check.
`ImplementsService` maps `SendNew` and `DeleteNew` to `Take`, the main loop of the UE
to `Deliver` of all PDUs whose evaluation ends in that slot, an ACK to
`Acknowledge` and the last NACK to `GiveUp`; every other step is a stutter.

`GrantsAreNotWasted` proves `GrantFindsProcess` under `EnoughProcesses`: `FbTimer + 2`
processes and at least four (the code has 8, and 4 slots of evaluation).  It needs the
time a process is busy, so its invariant `SlotBySlot` says at which point of its round
trip each process is: its PDU is on the way, in evaluation for so many slots, or its
feedback is.  On a loose band a retransmission goes out at once, so two processes are
never at the same point, and there are fewer points than processes.

Only model-checked: `EverySentPduIsSettled` (liveness).

## NR PDCP reordering

### Module and code

`NrPdcp` is one pair of entities: the sender that numbers the SDUs
(`LteTxPdcpEntity`), the RLC leg and the receiver that restores the order
(`NRRxPdcpEntity`).

A bearer that is split between two nodes is only half covered.  Downlink it has such
a pair per leg, as both CIDs name the node of the leg.  Uplink the UE looks for the
entity before the source id of the packet is set (`NRPdcpRrcUe.cc:54` reads it,
`NRTxPdcpEntity::setIds` writes it later), so one entity numbers the SDUs of both
legs, while the base station has a receiving entity per source id: each receives only
some of the numbers.  That is not modelled.

| Action | Code |
|---|---|
| `Send` | `LteTxPdcpEntity::handlePacketFromUpperLayer` |
| `Lose(n)` | an UM leg loses an SDU (external) |
| `HandlePdcpSdu(n)` | `NRRxPdcpEntity::handlePdcpSdu`, one disjunct per path: `PassStraight` (no reordering wanted), `Discard` (the three early returns), `DeliverInSequence`, `Buffer`; with the handling of `t_reordering` at its end |
| `ReorderingExpires` | `NRRxPdcpEntity::handleMessage` |

`received` and `sduBuffer` are the vectors of the code, by slot.  The loops are
modelled by the slot at which they stop and by what they leave in each slot:
`Shifted` has the order of the code's loop, with the slots that are emptied and
those nothing is moved to.  The index of the second loop of `handleMessage` is
not bounded by the window; that it may run off (`RunsOff`), that a bound computed
from unsigned numbers wraps, and that `remove` returns null for a flagged but
empty slot, are all there, as `Throw`.  `passed` is the history of what went up,
with `NoSdu` for a number given up; `discarded` of what was deleted on arrival.

The leg is external, modelled from what the RLC entities of this repository do:
UM hands SDUs up in order and loses some; AM hands an SDU up when it is complete,
so it may overtake SDUs that are still being retransmitted, at most
`MaxOvertaken` of those in flight.

### Bounds

`Span` is how many numbers can be in use while the receiver waits for a gap.  The
code has no such limit: it is the sending rate times the delay `t_reordering` can
cause.  The default window is 4096 and the default timeout 0.1 s, so `Span` is at
most half of the window up to some 20000 SDUs per second.  `pdcp_gaps` has
`WindowSize = 8` and `Span = 4`, exactly the limit, and `MaxSno = 8`, so a full
span is sent, given up and followed by another, and the window is shifted by one
to four slots.

Both limits are needed.  With `Span` above half of the window the expiry of
`t_reordering` leaves flags set, and with `MaxOvertaken = 2` the shift after an
in-sequence arrival goes wrong: both violate `SlotsMatchNumbers`.  Within them
the bound of that shift loop, computed too late, is never above its start, so the
loop does nothing; and nothing is what it has to do, because with one SDU late at
a time all buffered SDUs follow in sequence.

### Runs

| Run | Instance | Shows |
|---|---|---|
| `pdcp_gaps` | window 8, 4 numbers in use, 8 SDUs, UM leg with losses or AM leg with one SDU late at a time, with and without reordering | all the properties, and that a buffered SDU is handed up in the end |
| `pdcp_overtaking` | the same, but an SDU may overtake two | `DeliveredInOrder` fails |

The instance ends when all SDUs are sent, so deadlock is not checked.

`pdcp_overtaking`: `handlePdcpSdu` advances `rxDeliv_` and then shifts up to
`rxNext_ - rxDeliv_`, the new difference.  The last slots in use are not shifted,
so their SDUs come out under later numbers, and their flags make the SDUs with
those numbers look like duplicates.

### Fairness

`Spec` has `WF_vars(ReorderingExpires)`: an armed timer is an event in the queue
and the simulator runs it.  Nothing is assumed of the sender or of the leg, so
`BufferedIsHandedUp` holds even if nothing arrives any more.

### Proofs

`NrPdcpProofs` proves the three invariants of `pdcp_gaps`, type correctness,
`SlotsMatchNumbers` and the absence of throws for every window, span
and number of SDUs, under `NrPdcpAssumption` (the constants are naturals, window
and span positive) and `PacedLeg`: `2 * Span <= WindowSize` and
`MaxOvertaken <= 1`.

`SlotsMatchNumbers` and the rest are not inductive alone.  `IInv` adds:

* `NumbersInUse`: `rxDeliv <= rxNext <= sno`, and at most `Span` of them in use,
  which bounds every index;
* `LegInv`: at most one number below `rxNext` is still in flight, and none on a
  UM leg; an SDU in flight has no slot and was not handed up.  This is the fact
  that turns the faulty shift into the identity: in `InSequenceKeeps` the SDU that
  fills the gap was the only one missing, so everything up to `rxNext` is handed up;
* `PassedInv`: number k went up as the (k+1)-th entry or was given up there;
* `StoredInv`: where each SDU that arrived is now.

There is one lemma per action and path, and `ExpiryInWindow` shows that the loop
of the timer's handler stops at `rxNext` at the latest, within the first half of
the window.  Only model-checked: `BufferedIsHandedUp` (liveness).

## Timers

### Modules and code

`MultiTimer` is `TMultiTimer` of `common/timer`, which RLC AM uses for the
retransmission of PDUs and of MRWs: many events over one OMNeT++ message.
`EventTimers` is what its owner expects: events that are due each at their own time.

| Action | Code |
|---|---|
| `Add(e, delay)` | `TMultiTimer::add` |
| `Remove(e)` | `remove` |
| `Handle` | the message arrives at the owner, which calls `handle` |
| `Tick` | the event queue goes on to a later instant |

`directList` is the multimap sorted by time; `nth` stands for its rule that equal
keys keep the order of insertion.  `reverseList` maps an event to its iterator.  The
owner is any owner: it adds an event that runs, removes one that does not, and does
several things in one instant.  A call that throws ends the run.

### Properties and run

* `ListsSound`: both lists hold the same events (`ListsAgree`), the message is the one
  for the first (`MessageIsFirst`), no event is overdue, `handle` never finds the
  lists empty.
* `KeepsTime`: the refinement of `EventTimers`: an event that is not removed is
  dispatched once, at its own instant, though only one message exists.
* `EveryEventEnds`: liveness; fairness is that of the event queue (`Handle`, `Tick`).

`timer_order` has three events, delays 0 to 3, up to five insertions and instants 0
to 4 (`MaxAdds`, `MaxNow`): three events that share an instant, an event added before
and after the first, with no delay, and added again after it ended.

### Proofs

`MultiTimerProofs`, for every set of events and delays.  `IInv` adds `Linked`: an
entry is found through `reverseList` under its own event and no two were inserted at
once, so that `Begin` picks one entry (`HasFirst`, by well-founded induction on
times and then on `nth`).  Theorems: `TypeCorrect`, `ListsStayTogether`,
`MessageStaysFirst`, `NothingIsLate`, `HandleNeverThrows`, all of `ListsSound`
(`ListsStaySound`), `OldestGoesFirst` (events due together go in the order they were
added) and the refinement, `ImplementsTimers`.  Only model-checked: `EveryEventEnds`.

## RLC UM

### Modules and code

| Module | Stands for |
|---|---|
| `UmTxEntity` | `entity/UmTxEntity.cc`: the SDU queue and `rlcPduMake` |
| `UmRxEntity` | `entity/UmRxEntity.cc`: the window, `t_reordering`, `reassemble` |
| `RlcUm` | one direction of a bearer: both entities, `LteRlcUm.cc` and the HARQ processes between them; the properties |
| `UmService` | what it promises PDCP |

| Action | Code |
|---|---|
| `FromPdcp(len)` | `handleUpperMessage`, `enque`, with the tail drop |
| `MacRequest(room)` | `handleLowerMessage` at the sender, `rlcPduMake`: cutting and concatenation |
| `Arrive(t)` | `enque` of the receiver: `Discard`, or `Accept` with `moveRxWindow`, `reassemble` and the timer |
| `Lose(t)` | the last HARQ attempt fails |
| `Expire` | `handleMessage`, the expiry of `t_reordering` |

The model keeps PDU numbers where the code indexes vectors by position in the window,
and lengths in units.  `sduLength`, `pdus`, `delivered` and `taken` are histories: the
bytes of the real packets are what the code compares, and the numbers of the PDUs
tell which PDU they came in.  `multicast` tells a D2D multicast flow, whose receiver
starts at the first PDU it hears.

### Properties and run

* `WindowSound`: `WindowInOrder` and `GapIsTimed`: what every index into `pduBuffer_`
  and `received_` relies on, and that the timer runs exactly while PDUs wait.
* `SdusAccounted`: no throw; exactly the SDUs whose PDUs were all taken are passed up;
  `rlcPduMake` sends every byte once; the loss counter agrees with what PDCP did not
  get.  The loss of SDU 0 is never counted (`lastSnoDelivered_` starts at 0), which
  the property leaves out.
* `KeepsOrder`: the refinement of `UmService`.
* `WaitsNotForEver`: PDUs do not wait behind a gap for ever, under fairness of the
  timer alone (a timer that was started fires unless it is stopped).

`um_lossy`: SDUs of length 1 and 3, requests for 1 and 4, a queue of 5, three SDUs, a
window of 2 and three HARQ processes, unicast and multicast.  An SDU is cut into
three PDUs, several share one, the queue overflows, and with three processes over a
window of two a PDU jumps over the window while two others are late.

### Proofs

`RlcUmProofs` proves both invariants, the refinement and type correctness for every
window, queue, number of processes, lengths and requests.

* The window: `WindowStaysInOrder`, `GapsAreTimed` and with them `WindowSound`
  (`WindowStaysSound`).  The invariant adds `HighestWaits`: while there is a gap the
  newest PDU is in the buffer.  That is what makes the buffer empty exactly when the
  window has caught up.
* The SDUs: `EverySduAccounted` is `SdusAccounted`, from the invariant `SduInv(o)`,
  where `o[t]` is what earlier PDUs have taken of the SDU that PDU t goes on with.
  `TxOK` says that every PDU goes on where the one before it stopped and that what
  waits comes after all that was sent; it gives `BytesKept`.  `RxOK` says of the PDUs
  reordering has passed (`Done`) that the SDUs which ended in them went up if all
  their PDUs were taken, and that what waits in `buffered_` is the start of an SDU cut
  in one of them, of which nothing is missing: so the rest, when it comes, either fits
  or is told from another SDU by the gap in the numbers.  `TakePart` is the step of
  `reassemble` for one part, `TakePduOK` for one PDU, `ReassembledOK` for a run of them.
* `KeepsPromise`: the refinement `KeepsOrder`.  A step of the receiver extends what
  PDCP got by later SDUs and changes nothing before.
* `TypesAreKept`: `TypeOK`.

`reassemble` and the sums of `rlcPduMake` are recursive functions.  That they have a
value, and what holds after each of their steps, is proved by looking at the least
argument for which it fails (`LeastOf`), since the induction theorems of the library
cannot be used.  Only model-checked: `WaitsNotForEver` (liveness).

## Handover in the network

### Module and code

`HandoverForwarding` follows the downlink packets of one UE among any number of base
stations.

| Action | Code |
|---|---|
| `CoreSends` | the UPF tunnels a packet to the base station the binder names |
| `FromIpBs(b)` | `IP2Nic::fromIpBs`: forward, hold or hand down (`toStackBs`) |
| `ReceiveTunneledPacketOnHandover(s, t)` | `LteHandoverManager`, `IP2Nic`: a forwarded packet |
| `ReceiveHandoverCommand(s, t)` | `triggerHandoverTarget`, `signalHandoverCompleteSource` |
| `TriggerHandover(c)` | `IP2Nic::triggerHandoverSource` and the start command |
| `DoHandover` | the end of the handover in the PHY, `signalHandoverCompleteTarget` |

Each link is a sequence: the tunnel of the core to a base station, and from each base
station to each other one link for commands and one for packets, which are not
ordered with each other.  Delays are unbounded, but for `CommandsInTime`: a command
reaches its destination before the handover it announces is over, and before the
next.  The code relies on it: it keeps one forwarding entry per UE and removes it
whatever handover a completion belongs to.  In the configurations `handoverLatency` is
50 ms and broadcasts are 0.5 s or more apart.  With `CommandsInTime` FALSE a late
start leaves the target holding packets for ever, and a late completion ends the
forwarding of the next handover.

### Properties and run

* `ForwardingFollowsHandover`: a base station forwards only while the UE moves to the
  target or the word of its arrival is under way, and during a handover it does; it
  holds packets of the core only during a handover.
* `PathKeepsOrder`: packets over the same path are handed down in the order they
  were sent, over any number of handovers.
* `PacketsAccounted`: each packet is in one place, once.
* `ForwardingEnds`: liveness, from fairness of the links for commands and of the
  handover.

`ho_forwarding`: three base stations, three packets, three handovers, attachments and
detachments included (`MaxHandovers`, `MaxPackets`), so a UE comes back while packets
from its first handover are still under way.  At the bounds the instance stops.

### Proofs

`HandoverProofs`, for any number of base stations, packets and handovers,
under `CommandsInTime`: `TypeCorrect`, `ForwardingAccompaniesHandover`,
`HandoverIsForwarded`, `HoldingAccompaniesHandover` and their conjunction
`ForwardingStaysWithHandover`.  The invariant `Phase` says that the UE is in one of
three phases: nothing goes on (`Quiet`), s hands the UE over to t (`Handing`), t has
taken over and s does not know yet (`Ending`); each fixes all commands, all entries
and who holds.

Two theorems need no assumption about the times of commands, so they hold also where
the forwarding goes wrong:

* `EveryPacketAccounted` is `PacketsAccounted`: what the core sent is in one place,
  once.  Its invariant `Accounted` counts the places as sets, so that a move from one
  place to another is a move of one element.
* `PathsKeepOrder` is `PathKeepsOrder`, from `PathInv`: every queue on a path rises,
  what is further along is older, and what was handed down is older still.

Only model-checked: `ForwardingEnds` (liveness).

## Handover at the UE

### Module and code

`NrUeHandover` is a UE with an LTE and an NR stack (`LtePhyUe.cc`, `NRPhyUe.cc`), its
IP2Nic and the entries of the binder both stacks read.  `BaseStations` declares the
base stations, which it has in common with `HandoverForwarding`.

| Action | Code |
|---|---|
| `NewRound` | all base stations broadcast |
| `Hear(b, level)` | `handoverHandler`, one disjunct per path: `HearNothing`, `HearBetterCandidate`, `HearBetterMaster`, `HearMaster` |
| `TriggerYields(k)`, `TriggerForcesOther(k)`, `TriggerHandoverOf(k)` | the ways through `triggerHandover` of stack k: wait or give up, `forceHandover` on the other stack, go on |
| `DoHandoverOf(k)` | `doHandover`, with what it tells IP2Nic, binder and the source |

Self messages are kept in the order in which they will occur, each with the time
left since the one before it, in units of `handoverDelta_` (10 us).  `Detach` is half
of `handoverLatency` in that unit, 2500 by default; the code makes attachment take as
long (`LtePhyUe.cc:47-49`).  That it is more than 1 is assumed: a handover latency of
20 us or less would be shorter than the delay before it.  The hysteresis is kept as
ten times its threshold, so no fraction is needed.

### Properties and run

* `SecondaryFollowsMaster`: the NR stack is attached to a secondary node only while
  the LTE stack is attached to its master.
* `NetworkAgrees`: no assertion fails and no null pointer or message that is
  scheduled already is used; between rounds the IP2Nic believes what the stacks are,
  holds only for a UE with no master, and no base station forwards, with the
  exception below.
* `RoundEnds`: liveness: every round is dealt with.  Fairness: the events of a round
  occur; another round need not follow.

`ue_rounds`: two eNBs, a secondary gNB of each and a gNB that is nobody's secondary
node, levels -5, 10, 20 and 30 dB around a `MinRssi` of 0, both stacks attached to
any cells when the run begins, a latency of 8 units, any number of rounds.  All states are explored,
deadlock is checked.  Levels apart by more than the hysteresis and by nothing, below
the minimum, and all orders within a round occur; the NR stack moves to the other
eNB's node, to the gNB that stands alone, and off the network.

The masters at the beginning come from the configuration or from `initialize`, which
finds the best cell (`LtePhyUe.cc:143-208`); the RSSI variables have their initial value
or the level that was found.  Two restrictions:

* A stack that has base stations of its technology has a master when the run begins
  (`AttachedAtStart`; a network of gNBs only, as in most configuration files, leaves
  the LTE stack without).  A stack that begins unattached never comes through its first
  attachment: `doHandover` calls `cellInfo_->detachUser` of the old cell although there
  is none (`LtePhyUe.cc:456`, `NRPhyUe.cc:411`), while the test eleven lines further
  down (`NRPhyUe.cc:422`) is there for "first time the UE is attached to someone".
* A stack that begins with a secondary node begins with the other stack at its master.
  `initialize` looks at no masters, so a dynamic association may begin otherwise, and
  then `SecondaryFollowsMaster` is false until the first handover.

### An exception the proof found

Until a theorem was attempted the run had secondary gNBs only, and "between rounds no
base station forwards" held.  It does not hold with a gNB g3 that is its own master:

1. The NR stack, attached to g1, a secondary node of e1, is on its way to g3;
   g1 has its forwarding entry.
2. The LTE stack leaves e1 and forces the NR stack off g1: `forceHandover`
   (`NRPhyUe.cc:466-475`) overwrites `candidateMasterId_` with 0.
3. `doHandover` of the NR stack completes a handover to node 0.  It has no target to
   notify (`NRPhyUe.cc:457-461`), so the handover to g3 that was announced is never
   completed, and g1 keeps its entry in what `IP2Nic.h:55` calls "temporary
   forwarding of data during handover".

`ForwardingOver` therefore states what is true: an entry that is left between rounds is
the NR stack's and leads to a gNB that is its own master.  The other outcome, an entry
towards a secondary node, cannot be left behind, because the LTE stack that is on its
way elsewhere makes the NR stack give up first (`MasterIsBusy`).

### Proofs

`HandoverProofs` proves both safety properties of the run, for any base stations, any
assignment of secondary nodes to masters (one eNB may have several), any set of
levels, and any latency:

* `SecondaryStaysWithMaster` is `SecondaryFollowsMaster`, also for a UE that begins
  unattached.
* `NetworkStaysInAgreement` is `NetworkAgrees`, for a UE that begins attached.
* `NothingForwardedForEver`: where every gNB is secondary to an eNB there is no
  exception.
* `BusyMasterIsElsewhere`: when `triggerHandover` finds the other stack in a handover,
  that one leads to another base station, so the branch that waits for it
  (`NRPhyUe.cc:268-281`) is never taken.  What remains of it is to give up.

Neither property is inductive.  The invariant `UeInv` says which self messages may be
queued, in which order and how far apart, for a round as the two handovers overlap:
one starter and one trigger per stack in `Tidy` form, a forced detachment before the
handover that waits for it (`AfterDetachment`, `Forced`), all of it over in time
(`InTime`); what each kind of pending message implies for candidate and binder entry
(`NrMovesLegally`, `LteMovesLegally`); and what IP2Nic and the forwarding tables hold
until the trigger that undoes it occurs (`Nic`, `Hold`, `Forward`).  Lemmas about
`Insert`, `Later` and `CancelStarter` say what a queue contains and in which order
after each.  TLC checked the invariant on the instance of the run and on others
before it was proved.

Only model-checked: `RoundEnds` (liveness).

## Uplink MAC

### Module and code

`UlMac` is one UE and one base station, slot by slot, as `HarqDl`: both main loops in
either order, then the arrival of the frames sent a slot before.

| Action | Code |
|---|---|
| `NewData` | `bufferizePacket`: the RLC announces data, at any moment |
| `UeMainLoop` | `LteMacUe::handleSelfMessage`, `NRMacUe::handleSelfMessage`: `CheckRac`, or `UseGrant` (`Resend`, `SendUnits`, `SendNoUnits`: `LcgScheduler`, `macPduMake`) |
| `EnbMainLoop` | `LteMacEnb::handleSelfMessage`: `extractCorrectPdus`, `bufferizeBsr`, `racschedule`, `rtxschedule`, `scheduleGrant`, `sendGrants`, purge |
| `EndOfSlot` | `fromPhy` at both ends: requests and their answers, grants, feedback, data, the decoder's result open |

`nr` tells the NR classes, which take the first process that fits, from the LTE
classes, which take the process of the slot.  `tight` says that other UEs may leave
no room.  Both are chosen in the initial state.  Data are units and a grant holds at
least one; the identity of a PDU is not tracked, only its size and its report.

Two facts of the code make the model smaller than the protocol: the base station
answers every request for access as successful (`LteMacEnb.cc:522`), so the backoff is
never used; and a grant is used in the slot in which the UE has it.

### Properties and run

* `AcidsAgree`: the base station never hears which process the UE uses; the two
  counts name the same one in every slot.
* `NeverThrows`: no PDU meets a busy unit, no feedback a unit that does not wait, no
  PDU is made in vain.
* `NackedGoesOut`: a PDU that was not decoded is sent again or given up, though the
  base station forgets it at once.
* `BacklogServed`: what is queued is sent, or asked for again where there is no room.

The fairness is `WF_vars(Slot)`: both ticks reschedule themselves and the event queue
goes on.  The decoder and the scheduler are not fair.

`ul_slots`: four processes, one retransmission, two slots of evaluation, timers of
three slots, three units, LTE and NR, tight or not; deadlock is checked.  An LTE UE
can use the grant for a retransmission only if `FbTimer + 2` is the number of
processes, so the instance has 4 and 2: with five processes `NackedGoesOut` fails, as
it would with the defaults.  Because the base station forgets a PDU together with
its count of attempts, every PDU that is lost yields another grant, also after the
UE gave it up; the UE then uses it for new data, which the run covers.

### Proofs

`UlMacProofs`: `PhasesFollow` is the invariant, `CountsAgree` is `AcidsAgree`, for any
number of processes, attempts and units and any timers.  The counts start in different
slots, at the first grant that is used and at the first PDU that is received, so the
invariant is a succession of phases: before the first grant is used nothing was sent,
and a grant is under way only if the queue is not empty, so that the first grant is
not wasted; then the place of the first PDU (sent, due, arrived) fixes both counts;
from then on both count once per slot.

`NothingThrows` is `NeverThrows`, under `EnoughProcesses`: `FbTimer + 2` processes and
at least four, as 8 and 4 in the code.  The invariant `Flight` says for each process
at which point of its round trip it is (its PDU arrives, is evaluated, its feedback
arrives), at both ends: then no two meet, a PDU never meets a busy unit and
feedback only one that waits for it.  Only model-checked: `NackedGoesOut` and
`BacklogServed` (liveness).

## MEC applications

### Module and code

`MecLifecycle` follows the request to start or stop an application from the
`DeviceApp` of a UE to the hosts and back: HTTP to the `UALCMPApp`, which serves one
request at a time from a queue that may be limited (`MecServiceBase`), two ordered
connections to the `MecOrchestrator`, and method calls from there through the
`MecPlatformManager` to the `VirtualisationInfrastructureManager` of a host.  The
number `requestSno` is all that ties an answer to the connection that asked.

| Action | Code |
|---|---|
| `StartContext`, `StopContext` | `DeviceApp::sendStartAppContext`, `sendStopAppContext`: a START or STOP of the UE application, at any moment |
| `ListArrives`, `ResultArrives` | `DeviceApp::handleUALCMPMessage` |
| `AcceptRequest`, `RefuseRequest` | `MecServiceBase::newRequest`, `handleRequestQueueFull` |
| `ServeGet`, `PassOn` | `manageRequest` with `handleGETRequest`, or `handlePOSTRequest` and `handleDELETERequest`; then `scheduleNextEvent` |
| `StartMECApp` | `startMECApp`: `AlreadyStarted`, `Place` (with `instantiateMEApp`) or `DoNotPlace` |
| `StopMECApp` | `stopMECApp` with `terminateMEApp` |
| `DelayEnds` | the orchestrator's self-message, `sendCreateAppContextAck`, `sendDeleteAppContextAck` |
| `AckArrives` | `handleCreateContextAppAckMessage`, `handleDeleteContextAppAckMessage`, and the erasure of the pending request |

The capacity of the hosts and the size of the queue are chosen at the start.  An
application takes one gate and one unit of resources (RAM, disk and CPU are one
number).  The orchestrator's delays are of any length, so their answers may overtake
each other; `contextIdCounter` is never initialised and is counted from its first
value.  `BestHosts` has two possible results: for an application that needs no
service the loop stops at the first host with room, and for one that needs a service
it runs on, with `bestHost = mecHost` for each host with room, so the last is taken,
whether it runs the service or not.

### Properties and run

* `HostsAgree`: contexts, applications, counters, resources and gates agree on every
  host, always, and a device has at most one context.
* `DevicesAgree`: a device that waits has exactly one request or answer under way, in
  one of seven places, and the answer suits it; no context is left without a device
  that knows it or will hear of it; nothing throws.  It speaks of the time before a
  creation fails or a request is refused (`turnedDown`), and says that this does not
  happen where hosts and queue have room for all devices.  Before and after that
  point, a device that believes its application runs holds the context of it.
* `WaitEnds`: every wait ends, up to the same point.

The limit is in the code.  The refusal of a creation leaves the orchestrator without
its request id (`MecOrchestrator.cc:380`), which is 0 then: its device waits in
CREATING for ever, and if request 0 is pending the answer goes to that device, which
throws on the 500.  A 503 makes a device in START throw; in CREATING it is logged, in
DELETING an empty packet goes to the UE's application (`DeviceApp.cc:265`, not
modelled), and the device stays where it is, deaf to START and STOP.

`mec_apps`: three devices, two hosts with two gates each, resources for one or two
applications on each, a queue of one or two requests and three starts, so that hosts
fill up, a device starts again after it stopped, a request meets a full queue and a
refused creation answers request 0.  The bound on the starts stops the system, so
deadlock is not checked.  Two branches are in the module and never taken, because a
`DeviceApp` never asks twice: a creation for a device that has a context and a
deletion of an unknown context.

The fairness is that of an event queue and of TCP: each device's requests, answers
and delays get on, and so do the server, the orchestrator and its connection.

### Proofs

`MecLifecycleProofs` proves `HostsAgree` and `DevicesAgree` for any devices, hosts,
gates, resources and queue sizes (`HostsStayInAgreement`, `DevicesStayInAgreement`),
from `LifecycleAssumption`, which says that the numbers are natural numbers, that
there are finitely many devices and that `NoRequest` is not a request.

`HostsAgree` itself is not inductive: it does not say that a context has a number of
its own, by which it is deleted, and its counts make every step a counting argument.
The invariant `IInv` says instead that contexts are unique by number and by device
(`MapInv`), that every gate of a host is free once or used once (`AppsInv`), and that
the applications of a host are those of its contexts (`Agree`).  One lemma per effect
on a host (`InstantiatedKeeps`, `TerminatedKeeps`) and one per action follow;
`GatesCounted` turns the invariant back into counts.  Since the orchestrator changes a
context and its application in one event, nothing about the messages is needed: the
hosts agree also after an exception or a refusal.

`DevicesAgree` needs the messages.  The seven counts of `Under` are again no basis for
a proof, so the invariant (`DeviceInv`) says that there is a place for each device:
`Placed(pl)`, with `pl[d]` one of "none", "asked", "queued", "served", "ordered",
"delayed", "acked", "answered" and "lost", which is where a refused creation leaves its
device.  Its parts: each place holds the request or answer of exactly the devices that
are in it, once (`OneUnderWay`); a request suits the state of its device and what the
orchestrator has of it (`RequestsFit`), and so do orders, delayed answers and answers
(`OrdersFit`, `DelayedFit`, `AcksFit`, `AnswerFits`); request numbers are used once
(`NumbersOnce`); until something is turned down nothing is lost (`NothingLost`); the
state of a device says what it may have (`StateFits`).  The refusal that carries
number 0 is why `NumbersOnce` allows for one number to be used twice, why an order or
an answer may belong to no pending request (`Orphan`), and why `NumbersOnce` keeps
request 0 with a device in CREATING: so the wrong answer can end a creation, with an
exception, but never a deletion, and a device that believes its application runs is
right in any case (`CreatedRuns`).  There is one lemma per action (`StartContextKeeps`
to `AckArrivesKeeps`); most of them show what the step does to the one device it is
about (`Alone`) and that the others stay where they are (`OthersPlaced`).

That nothing is turned down with room for everybody (`RoomInv`) is a counting argument
over that invariant: the devices in a full queue, the one that is served and the one
that asks are different devices (`QueueHasRoom`), and when no host has room every host
runs as many applications as it can, each for a device other than the one that asks
(`HostsFilled`, `HostsHaveRoom`).  `WaitEnds` is only model-checked.

## What is not modelled

The components with status `not_modelled`.  Some never will be: channel model,
schedulers and statistics are floating-point computations without protocol state,
background traffic and traffic sources are random load, JSON and HTTP are
formatting.  The others are in the plan.  Of the parts that are modelled, these are
left out:

* D2D mode switch.  It resets the UE's HARQ processes, MAC queue and report, the RLC
  UM receiver (`resetFlag_`) and holds the new connection's SDUs
  (`startHoldingDownstreamInPackets`).  `LteHarqBufferTx.cc:223` says that feedback for a
  dropped process "must be ignored", and the flag for that is cleared by the next
  `insertPdu`.  An LTE UE uses the process again only after a full turn of its
  processes, when the feedback has arrived; an NR UE takes the first empty process,
  which may be the one just dropped.
* RLC UM: burst and throughput statistics (`UmRxEntity.cc:920`), `notifyEmptyBuffer`,
  `removeDataFromQueue`, the packet flow manager, deletion at a handover.
* Handover in the network: one UE with one stack; the route of the UPF changes in the
  same event as the handover ends; a packet that reaches the source after its entry
  was erased goes to the stack of the source; stragglers over X2 stay in `hoFromX2_`
  until the next handover to that base station; `losslessHandover_` is read and
  never used.
* Handover at the UE: UEs whose masters are configured and never change; broadcasts
  that arrive while a handover is under way, which would overwrite its candidate
  (rounds are too far apart for that); a stack that has no master when the run
  begins, whose `cellInfo_` is null at its first attachment (`doHandover` dereferences
  it; the run starts attached); the deletion of buffers (`deleteOldBuffers`).  The part of
  `TriggerYields` that waits is in the model, but the entry it asks for cannot occur.
* `TTimer`, one message and one flag.
* Uplink MAC: several carriers and connections, D2D and periodic grants, and the
  deletion of queues at a handover.
* MEC: emulated applications, whose termination logs the name of a module they do not
  have (`VirtualisationInfrastructureManager.cc:385`); applications that register at run
  time; devices that ask before they are connected, which throws; connections that
  close, after which `scheduleNextEvent(true)` schedules the subscription server for a
  request (`MecServiceBase.cc:356`); subscriptions and the load generator; packages
  that are unknown, onto which `startMECApp` goes on after its refusal.
