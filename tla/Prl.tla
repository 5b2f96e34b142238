-------------------------------- MODULE Prl --------------------------------
(***************************************************************************)
(* The protocol layer of USB power delivery, common/usbc/usb_prl_sm.c: the *)
(* state machines for transmission (prl_tx), chunked transmission (tch),   *)
(* chunked reception (rch) and hard reset (prl_hr), and the reception of   *)
(* messages (prl_rx), which prl_run() runs one after the other.            *)
(*                                                                         *)
(* The build has CONFIG_USB_PD_REV30 and CONFIG_USB_PD_EXTENDED_MESSAGES;  *)
(* there is one kind of packet (SOP) and revision 3.0 is spoken.  External *)
(* are the policy engine (PE), which pd_task() runs before prl_run(), the  *)
(* port controller (PHY), whose interrupt task puts in results and         *)
(* messages between any two of these steps, and the partner.               *)
(***************************************************************************)
EXTENDS Integers, Sequences

CONSTANTS
  PeKinds,             \* what PE sends: "data", "ext" (chunked), "soft"
  PartnerKinds,        \* what the partner sends, also "ping", "request"
  PD_MESSAGE_ID_COUNT, \* the largest message id
  CHUNKS,              \* the number of chunks of an extended message
  SENDS, RECEIVES,     \* bounds: messages of PE and of the partner
  RESETS,              \* bound: hard resets and restarts
  RX_QUEUE             \* bound: the messages the PHY holds

ASSUME PrlAssumption ==
  /\ PeKinds \subseteq {"data", "ext", "soft"}
  /\ PartnerKinds \subseteq {"data", "ping", "soft", "ext", "request"}
  /\ PD_MESSAGE_ID_COUNT \in Nat /\ CHUNKS \in Nat \ {0}
  /\ SENDS \in Nat /\ RECEIVES \in Nat /\ RESETS \in Nat /\ RX_QUEUE \in Nat

\* A message: `n' tells it from the others, `num' is its chunk number.
Message == [kind : {"none", "data", "ext", "soft", "ping", "request", "hard"},
            n : 0 .. SENDS + RECEIVES, num : 0 .. CHUNKS,
            id : 0 .. PD_MESSAGE_ID_COUNT]
None == [kind |-> "none", n |-> 0, num |-> 0, id |-> 0]

VARIABLES
  stage,       \* where pd_task() is in its loop
  local_state, \* SM_RUN or SM_INIT: prl_init() is due
  prl,         \* the protocol layer, and what it has told the policy engine
  pe_soft,     \* PE is in PE_SEND_SOFT_RESET and has not sent it yet
  queue,       \* messages received by the PHY
  partner,     \* the ids it uses and has seen, how many it has sent, the last
  hard_rx,     \* PD_EVENT_RX_HARD_RESET
  resets       \* number of hard resets and restarts so far

vars == <<stage, local_state, prl, pe_soft, queue, partner, hard_rx, resets>>

Stages == {"tc", "pe", "rx", "rch", "tch", "tx", "tch_again", "hr"}
Timers == {"tx", "sink", "rch", "tch", "hr"}

\* struct protocol_layer_tx, _rx, _hr, rx_chunked, tx_chunked and pd_message,
\* after prl_init().  The state PRL_TX_PHY_LAYER_RESET is left on entry.  `phy'
\* is the message the PHY transmits.  From `local_ams' on it is the policy
\* engine and what the properties need of the past: the message PE waits to
\* hear of (owed), what it has heard of its last one (answers, heard), whether
\* nothing of an earlier one or of a reset was left when it was handed over
\* (clean); the messages in rx_chk_buf (accepted) and those passed up, each with
\* its era: how often the stored id was forgotten before it was received (era
\* now, rx_era for the message in rx_chk_buf); whether a hard reset began with
\* nothing under way (unhindered) and was passed to the PHY (hard_requested);
\* how many ids in a row were not acknowledged (unheard, up to
\* PD_MESSAGE_ID_COUNT); and whether the ids of the two sides may be out of step
\* (apart): our reset is not acknowledged yet, our message crossed the partner's,
\* or so many ids were not acknowledged that the next is the partner's last.
prl_init ==
  [tx |-> "WAIT", tx_xmit |-> FALSE, sink_ng |-> FALSE, xmit_status |-> "UNSET",
   id |-> 0, last_hard |-> FALSE, phy |-> None,
   rch |-> "WAIT", rch_received |-> FALSE, rch_chunking |-> TRUE,
   chunk_number_expected |-> 0,
   tch |-> "WAIT", tch_received |-> FALSE, tch_xmit |-> FALSE,
   tch_chunking |-> TRUE, chunk_number_to_send |-> 0, send_offset |-> 0,
   tx_complete |-> FALSE, tx_error |-> FALSE, out |-> None,
   rx |-> None, rx_id |-> -1, rx_enabled |-> TRUE,
   hr |-> "WAIT", hr_flags |-> {}, expired |-> {},
   local_ams |-> FALSE, pe_reset |-> FALSE, owed |-> None, sends |-> 0,
   answers |-> <<>>, heard |-> FALSE, accepted |-> {}, passed |-> <<>>,
   era |-> 0, rx_era |-> -1, hard_requested |-> FALSE, unhindered |-> FALSE,
   clean |-> TRUE, unheard |-> 0, apart |-> FALSE, overwritten |-> FALSE]

TypeOK ==
  /\ stage \in Stages /\ local_state \in {"RUN", "INIT"} /\ pe_soft \in BOOLEAN
  /\ prl.tx \in {"WAIT", "LAYER_RESET", "WAIT_PHY", "START_AMS", "PENDING"}
  /\ prl.xmit_status \in {"UNSET", "SUCCESS", "FAILED"}
  /\ prl.rch \in {"WAIT", "PROCESSING", "REQUESTING", "WAITING", "ERROR"}
  /\ prl.tch \in {"WAIT", "TRANSMISSION", "CONSTRUCT", "SENDING", "REQUEST",
                  "RECEIVED"}
  /\ prl.hr \in {"WAIT", "RESET_LAYER", "PHY", "PE"}
  /\ prl.hr_flags \subseteq {"PE", "PARTNER", "COMPLETE"}
  /\ prl.expired \subseteq Timers
  /\ prl.id \in 0 .. PD_MESSAGE_ID_COUNT
  /\ prl.rx_id \in -1 .. PD_MESSAGE_ID_COUNT
  /\ prl.chunk_number_expected \in 0 .. CHUNKS
  /\ prl.chunk_number_to_send \in 0 .. CHUNKS - 1
  /\ prl.send_offset \in 0 .. CHUNKS
  /\ {prl.out, prl.rx, prl.owed, prl.phy} \subseteq Message
  /\ Len(queue) <= RX_QUEUE

Init ==
  /\ stage = "tc" /\ local_state = "RUN" /\ prl = prl_init
  /\ pe_soft = FALSE /\ queue = <<>>
  /\ partner = [id |-> 0, seen |-> -1, sends |-> 0, got |-> 0, last |-> None]
  /\ hard_rx = FALSE /\ resets = 0

-----------------------------------------------------------------------------
(* What the policy engine is told.                                         *)

Answer(s, a) ==
  [s EXCEPT !.owed = None,
            !.answers = IF s.hr = "WAIT" THEN Append(@, a) ELSE @]

pe_message_sent(s) == Answer(s, "sent")

\* (Also called when a request for a chunk is discarded.)
pe_report_discard(s) ==
  [(IF s.owed = None THEN s ELSE Answer(s, "discard")) EXCEPT
     !.local_ams = FALSE]

pe_message_received(s) ==
  [s EXCEPT !.passed = Append(@, [n |-> s.rx.n, era |-> s.rx_era]),
            !.accepted = @ \ {s.rx.n}, !.heard = TRUE]

-----------------------------------------------------------------------------
(* set_state() and the entry and exit functions.                           *)

\* To PRL_TX_WAIT_FOR_MESSAGE_REQUEST and other states of prl_tx.  (On leaving
\* PRL_TX_WAIT_FOR_PHY_RESPONSE xmit_status is unset.)
SetTx(s, state) ==
  [s EXCEPT !.tx = state, !.expired = @ \ {"tx", "sink"},
            !.xmit_status = IF s.tx = "WAIT_PHY" /\ state # "WAIT_PHY"
                            THEN "UNSET" ELSE @]

prl_tx_phy_layer_reset(s) == [SetTx(s, "WAIT") EXCEPT !.rx_enabled = TRUE]

\* Mutant of increment_msgid_counter: the id is never incremented.
IdUnchanged(s) == s

increment_msgid_counter(s) ==
  IF s.last_hard THEN s
  ELSE [s EXCEPT !.id = (@ + 1) % (PD_MESSAGE_ID_COUNT + 1),
                 !.unheard = IF @ < PD_MESSAGE_ID_COUNT THEN @ + 1 ELSE @]

\* The era after the stored id was forgotten.
NextEra(s) == IF s.rx_id = -1 THEN s.era ELSE s.era + 1

ClearXmit(s) == [s EXCEPT !.tx_xmit = FALSE]

\* Mutant of prl_tx_discard_message: the message stays pending.
prl_tx_discard_message_pending(s) ==
  prl_tx_phy_layer_reset(
    IF s.tx_xmit THEN pe_report_discard(increment_msgid_counter(s)) ELSE s)

\* PRL_TX_DISCARD_MESSAGE on entry.
prl_tx_discard_message(s) ==
  prl_tx_phy_layer_reset(
    IF s.tx_xmit THEN pe_report_discard(increment_msgid_counter(ClearXmit(s)))
    ELSE s)

\* prl_tx_construct_message() and PRL_TX_WAIT_FOR_PHY_RESPONSE.
prl_tx_construct_message(s) ==
  [SetTx(s, "WAIT_PHY") EXCEPT
     !.last_hard = s.out.kind = "hard", !.xmit_status = "UNSET",
     !.tx_complete = FALSE, !.phy = [s.out EXCEPT !.id = s.id],
     !.hard_requested = @ \/ s.out.kind = "hard",
     !.apart = @ \/ s.unheard = PD_MESSAGE_ID_COUNT]

\* Send what is pending; a Soft_Reset by way of
\* PRL_TX_LAYER_RESET_FOR_TRANSMIT.
Transmit(s) ==
  LET clear == ClearXmit(s) IN
  IF s.out.kind = "soft"
  THEN [SetTx(clear, "LAYER_RESET") EXCEPT !.id = 0, !.rx_id = -1,
                                           !.era = NextEra(s),
                                           !.unheard = 0, !.apart = TRUE]
  ELSE prl_tx_construct_message(clear)

\* RCH_WAIT_FOR_MESSAGE_FROM_PROTOCOL_LAYER and
\* TCH_WAIT_FOR_MESSAGE_REQUEST_FROM_PE, on entry.
EnterRchWait(s) ==
  [s EXCEPT !.rch = "WAIT", !.rch_received = FALSE, !.rch_chunking = TRUE,
            !.expired = @ \ {"rch"}]

EnterTchWait(s) ==
  [s EXCEPT !.tch = "WAIT", !.tch_received = FALSE, !.tch_xmit = FALSE,
            !.tch_chunking = TRUE, !.expired = @ \ {"tch"}]

\* The same from outside: a state that is current already is not entered.
ToWait(s) ==
  LET r == IF s.rch = "WAIT" THEN s ELSE EnterRchWait(s)
  IN  IF s.tch = "WAIT" THEN r ELSE EnterTchWait(r)

\* Mutant of ResetTx: prl_tx goes on with what it does.
ResetTx_skipped(s) == s

\* "Protocol Layer message transmission transitions to
\* PRL_Tx_Wait_For_Message_Request state."
ResetTx(s) == SetTx(s, "WAIT")

\* PRL_HR_RESET_LAYER on entry (after the exit function of the state left).
prl_hr_reset_layer(s) ==
  LET left == IF s.hr = "PE" THEN ToWait(prl_tx_phy_layer_reset(s)) ELSE s IN
  IF s.hr = "RESET_LAYER" THEN s
  ELSE ResetTx([left EXCEPT
         !.hr = "RESET_LAYER",
         !.tch_received = FALSE, !.tch_xmit = FALSE, !.tch_chunking = FALSE,
         !.rch_received = FALSE, !.rch_chunking = FALSE,
         !.tx_complete = FALSE, !.tx_error = FALSE,
         !.id = 0, !.rx_id = -1, !.rx_enabled = FALSE,
         !.accepted = IF s.rch = "PROCESSING" THEN @ ELSE {},
         !.era = NextEra(s), !.unheard = 0, !.expired = @ \ {"hr"}])

\* prl_execute_hard_reset() and pd_execute_hard_reset(): PE starts anew.
execute_hard_reset(s, who) ==
  prl_hr_reset_layer([s EXCEPT !.hr_flags = @ \cup {who}, !.owed = None,
                               !.pe_reset = FALSE, !.local_ams = FALSE,
                               !.hard_requested = FALSE, !.clean = FALSE,
                               !.unhindered = /\ s.rch = "WAIT" /\ s.tch = "WAIT"
                                              /\ ~s.tx_xmit,
                               !.apart = who = "PE"])

\* An error of the transmission of PE's message; PE_SEND_SOFT_RESET answers
\* it with a hard reset at once.
pe_report_error(s) ==
  IF s.owed.kind = "soft" THEN execute_hard_reset(Answer(s, "error"), "PE")
  ELSE Answer(s, "error")

prl_send(s, kind) ==
  LET msg == [None EXCEPT !.kind = kind, !.n = s.sends + 1] IN
  [s EXCEPT !.out = msg, !.owed = msg, !.tch_xmit = TRUE, !.sends = @ + 1,
            !.answers = <<>>, !.heard = FALSE,
            !.clean = /\ kind # "ext" /\ s.hr = "WAIT"
                      /\ s.tch = "WAIT" /\ s.tx = "WAIT" /\ ~s.tx_xmit
                      /\ ~s.tx_complete /\ ~s.tx_error /\ s.phy = None]

-----------------------------------------------------------------------------
(* The chunked reception, rch.                                             *)

\* RCH_REPORT_ERROR on entry.  (A message that tch holds is not the one that
\* failed.)
rch_report_error(s) ==
  LET told == IF s.rch_received
              THEN pe_message_received([s EXCEPT !.rch_received = FALSE])
              ELSE IF s.tch_received THEN s
              ELSE [s EXCEPT !.accepted = @ \ {s.rx.n}]
      error == [told EXCEPT !.rch = "ERROR", !.heard = TRUE,
                            !.expired = @ \ {"rch"}]
  IN  IF s.owed.kind = "soft" THEN execute_hard_reset(error, "PE") ELSE error

rch_pass_up_message(s) == EnterRchWait(pe_message_received(s))

rch_wait_run(s) ==
  LET r == [s EXCEPT !.rch_received = FALSE] IN
  CASE ~s.rch_received -> s
    [] s.rch_received /\ s.rx.kind \notin {"ext", "request"} ->
         rch_pass_up_message(r)
    [] s.rch_received /\ s.rx.kind \in {"ext", "request"} /\ s.rch_chunking ->
         [r EXCEPT !.rch = "PROCESSING", !.chunk_number_expected = 0]
    [] OTHER -> rch_report_error(r)

\* (An extended message always has the same size, a request none.)
rch_processing_run(s) ==
  LET r == [s EXCEPT !.chunk_number_expected = @ + 1] IN
  CASE s.rx.num # s.chunk_number_expected -> rch_report_error(s)
    [] s.rx.num = s.chunk_number_expected
         /\ (s.rx.num = CHUNKS - 1 \/ s.rx.kind = "request") ->
         rch_pass_up_message(r)
    [] OTHER ->
         [r EXCEPT !.rch = "REQUESTING", !.accepted = @ \ {s.rx.n},
                   !.out = [None EXCEPT !.kind = "request",
                                        !.num = r.chunk_number_expected],
                   !.tx_xmit = TRUE]

rch_requesting_run(s) ==
  CASE s.tx_complete -> [s EXCEPT !.tx_complete = FALSE, !.rch = "WAITING"]
    [] ~s.tx_complete /\ (s.rch_received \/ s.tx_error) -> rch_report_error(s)
    [] OTHER -> s

\* A message that is not extended is neither passed up nor dropped.
rch_waiting_run(s) ==
  CASE s.rch_received /\ s.rx.kind = "request" -> rch_report_error(s)
    [] s.rch_received /\ s.rx.kind = "ext" ->
         [s EXCEPT !.rch_received = FALSE, !.rch = "PROCESSING",
                   !.expired = @ \ {"rch"}]
    [] ~s.rch_received /\ "rch" \in s.expired -> rch_report_error(s)
    [] OTHER -> s

rch_run(s) ==
  CASE s.rch = "WAIT" -> rch_wait_run(s)
    [] s.rch = "PROCESSING" -> rch_processing_run(s)
    [] s.rch = "REQUESTING" -> rch_requesting_run(s)
    [] s.rch = "WAITING" -> rch_waiting_run(s)
    [] s.rch = "ERROR" -> EnterRchWait(s)

-----------------------------------------------------------------------------
(* The chunked transmission, tch.                                          *)

\* TCH_MESSAGE_RECEIVED on entry.
tch_message_received(s) ==
  LET r == [s EXCEPT !.tch = "RECEIVED", !.tch_received = FALSE,
                     !.rch_received = TRUE, !.expired = @ \ {"tch"}]
  IN  IF s.tch_xmit THEN pe_report_discard([r EXCEPT !.tch_xmit = FALSE]) ELSE r

\* The end of TCH_MESSAGE_SENT and TCH_REPORT_ERROR on entry.
AfterReport(s) ==
  IF s.tch_received THEN tch_message_received(s) ELSE EnterTchWait(s)

tch_message_sent(s) == AfterReport(pe_message_sent(s))

tch_report_error(s) == AfterReport(pe_report_error(s))

\* TCH_CONSTRUCT_CHUNKED_MESSAGE on entry.
tch_construct(s) ==
  IF s.tch_received THEN tch_message_received(s)
  ELSE [s EXCEPT !.tch = "CONSTRUCT", !.send_offset = @ + 1, !.tx_xmit = TRUE,
                 !.out.num = s.chunk_number_to_send,
                 !.expired = @ \ {"tch"}]

tch_wait_run(s) ==
  LET t == [s EXCEPT !.tch_xmit = FALSE] IN
  CASE s.tch_received -> tch_message_received(s)
    [] ~s.tch_received /\ ~s.tch_xmit -> s
    [] ~s.tch_received /\ s.tch_xmit /\ s.rch # "WAIT" -> tch_report_error(t)
    [] OTHER ->
         IF s.out.kind = "ext" /\ s.tch_chunking
         THEN tch_construct([t EXCEPT !.send_offset = 0,
                                      !.chunk_number_to_send = 0])
         ELSE [t EXCEPT !.tx_xmit = TRUE, !.tch = "TRANSMISSION"]

tch_transmission_run(s) ==
  CASE s.tx_complete -> tch_message_sent([s EXCEPT !.tx_complete = FALSE])
    [] ~s.tx_complete /\ s.tx_error ->
         tch_report_error([s EXCEPT !.tx_error = FALSE])
    [] ~s.tx_complete /\ ~s.tx_error /\ s.tch_received /\ s.tx # "WAIT_PHY" ->
         tch_message_received(s)
    [] OTHER -> s

\* Mutant of LastChunk: off by one.
LastChunk_more(s) == s.send_offset > CHUNKS

LastChunk(s) == s.send_offset = CHUNKS

tch_sending_run(s) ==
  CASE s.tx_error -> tch_report_error(s)
    [] ~s.tx_error /\ LastChunk(s) -> tch_message_sent(s)
    [] ~s.tx_error /\ ~LastChunk(s) /\ s.tch_received ->
         tch_message_received(s)
    [] OTHER ->
         [s EXCEPT !.tch = "REQUEST", !.chunk_number_to_send = @ + 1]

tch_wait_chunk_request_run(s) ==
  LET r == [s EXCEPT !.tch_received = FALSE] IN
  CASE s.tch_received /\ s.rx.kind # "request" -> tch_message_received(r)
    [] s.tch_received /\ s.rx.kind = "request" ->
         LET used == [r EXCEPT !.accepted = @ \ {s.rx.n}] IN
         IF s.rx.num = s.chunk_number_to_send THEN tch_construct(used)
         ELSE tch_report_error(used)
    [] ~s.tch_received /\ "tch" \in s.expired -> tch_message_sent(s)
    [] OTHER -> s

tch_run(s) ==
  CASE s.tch = "WAIT" -> tch_wait_run(s)
    [] s.tch = "TRANSMISSION" -> tch_transmission_run(s)
    [] s.tch = "CONSTRUCT" -> [s EXCEPT !.tch = "SENDING"]
    [] s.tch = "SENDING" -> tch_sending_run(s)
    [] s.tch = "REQUEST" -> tch_wait_chunk_request_run(s)
    [] s.tch = "RECEIVED" -> EnterTchWait(s)

-----------------------------------------------------------------------------
(* The transmission, prl_tx.  A source and a sink differ in what they wait *)
(* for at the start of an AMS: the SinkTxTimer, or Rp = SinkTxOk.          *)

prl_tx_wait_run(s) ==
  LET t == [s EXCEPT !.sink_ng = @ /\ s.local_ams] IN
  CASE t.local_ams /\ ~t.sink_ng ->
         [SetTx(t, "START_AMS") EXCEPT !.sink_ng = TRUE]
    [] ~(t.local_ams /\ ~t.sink_ng) /\ t.tx_xmit -> Transmit(t)
    [] OTHER -> t

\* Mutant of Failed: no timeout.
Failed_reported(s) == s.xmit_status = "FAILED"

\* The PHY reports a failure, or nothing in time.
Failed(s) == s.xmit_status = "FAILED" \/ "tx" \in s.expired

prl_tx_wait_for_phy_response_run(s) ==
  LET t == SetTx(increment_msgid_counter(s), "WAIT") IN
  CASE s.xmit_status = "SUCCESS" -> [t EXCEPT !.tx_complete = TRUE,
                                                   !.unheard = 0]
    [] s.xmit_status # "SUCCESS" /\ Failed(s) -> [t EXCEPT !.tx_error = TRUE]
    [] OTHER -> s

\* PRL_TX_SRC_SOURCE_TX and PRL_TX_SNK_START_AMS.
prl_tx_start_ams_run(s) == IF s.tx_xmit THEN SetTx(s, "PENDING") ELSE s

prl_tx_pending_run(s) == IF "sink" \in s.expired THEN Transmit(s) ELSE s

prl_tx_run(s) ==
  CASE s.tx = "WAIT" -> prl_tx_wait_run(s)
    [] s.tx = "LAYER_RESET" -> prl_tx_construct_message(s)
    [] s.tx = "WAIT_PHY" -> prl_tx_wait_for_phy_response_run(s)
    [] s.tx = "START_AMS" -> prl_tx_start_ams_run(s)
    [] s.tx = "PENDING" -> prl_tx_pending_run(s)

-----------------------------------------------------------------------------
(* The hard reset, prl_hr.                                                 *)

\* Mutant of SignalledOrLate: no timeout.
SignalledOrLate_complete(s) == s.tx_complete

\* "Wait for hard reset from PHY or timeout"
SignalledOrLate(s) == s.tx_complete \/ "hr" \in s.expired

prl_hr_run(s) ==
  CASE s.hr = "WAIT" -> IF s.hr_flags \cap {"PE", "PARTNER"} # {}
                      THEN prl_hr_reset_layer(s) ELSE s
    [] s.hr = "RESET_LAYER" ->
         IF "PE" \in s.hr_flags
         THEN [s EXCEPT !.hr = "PHY", !.tch_xmit = TRUE,
                        !.out = [None EXCEPT !.kind = "hard"]]
         ELSE [s EXCEPT !.hr = "PE", !.pe_reset = TRUE]
    [] s.hr = "PHY" ->
         IF SignalledOrLate(s)
         THEN [s EXCEPT !.hr = "PE", !.pe_reset = TRUE, !.expired = @ \ {"hr"}]
         ELSE s
    [] s.hr = "PE" ->
         IF "COMPLETE" \in s.hr_flags
         THEN [ToWait(prl_tx_phy_layer_reset(s)) EXCEPT
                 !.hr = "WAIT", !.hr_flags = {}, !.apart = @ \/ s.tx = "WAIT_PHY"]
         ELSE s

-----------------------------------------------------------------------------
(* The reception, prl_rx_wait_for_phy_message().                           *)

\* "wait for the RX chunk SM to copy the pdmsg into the extended buffer"
Busy(s) == s.rch_received

\* Incoming soft reset; PE answers at once with Accept.
SoftReset(s) ==
  prl_send(ToWait(prl_tx_phy_layer_reset([s EXCEPT !.id = 0, !.rx_id = -1,
                                                   !.accepted = {},
                                                   !.era = NextEra(s),
                                                   !.unheard = 0,
                                                   !.apart = @ \/ s.phy # None])),
           "data")

\* Mutant of Duplicate: a repeated message is taken for a new one.
Duplicate_never(s, msg) == FALSE

Duplicate(s, msg) == s.rx_id = msg.id

\* A new message: a pending one of ours is discarded; then the router.  It is
\* in rx_chk_buf already, where it may have overwritten a message that tch still
\* holds or that rch, in PROCESSING, has not copied: Busy does not tell.
Accept(s, msg) ==
  LET discard == msg.kind # "ping" /\ (s.tx # "WAIT_PHY" \/ s.tx_xmit)
      t == [(IF discard THEN prl_tx_discard_message(s) ELSE s) EXCEPT
              !.rx_id = msg.id, !.rx_era = s.era, !.accepted = @ \cup {msg.n},
              !.overwritten = @ \/ s.accepted # {}]
  IN  CASE msg.kind = "ping" -> pe_message_received(t)
        [] msg.kind # "ping" /\ (t.tch # "WAIT" \/ t.tch_xmit) ->
             [t EXCEPT !.tch_received = TRUE]
        [] OTHER -> [t EXCEPT !.rch_received = TRUE]

Receive(s, msg) ==
  LET t == [s EXCEPT !.rx = msg, !.unhindered = FALSE] IN
  CASE msg.kind = "soft" -> SoftReset(t)
    [] msg.kind # "soft" /\ Duplicate(t, msg) -> t
    [] OTHER -> Accept(t, msg)

-----------------------------------------------------------------------------
(* pd_task(): tc_event_check(), pe_run(), prl_run().                       *)

env == <<queue, partner, hard_rx, resets>>

Goto(label) == stage' = label

\* prl_execute_hard_reset() and pd_execute_hard_reset() have no effect while
\* prl_init() is due; else PE does not send its Soft_Reset any more.
Execute(who) ==
  IF local_state = "RUN"
  THEN prl' = execute_hard_reset(prl, who) /\ pe_soft' = FALSE
  ELSE UNCHANGED <<prl, pe_soft>>

\* PD_EVENT_RX_HARD_RESET, and on to pe_run().
tc_event_check ==
  /\ stage = "tc" /\ Goto("pe")
  /\ IF hard_rx THEN Execute("PARTNER") ELSE UNCHANGED <<prl, pe_soft>>
  /\ hard_rx' = FALSE
  /\ UNCHANGED <<local_state, queue, partner, resets>>

\* PE sends a message, perhaps the first of an AMS, once it has heard of its
\* last one: a Soft_Reset in PE_SEND_SOFT_RESET, as soon as the layer runs again.
PeSend(kind, ams) ==
  /\ stage = "pe" /\ Goto("rx") /\ local_state = "RUN"
  /\ prl.sends < SENDS /\ prl.owed = None /\ prl.hr = "WAIT"
  /\ kind = "soft" <=> pe_soft
  /\ prl' = [prl_send(prl, kind) EXCEPT !.local_ams = ams]
  /\ pe_soft' = FALSE
  /\ UNCHANGED <<local_state, queue, partner, hard_rx, resets>>

\* PE has nothing to send, and may be done with its AMS.
PeIdle(ams) ==
  /\ stage = "pe" /\ Goto("rx")
  /\ pe_soft => local_state = "INIT"
  /\ ams => prl.local_ams
  /\ prl' = [prl EXCEPT !.local_ams = ams]
  /\ UNCHANGED <<local_state, pe_soft, queue, partner, hard_rx, resets>>

PeHardReset ==
  /\ stage = "pe" /\ Goto("rx") /\ resets < RESETS
  /\ Execute("PE")
  /\ resets' = resets + 1
  /\ UNCHANGED <<local_state, queue, partner, hard_rx>>

\* PE_SRC_STARTUP and PE_SNK_STARTUP, on entry: after an attach, a power role swap
\* or a hard reset.
prl_reset == local_state' = "INIT" /\ pe_soft' = FALSE

\* The policy engine of this repository starts up at once, that of the test does
\* not.  (By then the PHY has long finished what it was transmitting.)
prl_hard_reset_complete(startup) ==
  /\ stage = "pe" /\ Goto("rx") /\ local_state = "RUN"
  /\ prl.pe_reset /\ prl.phy = None
  /\ prl' = [prl EXCEPT !.pe_reset = FALSE, !.hr_flags = @ \cup {"COMPLETE"}]
  /\ IF startup THEN prl_reset ELSE UNCHANGED <<local_state, pe_soft>>
  /\ UNCHANGED env

PeStartup ==
  /\ stage = "pe" /\ Goto("rx") /\ resets < RESETS
  /\ prl_reset
  /\ resets' = resets + 1
  /\ UNCHANGED <<prl, queue, partner, hard_rx>>

\* PE_SEND_SOFT_RESET, on entry.  (Bounded as what PE sends.)
prl_reset_soft ==
  /\ "soft" \in PeKinds /\ prl.sends < SENDS
  /\ prl.owed.kind # "soft" /\ ~pe_soft
  /\ local_state' = "INIT" /\ pe_soft' = TRUE

PeSoftReset ==
  /\ stage = "pe" /\ Goto("rx") /\ local_state = "RUN" /\ prl.hr = "WAIT"
  /\ prl_reset_soft
  /\ UNCHANGED <<prl, queue, partner, hard_rx, resets>>

\* Our next id is 0, and no message is under way that has it.
Unused(s) == s.id = 0 /\ s.unheard = 0 /\ s.phy = None /\ s.tx # "WAIT_PHY"

\* prl_init(), when the layer is to run again.  What the PHY transmits and what
\* was received stays; PE has given up its message.  With a startup (`anew')
\* the partner, or the next one, may start anew as well; otherwise it does not
\* know of it, and our next id may be the one it has seen last.
Started(s, anew) ==
  [prl_init EXCEPT !.sends = s.sends, !.phy = s.phy, !.rx = s.rx,
                   !.passed = s.passed, !.overwritten = s.overwritten,
                   !.era = NextEra(s), !.rx_era = s.rx_era, !.clean = FALSE,
                   !.apart = ~anew /\ (s.apart \/ ~Unused(s))]

prl_run_init(anew) ==
  /\ stage = "rx" /\ local_state = "INIT" /\ local_state' = "RUN"
  /\ anew => ~pe_soft /\ prl.phy = None
  /\ prl' = Started(prl, anew)
  /\ partner' = IF anew THEN [partner EXCEPT !.id = 0, !.seen = -1, !.last = None]
                ELSE partner
  /\ UNCHANGED <<stage, pe_soft, queue, hard_rx, resets>>

\* (pe_got_soft_reset() leads PE away from PE_SEND_SOFT_RESET.)
prl_rx_wait_for_phy_message ==
  /\ stage = "rx" /\ Goto("rch") /\ local_state = "RUN"
  /\ IF Busy(prl) \/ queue = <<>> THEN UNCHANGED <<prl, pe_soft, queue>>
     ELSE /\ prl' = Receive(prl, Head(queue)) /\ queue' = Tail(queue)
          /\ pe_soft' = (pe_soft /\ Head(queue).kind # "soft")
  /\ UNCHANGED <<local_state, partner, hard_rx, resets>>

\* rch_run() and tch_run() call pe_report_error().
RchErrs(s) == s.rch # "ERROR" /\ rch_run(s).rch = "ERROR"

TchErrs(s) ==
  \/ s.tch = "WAIT" /\ ~s.tch_received /\ s.tch_xmit /\ s.rch # "WAIT"
  \/ s.tch = "TRANSMISSION" /\ ~s.tx_complete /\ s.tx_error
  \/ s.tch = "SENDING" /\ s.tx_error
  \/ /\ s.tch = "REQUEST" /\ s.tch_received
     /\ s.rx.kind = "request" /\ s.rx.num # s.chunk_number_to_send

\* What PE does of an error: it may go on, or send a Soft_Reset.  If it is about
\* to do that already it begins a hard reset, of which the layer takes no notice.
PeErrs(error) ==
  \/ local_state' = local_state /\ pe_soft' = (pe_soft /\ ~error)
  \/ error /\ prl_reset_soft

prl_run ==
  /\ \/ stage = "rch" /\ Goto("tch") /\ prl' = rch_run(prl) /\ PeErrs(RchErrs(prl))
     \/ stage = "tch" /\ Goto("tx") /\ prl' = tch_run(prl) /\ PeErrs(TchErrs(prl))
     \/ stage = "tx" /\ Goto("tch_again") /\ prl' = prl_tx_run(prl)
          /\ UNCHANGED <<local_state, pe_soft>>
     \/ stage = "tch_again" /\ Goto("hr") /\ prl' = tch_run(prl)
          /\ PeErrs(TchErrs(prl))
     \/ stage = "hr" /\ Goto("tc") /\ prl' = prl_hr_run(prl)
          /\ UNCHANGED <<local_state, pe_soft>>
  /\ UNCHANGED env

-----------------------------------------------------------------------------
(* Timers, the PHY and the partner                                         *)

\* The partner receives our message, new or (by its id) a repeated one, and does
\* not repeat its last one any more.
Delivered(msg) ==
  LET p == [partner EXCEPT !.last = None] IN
  CASE msg.kind = "hard" -> [p EXCEPT !.id = 0, !.seen = -1]
    [] msg.kind = "soft" -> [p EXCEPT !.id = 0, !.seen = msg.id, !.got = msg.n]
    [] OTHER -> IF msg.id = partner.seen THEN p
                ELSE [p EXCEPT !.seen = msg.id,
                               !.got = IF msg.n > 0 THEN msg.n ELSE @]

\* Our message reaches it after its Soft_Reset, which is not handled yet.
CrossesReset == \E i \in 1 .. Len(queue) : queue[i].kind = "soft"

\* It neither receives nor sends during a hard reset of its own.
PartnerResets == hard_rx \/ "PARTNER" \in prl.hr_flags

Running(timer) ==
  CASE timer = "tx" -> prl.tx = "WAIT_PHY"
    [] timer = "sink" -> prl.tx = "PENDING"
    [] timer = "rch" -> prl.rch = "WAITING"
    [] timer = "tch" -> prl.tch = "REQUEST"
    [] timer = "hr" -> prl.hr = "PHY"

\* A timer expires.  The timeout for the PHY is far longer than a transmission:
\* there is no result any more, whether the message was sent or not.  That of
\* a hard reset is longer than a round of the loop.
Expire(timer) ==
  /\ Running(timer) /\ timer \notin prl.expired
  /\ timer = "hr" => ~(prl.tch = "WAIT" /\ prl.tch_xmit)
                     /\ ~(prl.tx = "WAIT" /\ prl.tx_xmit)
  /\ prl' = [prl EXCEPT !.expired = @ \cup {timer},
                        !.phy = IF timer = "tx" THEN None ELSE @,
                        !.apart = @ \/ (timer = "tx" /\ CrossesReset)]
  /\ \/ UNCHANGED partner
     \/ timer = "tx" /\ prl.phy # None /\ ~PartnerResets
          /\ partner' = Delivered(prl.phy)
  /\ UNCHANGED <<stage, local_state, pe_soft, queue, hard_rx, resets>>

\* Whether the ids may be out of step once our message has been answered for: an
\* acknowledged reset ends that, one of the partner's that it crosses begins it.
OutOfStep(status) ==
  LET received(kind) == prl.phy.kind = kind /\ status = "SUCCESS" IN
  /\ ~received("hard")
  /\ CrossesReset \/ (prl.apart /\ ~(received("soft") /\ prl.tx = "WAIT_PHY"))

\* pd_transmit_complete(): with GoodCRC, or without, the message lost or not.
pd_transmit_complete(status) ==
  /\ prl.phy # None /\ (PartnerResets => status = "FAILED")
  /\ prl' = [prl EXCEPT !.phy = None, !.xmit_status = status,
                        !.apart = OutOfStep(status)]
  /\ \/ ~PartnerResets /\ partner' = Delivered(prl.phy)
     \/ status = "FAILED" /\ UNCHANGED partner
  /\ UNCHANGED <<stage, local_state, pe_soft, queue, hard_rx, resets>>

\* The PHY receives a message, and discards one it is still to transmit.
Arrive(msg) ==
  /\ queue' = IF prl.rx_enabled THEN Append(queue, msg) ELSE queue
  /\ prl' = IF prl.phy = None THEN prl
            ELSE [prl EXCEPT !.phy = None, !.xmit_status = "FAILED"]

\* The partner sends a message with its next id.
PartnerSend(kind, num) ==
  /\ partner.sends < RECEIVES /\ Len(queue) < RX_QUEUE /\ ~PartnerResets
  /\ kind \notin {"ext", "request"} => num = 0
  /\ LET id == IF kind = "soft" THEN 0 ELSE partner.id
         msg == [kind |-> kind, n |-> partner.sends + 1, num |-> num, id |-> id]
     IN
       /\ Arrive(msg)
       /\ partner' = [partner EXCEPT
                        !.id = (id + 1) % (PD_MESSAGE_ID_COUNT + 1),
                        !.sends = @ + 1,
                        !.seen = IF kind = "soft" THEN -1 ELSE @,
                        !.last = msg]
  /\ UNCHANGED <<stage, local_state, pe_soft, hard_rx, resets>>

\* It repeats its last message, the GoodCRC for which was lost, however far we
\* are with the first copy.
PartnerRetry ==
  /\ partner.sends < RECEIVES /\ partner.last # None /\ Len(queue) < RX_QUEUE
  /\ Arrive(partner.last)
  /\ partner' = [partner EXCEPT !.sends = @ + 1]
  /\ UNCHANGED <<stage, local_state, pe_soft, hard_rx, resets>>

\* Hard Reset signalling also ends a transmission.
PartnerHardReset ==
  /\ resets < RESETS /\ ~hard_rx
  /\ hard_rx' = TRUE
  /\ prl' = [prl EXCEPT !.phy = None]
  /\ partner' = [partner EXCEPT !.id = 0, !.seen = -1, !.last = None]
  /\ resets' = resets + 1
  /\ UNCHANGED <<stage, local_state, pe_soft, queue>>

PE ==
  \/ \E kind \in PeKinds, ams \in BOOLEAN : PeSend(kind, ams)
  \/ \E ams \in BOOLEAN : PeIdle(ams)
  \/ \E startup \in BOOLEAN : prl_hard_reset_complete(startup)
  \/ PeHardReset \/ PeStartup \/ PeSoftReset

pd_task ==
  \/ tc_event_check \/ PE \/ prl_rx_wait_for_phy_message \/ prl_run
  \/ \E anew \in BOOLEAN : prl_run_init(anew)

Next ==
  \/ pd_task
  \/ \E timer \in Timers : Expire(timer)
  \/ \E status \in {"SUCCESS", "FAILED"} : pd_transmit_complete(status)
  \/ \E kind \in PartnerKinds, num \in 0 .. CHUNKS - 1 : PartnerSend(kind, num)
  \/ PartnerRetry \/ PartnerHardReset

Spec == Init /\ [][Next]_vars

\* The task runs on, transmissions end, timers expire, and PE completes a hard
\* reset.
FairSpec ==
  /\ Spec
  /\ WF_vars(pd_task)
  /\ WF_vars(\E status \in {"SUCCESS", "FAILED"} : pd_transmit_complete(status))
  /\ \A timer \in Timers : WF_vars(Expire(timer))
  /\ SF_vars(\E startup \in BOOLEAN : prl_hard_reset_complete(startup))

-----------------------------------------------------------------------------
(* Properties                                                              *)

\* The order of what is passed up.
Before(a, b) == a.n < b.n \/ (a.n = b.n /\ a.era < b.era)

\* What the protocol layer passes up (pe_message_received()) comes in the
\* order the partner sent it, across resets too, and although the partner repeats
\* what was not acknowledged a message comes a second time only if the stored id
\* was forgotten, in a reset, between the receptions of the two copies:
\* prl_rx_wait_for_phy_message() drops a message with the id of the last one,
\* whatever rch and tch are doing.  (Not once a message was written over another
\* in rx_chk_buf, see Accept.)
InOrder ==
  ~prl.overwritten =>
    \A i, j \in 1 .. Len(prl.passed) :
      i < j => Before(prl.passed[i], prl.passed[j])

\* A message of which pe_report_discard() has told PE, which may then send it
\* again, is not transmitted any more, by prl_tx or from a flag left in tch.
\* (If it was handed over with nothing of an earlier one left, see clean.)
DiscardedNotSent ==
  prl.answers = <<"discard">> /\ prl.clean => partner.got # prl.sends

\* When pe_message_sent() tells PE that its message was sent, the partner has
\* received it, and as a new message: the message ids of both sides have kept
\* in step through retries, chunk requests, discarded messages and resets.  (Not
\* while a reset has not reached the partner, nor once PD_MESSAGE_ID_COUNT of
\* ours in a row went unacknowledged, see apart.)
SentIsReceived ==
  prl.answers = <<"sent">> /\ prl.clean /\ ~prl.apart => partner.got = prl.sends

\* "Inform Policy Engine Hard Reset was sent" (prl_hr): PE is told only after
\* the PHY was asked to signal it, if rch, tch and prl_tx had nothing to do
\* when the reset began and no message has come in since.  (Otherwise the
\* request can stay in tch until the timer ends the wait.)
HardResetRequested ==
  prl.hr = "PE" /\ "PE" \in prl.hr_flags /\ prl.unhindered => prl.hard_requested

\* PE, which does not send before it has heard of its last message, hears of
\* it: that it was sent, failed or was discarded, or else it gets a message
\* or an error from rch that ends its wait.
Answered ==
  \A n \in 1 .. SENDS : prl.owed.n = n ~> prl.owed.n # n \/ prl.heard

\* A hard reset comes to its end, whoever began it and whatever the protocol
\* layer was doing, also when the PHY never answers.
HardResetEnds == prl.hr # "WAIT" ~> prl.hr = "WAIT"
=============================================================================
