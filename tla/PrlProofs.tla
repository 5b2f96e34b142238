----------------------------- MODULE PrlProofs -----------------------------
(***************************************************************************)
(* For any message kinds, bounds and number of chunks: the protocol layer  *)
(* keeps its types, the chunk numbers within the extended message          *)
(* included; no hard reset of the policy engine that nothing hindered is   *)
(* finished without having been sent; and the policy engine gets the       *)
(* partner's messages in the order they were sent, one of them twice only  *)
(* if its id was forgotten between two receptions, as long as no message   *)
(* was written over another in rx_chk_buf.                                 *)
(*                                                                         *)
(* The model's operators map a record of the layer to the next one.  Each  *)
(* has a lemma here that says what it keeps (Ok); a step of the task is    *)
(* then a composition of operators whose lemmas compose.                   *)
(***************************************************************************)
EXTENDS Prl, TLAPS

\* The fields of the record.
Fields ==
  {"tx", "tx_xmit", "sink_ng", "xmit_status", "id", "last_hard", "phy",
   "rch", "rch_received", "rch_chunking", "chunk_number_expected",
   "tch", "tch_received", "tch_xmit", "tch_chunking", "chunk_number_to_send",
   "send_offset", "tx_complete", "tx_error", "out", "rx", "rx_id", "rx_enabled",
   "hr", "hr_flags", "expired", "local_ams", "pe_reset", "owed", "sends",
   "answers", "heard", "accepted", "passed", "era", "rx_era", "hard_requested",
   "unhindered", "clean", "unheard", "apart", "overwritten"}

\* The states of the machine that transmits.
TxStates == {"WAIT", "LAYER_RESET", "WAIT_PHY", "START_AMS", "PENDING"}

\* The types of the fields.
Layer(s) ==
  /\ DOMAIN s = Fields
  /\ s.tx \in TxStates
  /\ s.xmit_status \in {"UNSET", "SUCCESS", "FAILED"}
  /\ s.rch \in {"WAIT", "PROCESSING", "REQUESTING", "WAITING", "ERROR"}
  /\ s.tch \in {"WAIT", "TRANSMISSION", "CONSTRUCT", "SENDING", "REQUEST", "RECEIVED"}
  /\ s.hr \in {"WAIT", "RESET_LAYER", "PHY", "PE"}
  /\ s.hr_flags \subseteq {"PE", "PARTNER", "COMPLETE"}
  /\ s.expired \subseteq Timers
  /\ s.id \in 0 .. PD_MESSAGE_ID_COUNT
  /\ s.rx_id \in -1 .. PD_MESSAGE_ID_COUNT
  /\ s.chunk_number_expected \in 0 .. CHUNKS
  /\ s.chunk_number_to_send \in 0 .. CHUNKS - 1
  /\ s.send_offset \in 0 .. CHUNKS
  /\ s.sends \in 0 .. SENDS + RECEIVES /\ s.unheard \in 0 .. PD_MESSAGE_ID_COUNT
  /\ s.out \in Message /\ s.rx \in Message /\ s.owed \in Message /\ s.phy \in Message

\* A chunk that is being built or sent is one of the message: its number is
\* below the offset already reached, and while the partner has to ask for the
\* next chunk that one still exists.
ChunksOK(s) ==
  /\ s.rx.num < CHUNKS
  /\ s.tch \in {"CONSTRUCT", "SENDING"} => s.chunk_number_to_send < s.send_offset
  /\ s.tch = "REQUEST" =>
       s.chunk_number_to_send <= s.send_offset /\ s.send_offset < CHUNKS

\* A layer with no hard reset has no hard reset flag; the policy engine waits
\* for the answer to a Soft_Reset only while there is no hard reset.
ResetsOK(s) ==
  /\ s.hr = "WAIT" => s.hr_flags = {}
  /\ s.hr # "WAIT" => s.owed.kind # "soft"

\* What every operator of the model keeps, in whatever order it is called.
Good(s) == Layer(s) /\ ChunksOK(s)

\* The hard reset stays where it is, and nothing new is owed to it.
SameReset(s, t) ==
  /\ t.hr = s.hr /\ t.hr_flags = s.hr_flags /\ t.pe_reset = s.pe_reset
  /\ "hr" \in t.expired => "hr" \in s.expired
  /\ s.hard_requested => t.hard_requested
  /\ t.local_ams => s.local_ams
  /\ t.owed.kind = "soft" => s.owed.kind = "soft"
  /\ t.unhindered => s.unhindered

\* A hard reset has just been started by an error of the layer itself.
Restarted(t) ==
  /\ t.hr = "RESET_LAYER" /\ t.hr_flags = {"PE"} /\ ~t.pe_reset
  /\ "hr" \notin t.expired /\ ~t.local_ams /\ t.owed.kind # "soft"
  /\ ~t.unhindered

\* No message is received.
SameBuffer(s, t) == t.rx = s.rx /\ t.overwritten = s.overwritten

\* What an operator other than those of prl_hr may do to a hard reset.
Follows(s, t) ==
  /\ t.sends = s.sends /\ SameBuffer(s, t)
  /\ SameReset(s, t) \/ (s.hr = "WAIT" /\ Restarted(t))

\* The lemmas of the operators say: Ok(s, operator(s)).
Ok(s, t) == Good(t) /\ Follows(s, t)

\* Operators compose.
LEMMA FollowsTrans ==
  ASSUME NEW s, NEW t, NEW u, Follows(s, t), Follows(t, u)
  PROVE  Follows(s, u)
  BY DEF Follows, SameBuffer, SameReset, Restarted

\* They leave the reset flags coherent.
LEMMA FollowsResets ==
  ASSUME NEW s, NEW t, ResetsOK(s), Follows(s, t)
  PROVE  ResetsOK(t)
  BY DEF ResetsOK, Follows, SameBuffer, SameReset, Restarted

\* The absent message is a message.
LEMMA NoneTyped == None \in Message /\ None.kind = "none" /\ None.num = 0
  BY PrlAssumption DEF None, Message

\* The layer after prl_init.
LEMMA InitGood == Good(prl_init)
  BY NoneTyped, PrlAssumption
  DEF Good, ChunksOK, prl_init, Layer, Fields, TxStates

\* prl_tx: state changes, answers to the policy engine, the message id.
LEMMA SetTxOk ==
  ASSUME NEW s, Good(s), NEW state \in TxStates
  PROVE  Ok(s, SetTx(s, state))
  BY
  DEF Ok, Good, Layer, Fields, ChunksOK, Follows, SameBuffer, SameReset, SetTx

LEMMA AnswerOk ==
  ASSUME NEW s, Good(s), NEW a
  PROVE  Ok(s, Answer(s, a))
  BY NoneTyped
  DEF Ok, Good, Layer, Fields, ChunksOK, Follows, SameBuffer, SameReset, Answer

LEMMA PhyLayerResetOk ==
  ASSUME NEW s, Good(s)
  PROVE  Ok(s, prl_tx_phy_layer_reset(s))
  <1> DEFINE t == SetTx(s, "WAIT")
  <1>1. Ok(s, t)
    BY SetTxOk DEF TxStates
  <1> HIDE DEF t
  <1>2. Ok(t, [t EXCEPT !.rx_enabled = TRUE])
    BY <1>1
    DEF Ok, Good, Layer, Fields, ChunksOK, Follows, SameBuffer, SameReset
  <1> QED BY <1>1, <1>2, FollowsTrans DEF Ok, prl_tx_phy_layer_reset, t

LEMMA DiscardOk ==
  ASSUME NEW s, Good(s)
  PROVE  Ok(s, pe_report_discard(s))
  <1> DEFINE t == IF s.owed = None THEN s ELSE Answer(s, "discard")
  <1>1. Ok(s, t)
    BY AnswerOk DEF Ok, Follows, SameBuffer, SameReset
  <1> HIDE DEF t
  <1>2. Ok(t, [t EXCEPT !.local_ams = FALSE])
    BY <1>1
    DEF Ok, Good, Layer, Fields, ChunksOK, Follows, SameBuffer, SameReset
  <1> QED BY <1>1, <1>2, FollowsTrans DEF Ok, pe_report_discard, t

LEMMA ReceivedOk ==
  ASSUME NEW s, Good(s)
  PROVE  Ok(s, pe_message_received(s))
  BY
  DEF Ok, Good, Layer, Fields, ChunksOK, Follows, SameBuffer, SameReset,
    pe_message_received

LEMMA IncrementOk ==
  ASSUME NEW s, Good(s)
  PROVE  Ok(s, increment_msgid_counter(s))
  <1> DEFINE i == (s.id + 1) % (PD_MESSAGE_ID_COUNT + 1)
             h == IF s.unheard < PD_MESSAGE_ID_COUNT THEN s.unheard + 1 ELSE s.unheard
  <1>1. i \in 0 .. PD_MESSAGE_ID_COUNT /\ h \in 0 .. PD_MESSAGE_ID_COUNT
    BY PrlAssumption DEF Good, Layer
  <1>2. increment_msgid_counter(s)
          = IF s.last_hard THEN s ELSE [s EXCEPT !.id = i, !.unheard = h]
    BY DEF increment_msgid_counter
  <1> HIDE DEF i, h
  <1>3. Ok(s, s)
    BY DEF Ok, Follows, SameBuffer, SameReset
  <1>4. Ok(s, [s EXCEPT !.id = i, !.unheard = h])
    BY <1>1
    DEF Ok, Good, Layer, Fields, ChunksOK, Follows, SameBuffer, SameReset
  <1> QED  BY <1>2, <1>3, <1>4

\* What t has of s.
Agree(s, t, fields) == DOMAIN t = DOMAIN s /\ \A f \in fields : t[f] = s[f]

\* The message id is not read by the other machines.
LEMMA IncrementAgrees ==
  ASSUME NEW s, Good(s)
  PROVE  Agree(s, increment_msgid_counter(s), Fields \ {"id", "unheard"})
  BY DEF Agree, Good, Layer, increment_msgid_counter

LEMMA ClearXmitOk ==
  ASSUME NEW s, Good(s)
  PROVE  Ok(s, ClearXmit(s))
  BY
  DEF Ok, Good, Layer, Fields, ChunksOK, Follows, SameBuffer, SameReset,
    ClearXmit

LEMMA TxDiscardOk ==
  ASSUME NEW s, Good(s)
  PROVE  Ok(s, prl_tx_discard_message(s))
  <1> DEFINE c == ClearXmit(s)
             i == increment_msgid_counter(c)
             d == pe_report_discard(i)
             t == IF s.tx_xmit THEN d ELSE s
  <1>1. Ok(s, c)
    BY ClearXmitOk
  <1>2. Ok(s, i)
    BY <1>1, IncrementOk, FollowsTrans DEF Ok
  <1>3. Ok(s, d)
    BY <1>2, DiscardOk, FollowsTrans DEF Ok
  <1>4. Ok(s, t)
    BY <1>3 DEF Ok, Follows, SameBuffer, SameReset
  <1> HIDE DEF t
  <1>5. Ok(s, prl_tx_phy_layer_reset(t))
    BY <1>4, PhyLayerResetOk, FollowsTrans DEF Ok
  <1> QED  BY <1>5 DEF prl_tx_discard_message, t

\* prl_tx_construct_message and what sends it.
LEMMA ConstructMessageOk ==
  ASSUME NEW s, Good(s)
  PROVE  Ok(s, prl_tx_construct_message(s))
  <1> DEFINE t == SetTx(s, "WAIT_PHY")
             m == [s.out EXCEPT !.id = s.id]
             h == t.hard_requested \/ s.out.kind = "hard"
             a == t.apart \/ s.unheard = PD_MESSAGE_ID_COUNT
  <1>1. Ok(s, t)
    BY SetTxOk DEF TxStates
  <1>2. m \in Message
    BY DEF Good, Layer, Message
  <1>3. t.hard_requested => h
    OBVIOUS
  <1> HIDE DEF t, m, h, a
  <1>4. Ok(t, [t EXCEPT !.last_hard = s.out.kind = "hard", !.xmit_status = "UNSET",
                  !.tx_complete = FALSE, !.phy = m, !.hard_requested = h,
                  !.apart = a])
    BY <1>1, <1>2, <1>3
    DEF Ok, Good, Layer, Fields, ChunksOK, Follows, SameBuffer, SameReset
  <1> QED  BY <1>1, <1>4, FollowsTrans DEF Ok, prl_tx_construct_message, t, m, h, a

LEMMA TransmitOk ==
  ASSUME NEW s, Good(s)
  PROVE  Ok(s, Transmit(s))
  <1> DEFINE c == ClearXmit(s)
             t == SetTx(c, "LAYER_RESET")
  <1>1. Ok(s, c)
    BY ClearXmitOk
  <1>2. Ok(s, t)
    BY <1>1, SetTxOk, FollowsTrans DEF Ok, TxStates
  <1>3. Ok(s, prl_tx_construct_message(c))
    BY <1>1, ConstructMessageOk, FollowsTrans DEF Ok
  <1> HIDE DEF t
  <1>4. Ok(t, [t EXCEPT !.id = 0, !.rx_id = -1, !.era = NextEra(s),
                         !.unheard = 0, !.apart = TRUE])
    BY <1>2, PrlAssumption
    DEF Ok, Good, Layer, Fields, ChunksOK, Follows, SameBuffer, SameReset
  <1> QED  BY <1>2, <1>3, <1>4, FollowsTrans DEF Ok, Transmit, t

\* The entries of the chunking machines.
LEMMA EnterRchWaitOk ==
  ASSUME NEW s, Good(s)
  PROVE  Ok(s, EnterRchWait(s))
  BY
  DEF Ok, Good, Layer, Fields, ChunksOK, Follows, SameBuffer, SameReset,
    EnterRchWait

LEMMA EnterTchWaitOk ==
  ASSUME NEW s, Good(s)
  PROVE  Ok(s, EnterTchWait(s))
  BY
  DEF Ok, Good, Layer, Fields, ChunksOK, Follows, SameBuffer, SameReset,
    EnterTchWait

LEMMA ToWaitOk ==
  ASSUME NEW s, Good(s)
  PROVE  Ok(s, ToWait(s))
  <1> DEFINE r == IF s.rch = "WAIT" THEN s ELSE EnterRchWait(s)
             t == IF s.tch = "WAIT" THEN r ELSE EnterTchWait(r)
  <1>1. Ok(s, r)
    BY EnterRchWaitOk DEF Ok, Follows, SameBuffer, SameReset
  <1> HIDE DEF r
  <1>2. Ok(s, t)
    BY <1>1, EnterTchWaitOk, FollowsTrans DEF Ok
  <1> QED  BY <1>2 DEF ToWait, r

\* What prl_hr_reset_layer_entry leaves behind.
Cleared(s) ==
  /\ s.tx = "WAIT" /\ ~s.tch_received /\ ~s.tch_xmit /\ ~s.rch_received
  /\ ~s.tx_complete /\ ~s.tx_error

\* Leaving PRL_HR_WAIT_FOR_PE_HARD_RESET_COMPLETE.
Kept(s, t) ==
  /\ s.rch = "WAIT" => t.rch = "WAIT"
  /\ s.tch = "WAIT" => t.tch = "WAIT"
  /\ t.tx_xmit = s.tx_xmit /\ t.unhindered = s.unhindered
  /\ t.local_ams = s.local_ams /\ t.owed = s.owed
  /\ t.hr = s.hr /\ t.hr_flags = s.hr_flags /\ t.pe_reset = s.pe_reset
  /\ t.hard_requested = s.hard_requested

LEMMA LeaveOk ==
  ASSUME NEW s, Good(s)
  PROVE  LET t == ToWait(prl_tx_phy_layer_reset(s)) IN Ok(s, t) /\ Kept(s, t)
  <1> DEFINE w == SetTx(s, "WAIT")
             p == prl_tx_phy_layer_reset(s)
             r == IF p.rch = "WAIT" THEN p ELSE EnterRchWait(p)
             t == IF p.tch = "WAIT" THEN r ELSE EnterTchWait(r)
  <1>1. Ok(s, w) /\ Kept(s, w)
    <2>1. Ok(s, w)
      BY SetTxOk DEF TxStates
    <2>2. DOMAIN s = Fields
      BY DEF Good, Layer
    <2>3. Kept(s, w)
      BY <2>2 DEF SetTx, Kept, Fields
    <2> QED  BY <2>1, <2>3
  <1>2. Ok(s, p)
    BY PhyLayerResetOk
  <1>3. Kept(s, p)
    <2> HIDE DEF w
    <2>1. Kept(s, [w EXCEPT !.rx_enabled = TRUE])
      BY <1>1 DEF Kept, Ok, Good, Layer, Fields
    <2> QED  BY <2>1 DEF prl_tx_phy_layer_reset, w
  <1> HIDE DEF p
  <1>4. Ok(p, ToWait(p))
    BY <1>2, ToWaitOk DEF Ok
  <1>5. Kept(s, r)
    BY <1>2, <1>3 DEF Kept, Ok, Good, Layer, Fields, EnterRchWait
  <1>6. DOMAIN r = Fields
    BY <1>2 DEF Ok, Good, Layer, EnterRchWait
  <1> HIDE DEF r
  <1>7. Kept(s, t)
    BY <1>5, <1>6 DEF Kept, Fields, EnterTchWait
  <1>8. ToWait(p) = t
    BY DEF ToWait, r
  <1> QED  BY <1>2, <1>4, <1>7, <1>8, FollowsTrans DEF Ok, p

\* The fields that prl_hr_reset_layer_entry sets are left well-typed.
LEMMA ResetFieldsGood ==
  ASSUME NEW s, Good(s), NEW acc, NEW era
  PROVE  Good([s EXCEPT
                 !.hr = "RESET_LAYER",
                 !.tch_received = FALSE, !.tch_xmit = FALSE, !.tch_chunking = FALSE,
                 !.rch_received = FALSE, !.rch_chunking = FALSE,
                 !.tx_complete = FALSE, !.tx_error = FALSE,
                 !.id = 0, !.rx_id = -1, !.rx_enabled = FALSE,
                 !.accepted = acc,
                 !.era = era, !.unheard = 0, !.expired = @ \ {"hr"}])
  <1> DEFINE v == [s EXCEPT
                     !.tch_received = FALSE, !.tch_xmit = FALSE,
                     !.tch_chunking = FALSE,
                     !.rch_received = FALSE, !.rch_chunking = FALSE,
                     !.tx_complete = FALSE, !.tx_error = FALSE]
             w == [v EXCEPT !.id = 0, !.rx_id = -1, !.unheard = 0]
             u == [w EXCEPT !.hr = "RESET_LAYER", !.rx_enabled = FALSE,
                            !.accepted = acc, !.era = era,
                            !.expired = @ \ {"hr"}]
  <1>1. Good(v)
    BY DEF Good, Layer, Fields, ChunksOK
  <1>2. [s EXCEPT
           !.hr = "RESET_LAYER",
           !.tch_received = FALSE, !.tch_xmit = FALSE, !.tch_chunking = FALSE,
           !.rch_received = FALSE, !.rch_chunking = FALSE,
           !.tx_complete = FALSE, !.tx_error = FALSE,
           !.id = 0, !.rx_id = -1, !.rx_enabled = FALSE,
           !.accepted = acc,
           !.era = era, !.unheard = 0, !.expired = @ \ {"hr"}] = u
    OBVIOUS
  <1> HIDE DEF v
  <1>3. Good(w)
    BY <1>1, PrlAssumption DEF Good, Layer, Fields, ChunksOK
  <1> HIDE DEF w
  <1>4. Good(u)
    BY <1>3 DEF Good, Layer, Fields, ChunksOK
  <1> QED  BY <1>2, <1>4

\* prl_hr_reset_layer_entry.
LEMMA ResetLayerOk ==
  ASSUME NEW s, Good(s), s.hr # "RESET_LAYER"
  PROVE  LET t == prl_hr_reset_layer(s) IN
         /\ Good(t) /\ t.sends = s.sends /\ Cleared(t)
         /\ t.hr = "RESET_LAYER" /\ t.hr_flags = s.hr_flags
         /\ t.pe_reset = s.pe_reset /\ "hr" \notin t.expired
         /\ t.local_ams = s.local_ams /\ t.owed = s.owed
         /\ t.unhindered = s.unhindered
         /\ s.rch = "WAIT" => t.rch = "WAIT"
         /\ s.tch = "WAIT" => t.tch = "WAIT"
         /\ t.tx_xmit = s.tx_xmit /\ SameBuffer(s, t)
  <1> DEFINE left == IF s.hr = "PE" THEN ToWait(prl_tx_phy_layer_reset(s)) ELSE s
             a == IF s.rch = "PROCESSING" THEN left.accepted ELSE {}
             u == [left EXCEPT
                     !.hr = "RESET_LAYER",
                     !.tch_received = FALSE, !.tch_xmit = FALSE, !.tch_chunking = FALSE,
                     !.rch_received = FALSE, !.rch_chunking = FALSE,
                     !.tx_complete = FALSE, !.tx_error = FALSE,
                     !.id = 0, !.rx_id = -1, !.rx_enabled = FALSE,
                     !.accepted = a,
                     !.era = NextEra(s), !.unheard = 0, !.expired = @ \ {"hr"}]
             t == prl_hr_reset_layer(s)
  <1>1. Good(left) /\ left.sends = s.sends /\ Kept(s, left)
        /\ SameBuffer(s, left)
    BY LeaveOk DEF Ok, Kept, Follows, SameBuffer
  <1> HIDE DEF left, a
  <1>2. /\ Good(u) /\ u.hr = "RESET_LAYER" /\ "hr" \notin u.expired
        /\ ~u.tch_received /\ ~u.tch_xmit /\ ~u.rch_received
        /\ ~u.tx_complete /\ ~u.tx_error /\ u.sends = s.sends
    <2>1. Good(u)
      BY <1>1, ResetFieldsGood
    <2>4. u.hr = "RESET_LAYER" /\ "hr" \notin u.expired /\ u.sends = s.sends
      BY <1>1 DEF Good, Layer, Fields
    <2>5. /\ ~u.tch_received /\ ~u.tch_xmit /\ ~u.rch_received
          /\ ~u.tx_complete /\ ~u.tx_error
      BY <1>1 DEF Good, Layer, Fields
    <2> QED  BY <2>1, <2>4, <2>5
  <1>3. /\ u.rch = left.rch /\ u.tch = left.tch /\ u.tx_xmit = left.tx_xmit
        /\ u.unhindered = left.unhindered /\ u.local_ams = left.local_ams
        /\ u.owed = left.owed /\ u.hr_flags = left.hr_flags
        /\ u.pe_reset = left.pe_reset /\ u.rx = left.rx
        /\ u.overwritten = left.overwritten
    BY <1>1 DEF Good, Layer, Fields
  <1>4. t = ResetTx(u)
    BY DEF prl_hr_reset_layer, left, a
  <1> HIDE DEF u, t
  <1>5. Ok(u, t)
    BY <1>2, <1>4, SetTxOk DEF ResetTx, TxStates
  <1>6. /\ t.tx = "WAIT" /\ "hr" \notin t.expired
        /\ t.hr = u.hr /\ t.hr_flags = u.hr_flags
        /\ t.rch = u.rch /\ t.tch = u.tch /\ t.tx_xmit = u.tx_xmit
        /\ t.tch_received = u.tch_received /\ t.tch_xmit = u.tch_xmit
        /\ t.rch_received = u.rch_received
        /\ t.tx_complete = u.tx_complete /\ t.tx_error = u.tx_error
        /\ t.unhindered = u.unhindered /\ t.local_ams = u.local_ams
        /\ t.owed = u.owed /\ t.pe_reset = u.pe_reset /\ t.sends = u.sends
        /\ t.rx = u.rx /\ t.overwritten = u.overwritten
    BY <1>2, <1>4 DEF ResetTx, SetTx, Good, Layer, Fields
  <1>7. Good(t) /\ Cleared(t)
    BY <1>2, <1>5, <1>6 DEF Ok, Cleared
  <1> QED  BY <1>1, <1>2, <1>3, <1>6, <1>7 DEF Kept, SameBuffer, t

\* prl_execute_hard_reset, for whoever asked for it.
LEMMA ExecuteOk ==
  ASSUME NEW s, Good(s), NEW who \in {"PE", "PARTNER"}
  PROVE  LET t == execute_hard_reset(s, who) IN
         /\ Good(t) /\ t.sends = s.sends /\ SameBuffer(s, t)
         /\ t.hr = "RESET_LAYER" /\ t.hr_flags = s.hr_flags \cup {who}
         /\ ~t.pe_reset /\ ~t.local_ams /\ t.owed.kind # "soft"
         /\ s.hr # "RESET_LAYER" => "hr" \notin t.expired
         /\ s.hr = "RESET_LAYER" => t.expired = s.expired
         /\ s.hr # "RESET_LAYER" \/ Cleared(s) => Cleared(t)
         /\ t.unhindered => /\ s.rch = "WAIT" /\ s.tch = "WAIT"
                            /\ t.rch = "WAIT" /\ t.tch = "WAIT" /\ ~t.tx_xmit
  <1> DEFINE h == s.rch = "WAIT" /\ s.tch = "WAIT" /\ ~s.tx_xmit
             w == who = "PE"
             p == [s EXCEPT !.hr_flags = @ \cup {who}, !.owed = None,
                            !.pe_reset = FALSE, !.local_ams = FALSE,
                            !.hard_requested = FALSE, !.clean = FALSE,
                            !.unhindered = h, !.apart = w]
             t == prl_hr_reset_layer(p)
  <1>1. h => s.rch = "WAIT" /\ s.tch = "WAIT" /\ ~s.tx_xmit
    OBVIOUS
  <1>2. execute_hard_reset(s, who) = t
    BY DEF execute_hard_reset
  <1> HIDE DEF h, w
  <1>3. /\ Good(p) /\ p.sends = s.sends /\ p.hr = s.hr
        /\ p.hr_flags = s.hr_flags \cup {who} /\ p.expired = s.expired
        /\ ~p.pe_reset /\ ~p.local_ams /\ p.owed.kind # "soft"
    BY NoneTyped DEF Good, Layer, Fields, ChunksOK
  <1>4. /\ p.rch = s.rch /\ p.tch = s.tch /\ p.tx_xmit = s.tx_xmit
        /\ p.unhindered = h /\ p.rx = s.rx /\ p.overwritten = s.overwritten
    BY DEF Good, Layer, Fields
  <1>5. Cleared(s) => Cleared(p)
    BY DEF Good, Layer, Fields, Cleared
  <1> HIDE DEF p
  <1>6. CASE s.hr = "RESET_LAYER"
    <2>1. t = p
      BY <1>3, <1>6 DEF prl_hr_reset_layer
    <2> QED  BY <1>1, <1>2, <1>3, <1>4, <1>5, <1>6, <2>1 DEF SameBuffer
  <1>7. CASE s.hr # "RESET_LAYER"
    <2> HIDE DEF t
    <2>1. /\ Good(t) /\ t.sends = p.sends /\ Cleared(t)
          /\ t.hr = "RESET_LAYER" /\ t.hr_flags = p.hr_flags
          /\ t.pe_reset = p.pe_reset /\ "hr" \notin t.expired
          /\ t.local_ams = p.local_ams /\ t.owed = p.owed
          /\ t.unhindered = p.unhindered
          /\ p.rch = "WAIT" => t.rch = "WAIT"
          /\ p.tch = "WAIT" => t.tch = "WAIT"
          /\ t.tx_xmit = p.tx_xmit /\ SameBuffer(p, t)
      BY <1>3, <1>7, ResetLayerOk DEF t
    <2> QED  BY <1>1, <1>2, <1>3, <1>4, <1>7, <2>1 DEF SameBuffer
  <1> QED  BY <1>6, <1>7

\* An error while a Soft_Reset is sent starts a hard reset.
LEMMA FailedSoftReset ==
  ASSUME NEW s, Good(s), ResetsOK(s), s.hr = "WAIT",
         s.tch # "WAIT" \/ s.rch # "WAIT"
  PROVE  Ok(s, execute_hard_reset(s, "PE"))
  <1>1. s.hr_flags = {}
    BY DEF ResetsOK
  <1>2. s.hr_flags \cup {"PE"} = {"PE"}
    BY <1>1
  <1> QED  BY <1>2, ExecuteOk DEF Ok, Follows, SameBuffer, Restarted

\* The errors that the chunking machines report.
LEMMA ReportErrorOk ==
  ASSUME NEW s, Good(s), ResetsOK(s), s.tch # "WAIT" \/ s.rch # "WAIT"
  PROVE  Ok(s, pe_report_error(s))
  <1> DEFINE a == Answer(s, "error")
  <1>1. Ok(s, a)
    BY AnswerOk
  <1>2. a.tch = s.tch /\ a.rch = s.rch /\ a.hr = s.hr
    BY DEF Answer, Good, Layer, Fields
  <1> HIDE DEF a
  <1>3. ASSUME s.owed.kind = "soft" PROVE Ok(s, execute_hard_reset(a, "PE"))
    <2>1. s.hr = "WAIT"
      BY <1>3 DEF ResetsOK
    <2>2. Ok(a, execute_hard_reset(a, "PE"))
      BY <1>1, <1>2, <2>1, FailedSoftReset, FollowsResets DEF Ok
    <2> QED  BY <1>1, <2>2, FollowsTrans DEF Ok
  <1> QED  BY <1>1, <1>3 DEF pe_report_error, a

LEMMA RchReportErrorOk ==
  ASSUME NEW s, Good(s), ResetsOK(s)
  PROVE  Ok(s, rch_report_error(s))
  <1> DEFINE r == [s EXCEPT !.rch_received = FALSE]
             told == IF s.rch_received THEN pe_message_received(r)
                     ELSE IF s.tch_received THEN s
                     ELSE [s EXCEPT !.accepted = @ \ {s.rx.n}]
             e == [told EXCEPT !.rch = "ERROR", !.heard = TRUE,
                               !.expired = @ \ {"rch"}]
  <1>1. Ok(s, r) /\ r.hr = s.hr
    BY DEF Ok, Good, Layer, Fields, ChunksOK, Follows, SameBuffer, SameReset
  <1> HIDE DEF r
  <1>2. Ok(s, told) /\ told.hr = s.hr
    <2>1. Ok(s, pe_message_received(r))
      BY <1>1, ReceivedOk, FollowsTrans DEF Ok
    <2>2. pe_message_received(r).hr = s.hr
      BY <1>1 DEF pe_message_received, Ok, Good, Layer, Fields
    <2>3. Ok(s, [s EXCEPT !.accepted = @ \ {s.rx.n}])
      BY DEF Ok, Good, Layer, Fields, ChunksOK, Follows, SameBuffer, SameReset
    <2>4. [s EXCEPT !.accepted = @ \ {s.rx.n}].hr = s.hr
      BY DEF Good, Layer, Fields
    <2>5. Ok(s, s)
      BY DEF Ok, Follows, SameBuffer, SameReset
    <2> QED  BY <2>1, <2>2, <2>3, <2>4, <2>5
  <1> HIDE DEF told
  <1>3. Ok(told, e) /\ e.hr = s.hr /\ e.rch = "ERROR"
    BY <1>2
    DEF Ok, Good, Layer, Fields, ChunksOK, Follows, SameBuffer, SameReset
  <1>4. Ok(s, e)
    BY <1>2, <1>3, FollowsTrans DEF Ok
  <1> HIDE DEF e
  <1>5. ASSUME s.owed.kind = "soft" PROVE Ok(s, execute_hard_reset(e, "PE"))
    <2>1. s.hr = "WAIT"
      BY <1>5 DEF ResetsOK
    <2>2. Ok(e, execute_hard_reset(e, "PE"))
      BY <1>3, <1>4, <2>1, FailedSoftReset, FollowsResets DEF Ok
    <2> QED  BY <1>4, <2>2, FollowsTrans DEF Ok
  <1> QED  BY <1>4, <1>5 DEF rch_report_error, r, told, e

\* rch: a message is passed to the policy engine, or a chunk is asked for.
LEMMA PassUpOk ==
  ASSUME NEW s, Good(s)
  PROVE  Ok(s, rch_pass_up_message(s))
  BY ReceivedOk, EnterRchWaitOk, FollowsTrans DEF Ok, rch_pass_up_message

LEMMA RchRunOk ==
  ASSUME NEW s, Good(s), ResetsOK(s)
  PROVE  Ok(s, rch_run(s))
  <1>0. Ok(s, s)
    BY DEF Ok, Follows, SameBuffer, SameReset
  <1>1. CASE s.rch = "WAIT"
    <2> DEFINE r == [s EXCEPT !.rch_received = FALSE]
    <2>1. Ok(s, r)
      BY DEF Ok, Good, Layer, Fields, ChunksOK, Follows, SameBuffer, SameReset
    <2> HIDE DEF r
    <2>2. Ok(s, rch_pass_up_message(r))
      BY <2>1, PassUpOk, FollowsTrans DEF Ok
    <2>3. Ok(s, rch_report_error(r))
      BY <2>1, RchReportErrorOk, FollowsTrans, FollowsResets DEF Ok
    <2>4. Ok(r, [r EXCEPT !.rch = "PROCESSING", !.chunk_number_expected = 0])
      BY <2>1, PrlAssumption
      DEF Ok, Good, Layer, Fields, ChunksOK, Follows, SameBuffer, SameReset
    <2>5. Ok(s, [r EXCEPT !.rch = "PROCESSING", !.chunk_number_expected = 0])
      BY <2>1, <2>4, FollowsTrans DEF Ok
    <2>6. Ok(s, rch_wait_run(s))
      BY <1>0, <2>2, <2>3, <2>5 DEF rch_wait_run, r
    <2> QED  BY <1>1, <2>6 DEF rch_run
  <1>2. CASE s.rch = "PROCESSING"
    <2> DEFINE n == s.chunk_number_expected + 1
               r == [s EXCEPT !.chunk_number_expected = n]
               m == [None EXCEPT !.kind = "request",
                                 !.num = r.chunk_number_expected]
               q == [r EXCEPT !.rch = "REQUESTING", !.accepted = @ \ {s.rx.n},
                              !.out = m, !.tx_xmit = TRUE]
    <2>1. ASSUME s.rx.num = s.chunk_number_expected PROVE Ok(s, r)
      <3>1. n \in 0 .. CHUNKS
        BY <2>1, PrlAssumption DEF Good, Layer, ChunksOK
      <3> QED
        BY <3>1
        DEF Ok, Good, Layer, Fields, ChunksOK, Follows, SameBuffer, SameReset
    <2>2. Ok(s, rch_report_error(s))
      BY RchReportErrorOk
    <2>3. ASSUME s.rx.num = s.chunk_number_expected
          PROVE  Ok(s, rch_pass_up_message(r))
      BY <2>1, <2>3, PassUpOk, FollowsTrans DEF Ok
    <2>4. ASSUME s.rx.num = s.chunk_number_expected PROVE Ok(s, q)
      <3>1. Ok(s, r)
        BY <2>1, <2>4
      <3> HIDE DEF r
      <3>2. m \in Message
        BY <3>1, NoneTyped DEF Ok, Good, Layer, Message
      <3> HIDE DEF m
      <3>3. Ok(r, q)
        BY <3>1, <3>2
        DEF Ok, Good, Layer, Fields, ChunksOK, Follows, SameBuffer, SameReset
      <3> QED  BY <3>1, <3>3, FollowsTrans DEF Ok
    <2>5. Ok(s, rch_processing_run(s))
      <3> HIDE DEF q
      <3>1. CASE s.rx.num # s.chunk_number_expected
        BY <3>1, <2>2 DEF rch_processing_run
      <3>2. CASE s.rx.num = s.chunk_number_expected
                   /\ (s.rx.num = CHUNKS - 1 \/ s.rx.kind = "request")
        <4>1. rch_processing_run(s) = rch_pass_up_message(r)
          BY <3>2 DEF rch_processing_run
        <4> QED  BY <3>2, <4>1, <2>3
      <3>3. CASE s.rx.num = s.chunk_number_expected
                   /\ ~(s.rx.num = CHUNKS - 1 \/ s.rx.kind = "request")
        <4>1. rch_processing_run(s) = q
          BY <3>3 DEF rch_processing_run, q
        <4> QED  BY <3>3, <4>1, <2>4
      <3> QED  BY <3>1, <3>2, <3>3
    <2> QED  BY <1>2, <2>5 DEF rch_run
  <1>3. CASE s.rch = "REQUESTING"
    <2>1. Ok(s, [s EXCEPT !.tx_complete = FALSE, !.rch = "WAITING"])
      BY DEF Ok, Good, Layer, Fields, ChunksOK, Follows, SameBuffer, SameReset
    <2>2. Ok(s, rch_requesting_run(s))
      BY <1>0, <2>1, RchReportErrorOk DEF rch_requesting_run
    <2> QED  BY <1>3, <2>2 DEF rch_run
  <1>4. CASE s.rch = "WAITING"
    <2>1. Ok(s, [s EXCEPT !.rch_received = FALSE, !.rch = "PROCESSING",
                          !.expired = @ \ {"rch"}])
      BY DEF Ok, Good, Layer, Fields, ChunksOK, Follows, SameBuffer, SameReset
    <2>2. Ok(s, rch_waiting_run(s))
      BY <1>0, <2>1, RchReportErrorOk DEF rch_waiting_run
    <2> QED  BY <1>4, <2>2 DEF rch_run
  <1>5. CASE s.rch = "ERROR"
    BY <1>5, EnterRchWaitOk DEF rch_run
  <1> QED  BY <1>1, <1>2, <1>3, <1>4, <1>5 DEF Good, Layer

\* tch: the states that a message and its chunks go through.
LEMMA TchMessageReceivedOk ==
  ASSUME NEW s, Good(s)
  PROVE  Ok(s, tch_message_received(s))
  <1> DEFINE r == [s EXCEPT !.tch = "RECEIVED", !.tch_received = FALSE,
                            !.rch_received = TRUE, !.expired = @ \ {"tch"}]
             x == [r EXCEPT !.tch_xmit = FALSE]
  <1>1. Ok(s, r)
    BY DEF Ok, Good, Layer, Fields, ChunksOK, Follows, SameBuffer, SameReset
  <1> HIDE DEF r
  <1>2. Ok(r, x)
    BY <1>1
    DEF Ok, Good, Layer, Fields, ChunksOK, Follows, SameBuffer, SameReset
  <1> HIDE DEF x
  <1>3. Ok(s, pe_report_discard(x))
    BY <1>1, <1>2, DiscardOk, FollowsTrans DEF Ok
  <1> QED  BY <1>1, <1>3 DEF tch_message_received, r, x

LEMMA AfterReportOk ==
  ASSUME NEW s, Good(s)
  PROVE  Ok(s, AfterReport(s))
  BY TchMessageReceivedOk, EnterTchWaitOk DEF AfterReport

LEMMA TchMessageSentOk ==
  ASSUME NEW s, Good(s)
  PROVE  Ok(s, tch_message_sent(s))
  BY AnswerOk, AfterReportOk, FollowsTrans
  DEF Ok, tch_message_sent, pe_message_sent

LEMMA TchReportErrorOk ==
  ASSUME NEW s, Good(s), ResetsOK(s), s.tch # "WAIT" \/ s.rch # "WAIT"
  PROVE  Ok(s, tch_report_error(s))
  BY ReportErrorOk, AfterReportOk, FollowsTrans DEF Ok, tch_report_error

LEMMA TchConstructOk ==
  ASSUME NEW s, Good(s), s.send_offset < CHUNKS,
         s.chunk_number_to_send <= s.send_offset
  PROVE  Ok(s, tch_construct(s))
  <1> DEFINE n == s.send_offset + 1
             m == [s.out EXCEPT !.num = s.chunk_number_to_send]
             t == [s EXCEPT !.tch = "CONSTRUCT", !.send_offset = n, !.tx_xmit = TRUE,
                            !.out = m, !.expired = @ \ {"tch"}]
  <1>1. n \in 0 .. CHUNKS /\ s.chunk_number_to_send < n
    BY PrlAssumption DEF Good, Layer
  <1>2. m \in Message
    BY PrlAssumption DEF Good, Layer, Message
  <1> HIDE DEF n, m
  <1>3. Ok(s, t)
    BY <1>1, <1>2
    DEF Ok, Good, Layer, Fields, ChunksOK, Follows, SameBuffer, SameReset
  <1>4. tch_construct(s) = IF s.tch_received THEN tch_message_received(s) ELSE t
    BY DEF tch_construct, n, m
  <1> QED  BY <1>3, <1>4, TchMessageReceivedOk

LEMMA TchRunOk ==
  ASSUME NEW s, Good(s), ResetsOK(s)
  PROVE  Ok(s, tch_run(s))
  <1>0. Ok(s, s)
    BY DEF Ok, Follows, SameBuffer, SameReset
  <1>1. CASE s.tch = "WAIT"
    <2> DEFINE t == [s EXCEPT !.tch_xmit = FALSE]
               c == [t EXCEPT !.send_offset = 0, !.chunk_number_to_send = 0]
               x == [t EXCEPT !.tx_xmit = TRUE, !.tch = "TRANSMISSION"]
    <2>1. Ok(s, t) /\ t.tch = s.tch /\ t.rch = s.rch
      BY DEF Ok, Good, Layer, Fields, ChunksOK, Follows, SameBuffer, SameReset
    <2> HIDE DEF t
    <2>2. Ok(s, tch_message_received(s))
      BY TchMessageReceivedOk
    <2>3. ASSUME s.rch # "WAIT" PROVE Ok(s, tch_report_error(t))
      BY <2>1, <2>3, TchReportErrorOk, FollowsTrans, FollowsResets DEF Ok
    <2>4. Ok(s, x)
      <3>1. Ok(t, x)
        BY <2>1
        DEF Ok, Good, Layer, Fields, ChunksOK, Follows, SameBuffer, SameReset
      <3> QED  BY <2>1, <3>1, FollowsTrans DEF Ok
    <2>5. Ok(s, tch_construct(c))
      <3>1. 0 \in 0 .. CHUNKS /\ 0 \in 0 .. CHUNKS - 1 /\ 0 < CHUNKS /\ 0 <= 0
        BY PrlAssumption
      <3>2. Ok(t, c)
        BY <1>1, <2>1, <3>1
        DEF Ok, Good, Layer, Fields, ChunksOK, Follows, SameBuffer, SameReset
      <3>3. c.send_offset < CHUNKS /\ c.chunk_number_to_send <= c.send_offset
        BY <2>1, <3>1 DEF Ok, Good, Layer, Fields
      <3> HIDE DEF c
      <3> QED  BY <2>1, <3>2, <3>3, TchConstructOk, FollowsTrans DEF Ok
    <2> HIDE DEF c, x
    <2>6. Ok(s, tch_wait_run(s))
      <3>1. CASE s.tch_received
        BY <3>1, <2>2 DEF tch_wait_run
      <3>2. CASE ~s.tch_received /\ ~s.tch_xmit
        BY <3>2, <1>0 DEF tch_wait_run
      <3>3. CASE ~s.tch_received /\ s.tch_xmit /\ s.rch # "WAIT"
        BY <3>3, <2>3 DEF tch_wait_run, t
      <3>4. CASE ~s.tch_received /\ s.tch_xmit /\ s.rch = "WAIT"
        <4>1. tch_wait_run(s) = IF s.out.kind = "ext" /\ s.tch_chunking
                                THEN tch_construct(c) ELSE x
          BY <3>4 DEF tch_wait_run, t, c, x
        <4> QED  BY <4>1, <2>4, <2>5
      <3> QED  BY <3>1, <3>2, <3>3, <3>4
    <2> QED  BY <1>1, <2>6 DEF tch_run
  <1>2. CASE s.tch = "TRANSMISSION"
    <2> DEFINE c == [s EXCEPT !.tx_complete = FALSE]
               e == [s EXCEPT !.tx_error = FALSE]
    <2>1. Ok(s, c) /\ Ok(s, e) /\ e.tch = s.tch
      BY DEF Ok, Good, Layer, Fields, ChunksOK, Follows, SameBuffer, SameReset
    <2> HIDE DEF c, e
    <2>2. Ok(s, tch_message_sent(c))
      BY <2>1, TchMessageSentOk, FollowsTrans DEF Ok
    <2>3. Ok(s, tch_report_error(e))
      BY <1>2, <2>1, TchReportErrorOk, FollowsTrans, FollowsResets DEF Ok
    <2>4. Ok(s, tch_transmission_run(s))
      BY <1>0, <2>2, <2>3, TchMessageReceivedOk DEF tch_transmission_run, c, e
    <2> QED  BY <1>2, <2>4 DEF tch_run
  <1>3. CASE s.tch = "CONSTRUCT"
    <2>1. Ok(s, [s EXCEPT !.tch = "SENDING"])
      BY <1>3
      DEF Ok, Good, Layer, Fields, ChunksOK, Follows, SameBuffer, SameReset
    <2> QED  BY <1>3, <2>1 DEF tch_run
  <1>4. CASE s.tch = "SENDING"
    <2> DEFINE n == s.chunk_number_to_send + 1
               t == [s EXCEPT !.tch = "REQUEST", !.chunk_number_to_send = n]
    <2>1. ASSUME ~LastChunk(s) PROVE Ok(s, t)
      <3>1. n \in 0 .. CHUNKS - 1 /\ n <= s.send_offset /\ s.send_offset < CHUNKS
        BY <1>4, <2>1, PrlAssumption DEF LastChunk, Good, Layer, ChunksOK
      <3> HIDE DEF n
      <3> QED
        BY <3>1
        DEF Ok, Good, Layer, Fields, ChunksOK, Follows, SameBuffer, SameReset
    <2>2. Ok(s, tch_report_error(s))
      BY <1>4, TchReportErrorOk
    <2> HIDE DEF t
    <2>3. Ok(s, tch_sending_run(s))
      <3>1. CASE s.tx_error
        BY <3>1, <2>2 DEF tch_sending_run
      <3>2. CASE ~s.tx_error /\ LastChunk(s)
        BY <3>2, TchMessageSentOk DEF tch_sending_run
      <3>3. CASE ~s.tx_error /\ ~LastChunk(s) /\ s.tch_received
        BY <3>3, TchMessageReceivedOk DEF tch_sending_run
      <3>4. CASE ~s.tx_error /\ ~LastChunk(s) /\ ~s.tch_received
        BY <3>4, <2>1 DEF tch_sending_run, t
      <3> QED  BY <3>1, <3>2, <3>3, <3>4
    <2> QED  BY <1>4, <2>3 DEF tch_run
  <1>5. CASE s.tch = "REQUEST"
    <2> DEFINE r == [s EXCEPT !.tch_received = FALSE]
               used == [r EXCEPT !.accepted = @ \ {s.rx.n}]
    <2>1. Ok(s, r) /\ r.tch = s.tch
      BY DEF Ok, Good, Layer, Fields, ChunksOK, Follows, SameBuffer, SameReset
    <2> HIDE DEF r
    <2>2. Ok(r, used) /\ used.tch = s.tch
      BY <2>1
      DEF Ok, Good, Layer, Fields, ChunksOK, Follows, SameBuffer, SameReset
    <2> HIDE DEF used
    <2>3. Ok(s, used)
      BY <2>1, <2>2, FollowsTrans DEF Ok
    <2>4. Ok(s, tch_construct(used))
      <3>1. /\ used.send_offset < CHUNKS
            /\ used.chunk_number_to_send <= used.send_offset
        BY <1>5, <2>2, <2>3 DEF Ok, Good, ChunksOK
      <3> QED  BY <2>3, <3>1, TchConstructOk, FollowsTrans DEF Ok
    <2>5. Ok(s, tch_report_error(used))
      BY <1>5, <2>2, <2>3, TchReportErrorOk, FollowsTrans, FollowsResets DEF Ok
    <2>6. Ok(s, tch_message_received(r))
      BY <2>1, TchMessageReceivedOk, FollowsTrans DEF Ok
    <2>7. Ok(s, tch_wait_chunk_request_run(s))
      BY <1>0, <2>4, <2>5, <2>6, TchMessageSentOk
      DEF tch_wait_chunk_request_run, r, used
    <2> QED  BY <1>5, <2>7 DEF tch_run
  <1>6. CASE s.tch = "RECEIVED"
    BY <1>6, EnterTchWaitOk DEF tch_run
  <1> QED  BY <1>1, <1>2, <1>3, <1>4, <1>5, <1>6 DEF Good, Layer

\* prl_tx_run.
LEMMA TxRunOk ==
  ASSUME NEW s, Good(s)
  PROVE  Ok(s, prl_tx_run(s))
  <1>0. Ok(s, s)
    BY DEF Ok, Follows, SameBuffer, SameReset
  <1>1. CASE s.tx = "WAIT"
    <2> DEFINE t == [s EXCEPT !.sink_ng = @ /\ s.local_ams]
               a == SetTx(t, "START_AMS")
    <2>1. Ok(s, t)
      BY DEF Ok, Good, Layer, Fields, ChunksOK, Follows, SameBuffer, SameReset
    <2> HIDE DEF t
    <2>2. Ok(s, Transmit(t))
      BY <2>1, TransmitOk, FollowsTrans DEF Ok
    <2>3. Ok(t, a)
      BY <2>1, SetTxOk DEF Ok, TxStates
    <2> HIDE DEF a
    <2>4. Ok(a, [a EXCEPT !.sink_ng = TRUE])
      BY <2>3
      DEF Ok, Good, Layer, Fields, ChunksOK, Follows, SameBuffer, SameReset
    <2>5. Ok(s, [a EXCEPT !.sink_ng = TRUE])
      BY <2>1, <2>3, <2>4, FollowsTrans DEF Ok
    <2>6. Ok(s, prl_tx_wait_run(s))
      BY <2>1, <2>2, <2>5 DEF prl_tx_wait_run, t, a
    <2> QED  BY <1>1, <2>6 DEF prl_tx_run
  <1>2. CASE s.tx = "LAYER_RESET"
    BY <1>2, ConstructMessageOk DEF prl_tx_run
  <1>3. CASE s.tx = "WAIT_PHY"
    <2> DEFINE t == SetTx(increment_msgid_counter(s), "WAIT")
    <2>1. Ok(s, t)
      BY IncrementOk, SetTxOk, FollowsTrans DEF Ok, TxStates
    <2> HIDE DEF t
    <2>2. Ok(t, [t EXCEPT !.tx_complete = TRUE, !.unheard = 0])
      BY <2>1, PrlAssumption
      DEF Ok, Good, Layer, Fields, ChunksOK, Follows, SameBuffer, SameReset
    <2>3. Ok(t, [t EXCEPT !.tx_error = TRUE])
      BY <2>1
      DEF Ok, Good, Layer, Fields, ChunksOK, Follows, SameBuffer, SameReset
    <2>4. /\ Ok(s, [t EXCEPT !.tx_complete = TRUE, !.unheard = 0])
          /\ Ok(s, [t EXCEPT !.tx_error = TRUE])
      BY <2>1, <2>2, <2>3, FollowsTrans DEF Ok
    <2>5. Ok(s, prl_tx_wait_for_phy_response_run(s))
      BY <1>0, <2>4 DEF prl_tx_wait_for_phy_response_run, t
    <2> QED  BY <1>3, <2>5 DEF prl_tx_run
  <1>4. CASE s.tx = "START_AMS"
    BY <1>0, <1>4, SetTxOk DEF prl_tx_run, prl_tx_start_ams_run, TxStates
  <1>5. CASE s.tx = "PENDING"
    BY <1>0, <1>5, TransmitOk DEF prl_tx_run, prl_tx_pending_run
  <1> QED  BY <1>1, <1>2, <1>3, <1>4, <1>5 DEF Good, Layer, TxStates

\* prl_send_ctrl_msg, prl_send_data_msg and prl_send_ext_data_msg.
LEMMA SendOk ==
  ASSUME NEW s, Good(s), s.sends < SENDS + RECEIVES,
         NEW kind \in {"data", "ext", "soft"}
  PROVE  LET t == prl_send(s, kind) IN
         /\ Good(t) /\ t.sends = s.sends + 1 /\ t.owed.kind = kind
         /\ t.hr = s.hr /\ t.hr_flags = s.hr_flags /\ t.pe_reset = s.pe_reset
         /\ t.expired = s.expired /\ t.local_ams = s.local_ams
         /\ t.hard_requested = s.hard_requested /\ t.unhindered = s.unhindered
  <1> DEFINE m == [None EXCEPT !.kind = kind, !.n = s.sends + 1]
             n == s.sends + 1
             c == /\ kind # "ext" /\ s.hr = "WAIT"
                  /\ s.tch = "WAIT" /\ s.tx = "WAIT" /\ ~s.tx_xmit
                  /\ ~s.tx_complete /\ ~s.tx_error /\ s.phy = None
             t == [s EXCEPT !.out = m, !.owed = m, !.tch_xmit = TRUE, !.sends = n,
                            !.answers = <<>>, !.heard = FALSE, !.clean = c]
  <1>1. n \in 0 .. SENDS + RECEIVES
    BY PrlAssumption DEF Good, Layer
  <1>2. m \in Message /\ m.kind = kind
    BY <1>1, NoneTyped DEF Message
  <1>3. prl_send(s, kind) = t
    BY DEF prl_send
  <1> HIDE DEF m, n, c
  <1>4. Good(t) /\ t.sends = n /\ t.owed.kind = kind
    BY <1>1, <1>2 DEF Good, Layer, Fields, ChunksOK
  <1>5. /\ t.hr = s.hr /\ t.hr_flags = s.hr_flags /\ t.pe_reset = s.pe_reset
        /\ t.expired = s.expired /\ t.local_ams = s.local_ams
        /\ t.hard_requested = s.hard_requested /\ t.unhindered = s.unhindered
    BY DEF Good, Layer, Fields
  <1> QED  BY <1>3, <1>4, <1>5 DEF n

\* A state in which prl_hr still is has not begun a hard reset.
LEMMA SameHr ==
  ASSUME NEW s, NEW t, Ok(s, t), t.hr = s.hr
  PROVE  Good(t) /\ SameReset(s, t) /\ t.sends = s.sends
  BY DEF Ok, Follows, SameBuffer, Restarted

\* Discarding the message to send starts no hard reset.
LEMMA TxDiscardKeeps ==
  ASSUME NEW s, Good(s)
  PROVE  LET t == prl_tx_discard_message(s) IN
         Good(t) /\ SameReset(s, t) /\ t.sends = s.sends
  <1> DEFINE c == ClearXmit(s)
             i == increment_msgid_counter(c)
             a == IF i.owed = None THEN i ELSE Answer(i, "discard")
             d == pe_report_discard(i)
             t == IF s.tx_xmit THEN d ELSE s
             w == SetTx(t, "WAIT")
             p == prl_tx_phy_layer_reset(t)
  <1>1. Good(c) /\ c.hr = s.hr
    BY ClearXmitOk DEF Ok, Good, Layer, Fields, ClearXmit
  <1> HIDE DEF c
  <1>2. Good(i) /\ i.hr = s.hr
    <2>1. Ok(c, i)
      BY <1>1, IncrementOk
    <2>2. Agree(c, i, Fields \ {"id", "unheard"})
      BY <1>1, IncrementAgrees
    <2> HIDE DEF i
    <2> QED  BY <1>1, <2>1, <2>2 DEF Ok, Agree, Fields
  <1> HIDE DEF i
  <1>3. Good(a) /\ a.hr = s.hr
    <2>1. Good(a)
      BY <1>2, AnswerOk DEF Ok
    <2>2. a.hr = s.hr
      BY <1>2 DEF Good, Layer, Fields, Answer
    <2> QED  BY <2>1, <2>2
  <1>4. d = [a EXCEPT !.local_ams = FALSE]
    BY DEF pe_report_discard
  <1> HIDE DEF a
  <1>5. Good(d) /\ d.hr = s.hr
    <2>1. Good(d)
      BY <1>2, <1>3, <1>4, DiscardOk DEF Ok
    <2>2. d.hr = s.hr
      BY <1>2, <1>3, <1>4 DEF Good, Layer, Fields
    <2> QED  BY <2>1, <2>2
  <1>6. Good(t) /\ t.hr = s.hr
    BY <1>5
  <1> HIDE DEF t
  <1>7. Good(w) /\ w.hr = s.hr
    <2>1. Good(w)
      BY <1>6, SetTxOk DEF Ok, TxStates
    <2>2. w.hr = s.hr
      BY <1>6 DEF Good, Layer, Fields, SetTx
    <2> QED  BY <2>1, <2>2
  <1>8. p = [w EXCEPT !.rx_enabled = TRUE]
    BY DEF prl_tx_phy_layer_reset
  <1> HIDE DEF w
  <1>9. p.hr = s.hr
    BY <1>7, <1>8 DEF Good, Layer, Fields
  <1>10. prl_tx_discard_message(s) = p
    BY DEF prl_tx_discard_message, t, i, c
  <1> HIDE DEF p
  <1> QED  BY <1>9, <1>10, TxDiscardOk, SameHr

\* prl_rx_wait_for_phy_message_run for one message.
LEMMA ReceiveOk ==
  ASSUME NEW s, Good(s), s.sends < SENDS + RECEIVES,
         NEW msg \in Message, msg.num < CHUNKS
  PROVE  LET t == Receive(s, msg) IN
         /\ Good(t) /\ SameReset(s, t) /\ ~t.unhindered
         /\ t.sends \in {s.sends, s.sends + 1}
  <1> DEFINE t == [s EXCEPT !.rx = msg, !.unhindered = FALSE]
  <1>1. Good(t) /\ SameReset(s, t) /\ ~t.unhindered /\ t.sends = s.sends
    BY DEF Good, Layer, Fields, ChunksOK, SameReset
  <1> HIDE DEF t
  <1>2. /\ Good(SoftReset(t)) /\ SameReset(t, SoftReset(t))
        /\ SoftReset(t).sends = t.sends + 1
    <2> DEFINE x == [t EXCEPT !.id = 0, !.rx_id = -1, !.accepted = {},
                              !.era = NextEra(t), !.unheard = 0,
                              !.apart = @ \/ t.phy # None]
               w == ToWait(prl_tx_phy_layer_reset(x))
    <2>1. Good(x) /\ SameReset(t, x) /\ x.sends = t.sends
      BY <1>1, PrlAssumption DEF Ok, Good, Layer, Fields, ChunksOK, SameReset
    <2> HIDE DEF x
    <2>2. Ok(x, w) /\ Kept(x, w)
      BY <2>1, LeaveOk
    <2> HIDE DEF w
    <2>3. SameReset(x, w) /\ Good(w) /\ w.sends = x.sends
      BY <2>2 DEF Ok, Follows, SameBuffer, Kept, Restarted, SameReset
    <2>4. Good(prl_send(w, "data")) /\ SameReset(w, prl_send(w, "data"))
          /\ prl_send(w, "data").sends = w.sends + 1
      BY <1>1, <2>1, <2>3, SendOk DEF SameReset
    <2>5. SoftReset(t) = prl_send(w, "data")
      BY DEF SoftReset, x, w
    <2> HIDE DEF w
    <2> QED  BY <2>1, <2>3, <2>4, <2>5 DEF SameReset
  <1>3. /\ Good(Accept(t, msg)) /\ SameReset(t, Accept(t, msg))
        /\ Accept(t, msg).sends = t.sends
    <2> DEFINE discard == msg.kind # "ping" /\ (t.tx # "WAIT_PHY" \/ t.tx_xmit)
               d == IF discard THEN prl_tx_discard_message(t) ELSE t
               x == [d EXCEPT !.rx_id = msg.id, !.rx_era = t.era,
                              !.accepted = @ \cup {msg.n},
                              !.overwritten = @ \/ t.accepted # {}]
    <2>1. Good(d) /\ SameReset(t, d) /\ d.sends = t.sends
      BY <1>1, TxDiscardKeeps DEF Ok, SameReset
    <2> HIDE DEF discard, d
    <2>2. Good(x) /\ SameReset(d, x) /\ x.sends = d.sends
      <3>1. msg.id \in -1 .. PD_MESSAGE_ID_COUNT
        BY PrlAssumption DEF Message
      <3> QED
        BY <2>1, <3>1 DEF Good, Layer, Fields, ChunksOK, SameReset
    <2> HIDE DEF x
    <2>3. /\ Good([x EXCEPT !.tch_received = TRUE])
          /\ SameReset(x, [x EXCEPT !.tch_received = TRUE])
          /\ [x EXCEPT !.tch_received = TRUE].sends = x.sends
      BY <2>2 DEF Good, Layer, Fields, ChunksOK, SameReset
    <2>4. /\ Good([x EXCEPT !.rch_received = TRUE])
          /\ SameReset(x, [x EXCEPT !.rch_received = TRUE])
          /\ [x EXCEPT !.rch_received = TRUE].sends = x.sends
      BY <2>2 DEF Good, Layer, Fields, ChunksOK, SameReset
    <2>5. /\ Good(pe_message_received(x)) /\ SameReset(x, pe_message_received(x))
          /\ pe_message_received(x).sends = x.sends
      BY <2>2 DEF pe_message_received, Good, Layer, Fields, ChunksOK, SameReset
    <2>6. Accept(t, msg) \in {pe_message_received(x), [x EXCEPT !.tch_received = TRUE],
                              [x EXCEPT !.rch_received = TRUE]}
      BY DEF Accept, x, d, discard
    <2> HIDE DEF x
    <2>7. Good(x) /\ SameReset(t, x) /\ x.sends = t.sends
      BY <2>1, <2>2 DEF SameReset
    <2>8. ASSUME NEW y, Good(y), SameReset(x, y), y.sends = x.sends
          PROVE  Good(y) /\ SameReset(t, y) /\ y.sends = t.sends
      BY <2>7, <2>8 DEF SameReset
    <2> QED  BY <2>3, <2>4, <2>5, <2>6, <2>8
  <1>4. Receive(s, msg) \in {SoftReset(t), t, Accept(t, msg)}
    BY DEF Receive, t
  <1> QED  BY <1>1, <1>2, <1>3, <1>4 DEF Ok, SameReset

-----------------------------------------------------------------------------
\* No machine of the layer has anything to do for the partner.
Idle(s) ==
  /\ s.rch = "WAIT" /\ ~s.rch_received /\ ~s.tch_received
  /\ s.tx = "WAIT" /\ ~s.tx_complete /\ ~s.tx_error

\* ...nor for the policy engine.
Quiet(s) == Idle(s) /\ s.tch = "WAIT" /\ ~s.tch_xmit /\ ~s.tx_xmit

\* The policy engine has asked for the Hard_Reset, which waits in tch or prl_tx.
Asked(s) ==
  /\ Idle(s) /\ s.out.kind = "hard"
  /\ \/ s.tch = "WAIT" /\ s.tch_xmit /\ ~s.tx_xmit
     \/ s.tch = "TRANSMISSION" /\ s.tx_xmit

\* The path of an unhindered hard reset of the policy engine: the layer is quiet
\* when it begins, then the Hard_Reset waits to be sent and the timer of prl_hr
\* runs, until it has been requested of the port controller.
PathOK(s) ==
  s.unhindered =>
    /\ s.hr = "RESET_LAYER" => Quiet(s)
    /\ s.hr = "PHY" => s.hard_requested \/ (Asked(s) /\ "hr" \notin s.expired)
    /\ s.hr = "PE" /\ "PE" \in s.hr_flags => s.hard_requested

\* The flags, the timer and the policy engine belong to the states of prl_hr that
\* use them.
HardOK(s) ==
  /\ s.hr # "WAIT" => ~s.local_ams
  /\ s.pe_reset => s.hr = "PE"
  /\ "hr" \in s.expired => s.hr = "PHY"
  /\ "COMPLETE" \in s.hr_flags => s.hr = "PE" /\ ~s.pe_reset

\* What is true of the hard reset after every step.
HrOK(s) == ResetsOK(s) /\ HardOK(s) /\ PathOK(s)

\* What is true of it only between certain stages of a round: RESET_LAYER is left
\* in the round that enters it, and COMPLETE is consumed in the round that sets it.
StageOK ==
  /\ stage = "tc" => prl.hr # "RESET_LAYER"
  /\ stage \in {"tc", "pe"} => "COMPLETE" \notin prl.hr_flags
  /\ stage = "pe" /\ prl.hr = "RESET_LAYER" => Cleared(prl)

\* The values of the partner's record.
Partner ==
  [id : 0 .. PD_MESSAGE_ID_COUNT, seen : Int, sends : 0 .. RECEIVES, got : Nat,
   last : Message]

PartnerOK == partner \in Partner

\* Neither the queue nor the number of messages outgrows the bounds.
CountsOK ==
  /\ Len(queue) <= RX_QUEUE /\ Len(queue) <= partner.sends
  /\ prl.sends + Len(queue) <= SENDS + partner.sends

\* The queue holds messages of the partner.
QueueOK ==
  /\ queue \in Seq(Message) /\ PartnerOK /\ CountsOK /\ partner.last.num < CHUNKS
  /\ \A i \in 1 .. Len(queue) : queue[i].num < CHUNKS

\* The inductive invariant.
IInv == stage \in Stages /\ Good(prl) /\ HrOK(prl) /\ StageOK /\ QueueOK

\* What keeps the hard reset on its path.
OnPath(s, t) ==
  /\ Quiet(s) => Quiet(t)
  /\ Asked(s) => Asked(t) \/ t.hard_requested

\* An operator that keeps the path keeps the hard reset.
LEMMA RunKeeps ==
  ASSUME NEW s, HrOK(s), NEW t, Follows(s, t),
         s.hr \in {"RESET_LAYER", "PHY"} => OnPath(s, t)
  PROVE  HrOK(t)
  <1>1. ResetsOK(t)
    BY FollowsResets DEF HrOK
  <1>2. HardOK(t)
    BY DEF HrOK, HardOK, ResetsOK, Follows, SameBuffer, SameReset, Restarted
  <1>3. PathOK(t)
    BY DEF HrOK, PathOK, OnPath, Follows, SameBuffer, SameReset, Restarted
  <1> QED  BY <1>1, <1>2, <1>3 DEF HrOK

\* The three machines on the path: rch does nothing, tch hands the message to
\* prl_tx, prl_tx requests it.
LEMMA RchPath ==
  ASSUME NEW s, Idle(s)
  PROVE  rch_run(s) = s
  <1>1. rch_wait_run(s) = s
    BY DEF Idle, rch_wait_run
  <1> QED  BY <1>1 DEF Idle, rch_run

LEMMA TchPath ==
  ASSUME NEW s, Good(s)
  PROVE  OnPath(s, tch_run(s))
  <1>1. ASSUME Quiet(s) PROVE tch_run(s) = s
    BY <1>1 DEF Quiet, Idle, tch_run, tch_wait_run
  <1>2. ASSUME Asked(s), s.tch = "TRANSMISSION" PROVE tch_run(s) = s
    BY <1>2 DEF Asked, Idle, tch_run, tch_transmission_run
  <1>3. ASSUME Asked(s), s.tch = "WAIT" PROVE Asked(tch_run(s))
    <2> DEFINE t == [s EXCEPT !.tch_xmit = FALSE]
               x == [t EXCEPT !.tx_xmit = TRUE, !.tch = "TRANSMISSION"]
    <2>1. tch_run(s) = x
      BY <1>3 DEF Asked, Idle, tch_run, tch_wait_run
    <2>2. Asked(x)
      BY <1>3 DEF Asked, Idle, Good, Layer, Fields
    <2> QED  BY <2>1, <2>2
  <1> QED  BY <1>1, <1>2, <1>3 DEF OnPath, Asked

LEMMA TxPath ==
  ASSUME NEW s, Good(s), ~s.local_ams
  PROVE  OnPath(s, prl_tx_run(s))
  <1> DEFINE b == s.sink_ng /\ s.local_ams
             t == [s EXCEPT !.sink_ng = b]
  <1> HIDE DEF b
  <1>1. /\ t.local_ams = s.local_ams /\ t.tx_xmit = s.tx_xmit /\ t.out = s.out
        /\ t.tch = s.tch /\ t.tch_xmit = s.tch_xmit
        /\ Idle(s) => Idle(t)
    BY DEF Good, Layer, Fields, Idle
  <1>2. ASSUME s.tx = "WAIT"
        PROVE  prl_tx_run(s) = IF t.tx_xmit THEN Transmit(t) ELSE t
    BY <1>1, <1>2 DEF prl_tx_run, prl_tx_wait_run, b
  <1>3. ASSUME t.out.kind = "hard" PROVE Transmit(t).hard_requested
    <2> DEFINE c == ClearXmit(t)
               w == SetTx(c, "WAIT_PHY")
               m == [c.out EXCEPT !.id = c.id]
               h == w.hard_requested \/ c.out.kind = "hard"
               a == w.apart \/ c.unheard = PD_MESSAGE_ID_COUNT
               u == [w EXCEPT !.last_hard = c.out.kind = "hard", !.xmit_status = "UNSET",
                       !.tx_complete = FALSE, !.phy = m, !.hard_requested = h,
                       !.apart = a]
    <2>1. DOMAIN t = Fields /\ DOMAIN c = Fields /\ c.out = t.out
      BY DEF Good, Layer, Fields, ClearXmit
    <2>2. DOMAIN w = Fields
      BY <2>1 DEF SetTx
    <2>3. h
      BY <1>3, <2>1
    <2>4. Transmit(t) = u
      BY <1>3 DEF Transmit, prl_tx_construct_message
    <2> HIDE DEF c, w, m, h, a
    <2>5. u.hard_requested = h
      BY <2>2 DEF Fields
    <2> QED  BY <2>3, <2>4, <2>5
  <1> HIDE DEF t
  <1>4. Quiet(s) => Quiet(prl_tx_run(s))
    BY <1>1, <1>2 DEF Quiet, Idle
  <1>5. Asked(s) => Asked(prl_tx_run(s)) \/ prl_tx_run(s).hard_requested
    BY <1>1, <1>2, <1>3 DEF Asked, Idle
  <1> QED  BY <1>4, <1>5 DEF OnPath

-----------------------------------------------------------------------------
(* The steps                                                               *)

\* The initial state.
LEMMA InvInit == Init => IInv
  <1> SUFFICES ASSUME Init PROVE IInv
    OBVIOUS
  <1>1. Good(prl)
    BY InitGood DEF Init
  <1>2. HrOK(prl) /\ prl.sends = 0 /\ prl.hr = "WAIT" /\ prl.hr_flags = {}
    BY NoneTyped DEF Init, prl_init, HrOK, ResetsOK, HardOK, PathOK
  <1>3. stage \in Stages /\ StageOK
    BY <1>2 DEF Init, StageOK, Stages
  <1>4. QueueOK
    <2>1. PartnerOK /\ partner.sends = 0 /\ partner.last = None /\ queue = <<>>
      BY NoneTyped, PrlAssumption DEF Init, PartnerOK, Partner
    <2> QED  BY <1>2, <2>1, NoneTyped, PrlAssumption DEF QueueOK, CountsOK
  <1> QED  BY <1>1, <1>2, <1>3, <1>4 DEF IInv

\* The queue and the partner are left alone.
LEMMA QueueKept ==
  ASSUME QueueOK, queue' = queue, partner' = partner, prl'.sends = prl.sends
  PROVE  QueueOK'
  BY DEF QueueOK, PartnerOK, Partner, CountsOK

\* No message has a chunk number beyond the last.
LEMMA NoneChunk == None.num < CHUNKS
  BY PrlAssumption DEF None

\* A hard reset makes the partner start over.
LEMMA PartnerRestarts ==
  ASSUME PartnerOK
  PROVE  LET p == [partner EXCEPT !.id = 0, !.seen = -1, !.last = None] IN
         p \in Partner /\ p.sends = partner.sends /\ p.last = None
  <1>1. 0 \in 0 .. PD_MESSAGE_ID_COUNT /\ -1 \in Int /\ None \in Message
    BY NoneTyped, PrlAssumption
  <1> QED  BY <1>1 DEF PartnerOK, Partner

\* The counters are numbers.
LEMMA Counted ==
  ASSUME QueueOK
  PROVE  /\ Len(queue) \in Nat /\ partner.sends \in Nat /\ partner.sends <= RECEIVES
         /\ RECEIVES \in Nat /\ SENDS \in Nat
  BY PrlAssumption DEF QueueOK, PartnerOK, Partner

\* A hard reset begun by the policy engine or by the partner.
LEMMA ExecuteKeeps ==
  ASSUME NEW s, Good(s), HrOK(s), NEW who \in {"PE", "PARTNER"},
         "COMPLETE" \notin s.hr_flags, s.hr = "RESET_LAYER" => Cleared(s)
  PROVE  LET t == execute_hard_reset(s, who) IN
         /\ Good(t) /\ HrOK(t) /\ Cleared(t) /\ t.sends = s.sends
         /\ "COMPLETE" \notin t.hr_flags
  <1> DEFINE t == execute_hard_reset(s, who)
  <1>1. /\ Good(t) /\ t.sends = s.sends
        /\ t.hr = "RESET_LAYER" /\ t.hr_flags = s.hr_flags \cup {who}
        /\ ~t.pe_reset /\ ~t.local_ams /\ t.owed.kind # "soft"
        /\ s.hr # "RESET_LAYER" => "hr" \notin t.expired
        /\ s.hr = "RESET_LAYER" => t.expired = s.expired
        /\ s.hr # "RESET_LAYER" \/ Cleared(s) => Cleared(t)
        /\ t.unhindered => t.rch = "WAIT" /\ t.tch = "WAIT" /\ ~t.tx_xmit
    BY ExecuteOk
  <1> HIDE DEF t
  <1>2. Cleared(t) /\ "hr" \notin t.expired /\ "COMPLETE" \notin t.hr_flags
    BY <1>1 DEF HrOK, HardOK
  <1>3. t.unhindered => Quiet(t)
    BY <1>1, <1>2 DEF Quiet, Idle, Cleared
  <1>4. HrOK(t)
    BY <1>1, <1>2, <1>3 DEF HrOK, ResetsOK, HardOK, PathOK
  <1> QED  BY <1>1, <1>2, <1>4 DEF t

\* The task looks for a hard reset of the partner.
LEMMA CheckStep == ASSUME IInv, tc_event_check PROVE IInv'
  <1>0. prl' = prl \/ prl' = execute_hard_reset(prl, "PARTNER")
    BY DEF tc_event_check, Execute
  <1>1. ASSUME prl' = execute_hard_reset(prl, "PARTNER")
        PROVE  /\ Good(prl') /\ HrOK(prl') /\ Cleared(prl') /\ prl'.sends = prl.sends
               /\ "COMPLETE" \notin prl'.hr_flags
    <2>1. "COMPLETE" \notin prl.hr_flags /\ prl.hr # "RESET_LAYER"
      BY DEF IInv, StageOK, tc_event_check
    <2> QED  BY <1>1, <2>1, ExecuteKeeps DEF IInv
  <1>2. ASSUME prl' = prl
        PROVE  "COMPLETE" \notin prl.hr_flags /\ prl.hr # "RESET_LAYER"
    BY DEF IInv, StageOK, tc_event_check
  <1>3. /\ Good(prl)' /\ HrOK(prl)' /\ prl'.sends = prl.sends
        /\ "COMPLETE" \notin prl'.hr_flags
        /\ prl'.hr = "RESET_LAYER" => Cleared(prl)'
    BY <1>0, <1>1, <1>2 DEF IInv
  <1>4. stage' = "pe" /\ queue' = queue /\ partner' = partner
    BY DEF tc_event_check, Goto
  <1>5. QueueOK'
    BY <1>3, <1>4, QueueKept DEF IInv
  <1> QED  BY <1>3, <1>4, <1>5 DEF IInv, StageOK, Stages

\* After the stage "pe" nothing is required of the stages but at the end.
LEMMA LaterStage ==
  ASSUME IInv, stage' \in Stages \ {"tc", "pe"}, Good(prl)', HrOK(prl)', QueueOK'
  PROVE  IInv'
  BY DEF IInv, StageOK

\* The policy engine runs: it sends, resets, or reports that it has reset.
LEMMA PeStep == ASSUME IInv, PE PROVE IInv'
  <1>0. /\ Good(prl) /\ HrOK(prl) /\ QueueOK /\ stage = "pe"
        /\ "COMPLETE" \notin prl.hr_flags
        /\ prl.hr = "RESET_LAYER" => Cleared(prl)
        /\ stage' \in Stages \ {"tc", "pe"} /\ queue' = queue
    BY DEF IInv, StageOK, Stages, PE, PeSend, PeIdle, PeHardReset, PeStartup,
           PeSoftReset, prl_hard_reset_complete, Goto, env
  <1>1. ASSUME NEW kind \in PeKinds, NEW ams \in BOOLEAN, PeSend(kind, ams)
        PROVE  Good(prl)' /\ HrOK(prl)' /\ QueueOK'
    <2> DEFINE t == prl_send(prl, kind)
    <2>1. prl.sends < SENDS /\ prl.hr = "WAIT" /\ prl' = [t EXCEPT !.local_ams = ams]
          /\ partner' = partner
      BY <1>1 DEF PeSend, env
    <2>2. kind \in {"data", "ext", "soft"} /\ prl.sends < SENDS + RECEIVES
      BY <1>0, <2>1, PrlAssumption DEF Good, Layer
    <2>3. /\ Good(t) /\ t.sends = prl.sends + 1 /\ t.owed.kind = kind
          /\ t.hr = prl.hr /\ t.hr_flags = prl.hr_flags /\ t.pe_reset = prl.pe_reset
          /\ t.expired = prl.expired
      BY <1>0, <2>2, SendOk
    <2> HIDE DEF t
    <2>4. /\ Good(prl)' /\ prl'.sends = t.sends /\ prl'.owed = t.owed
          /\ prl'.hr = t.hr /\ prl'.hr_flags = t.hr_flags
          /\ prl'.pe_reset = t.pe_reset /\ prl'.expired = t.expired
      BY <2>1, <2>3 DEF Good, Layer, Fields, ChunksOK
    <2>5. HrOK(prl')
      BY <1>0, <2>1, <2>3, <2>4 DEF HrOK, ResetsOK, HardOK, PathOK
    <2>6. QueueOK'
      <3>1. prl.sends \in Int
        BY <1>0 DEF Good, Layer
      <3>2. CountsOK'
        BY <1>0, <2>1, <2>3, <2>4, <3>1, Counted DEF QueueOK, CountsOK
      <3> QED  BY <1>0, <2>1, <3>2 DEF QueueOK, PartnerOK, Partner
    <2> QED  BY <2>4, <2>5, <2>6
  <1>2. ASSUME NEW ams \in BOOLEAN, PeIdle(ams)
        PROVE  Good(prl)' /\ HrOK(prl)' /\ QueueOK'
    <2>1. (ams => prl.local_ams) /\ prl' = [prl EXCEPT !.local_ams = ams]
          /\ partner' = partner
      BY <1>2 DEF PeIdle, env
    <2>2. Ok(prl, prl') /\ prl'.sends = prl.sends
      BY <1>0, <2>1
      DEF Ok, Good, Layer, Fields, ChunksOK, Follows, SameBuffer, SameReset
    <2>3. OnPath(prl, prl')
      BY <1>0, <2>1 DEF OnPath, Quiet, Asked, Idle, Good, Layer, Fields
    <2>4. HrOK(prl')
      BY <1>0, <2>2, <2>3, RunKeeps DEF Ok
    <2> QED  BY <1>0, <2>1, <2>2, <2>4, QueueKept DEF Ok
  <1>3. ASSUME PeHardReset PROVE Good(prl)' /\ HrOK(prl)' /\ QueueOK'
    <2>1. prl' \in {prl, execute_hard_reset(prl, "PE")} /\ partner' = partner
      BY <1>3 DEF PeHardReset, Execute
    <2>2. Good(prl)' /\ HrOK(prl)' /\ prl'.sends = prl.sends
      BY <1>0, <2>1, ExecuteKeeps
    <2> QED  BY <1>0, <2>1, <2>2, QueueKept
  <1>4. ASSUME NEW startup \in BOOLEAN, prl_hard_reset_complete(startup)
        PROVE  Good(prl)' /\ HrOK(prl)' /\ QueueOK'
    <2>1. /\ prl.pe_reset /\ partner' = partner
          /\ prl' = [prl EXCEPT !.pe_reset = FALSE, !.hr_flags = @ \cup {"COMPLETE"}]
      BY <1>4 DEF prl_hard_reset_complete, env
    <2>2. prl.hr = "PE"
      BY <1>0, <2>1 DEF HrOK, HardOK
    <2>3. /\ Good(prl)' /\ prl'.sends = prl.sends /\ prl'.hr = prl.hr
          /\ prl'.hr_flags = prl.hr_flags \cup {"COMPLETE"} /\ ~prl'.pe_reset
          /\ prl'.owed = prl.owed /\ prl'.local_ams = prl.local_ams
          /\ prl'.expired = prl.expired /\ prl'.unhindered = prl.unhindered
          /\ prl'.hard_requested = prl.hard_requested
      BY <1>0, <2>1 DEF Good, Layer, Fields, ChunksOK
    <2>4. HrOK(prl')
      BY <1>0, <2>2, <2>3 DEF HrOK, ResetsOK, HardOK, PathOK
    <2> QED  BY <1>0, <2>1, <2>3, <2>4, QueueKept
  <1>5. ASSUME PeStartup \/ PeSoftReset PROVE Good(prl)' /\ HrOK(prl)' /\ QueueOK'
    <2>1. prl' = prl /\ partner' = partner
      BY <1>5 DEF PeStartup, PeSoftReset
    <2> QED  BY <1>0, <2>1, QueueKept
  <1> QED
    BY <1>0, <1>1, <1>2, <1>3, <1>4, <1>5, LaterStage DEF PE

\* What prl_init keeps.
LEMMA StartedIs ==
  ASSUME NEW s, Good(s), NEW anew
  PROVE  LET t == Started(s, anew) IN
         /\ DOMAIN t = Fields /\ t.sends = s.sends /\ t.phy = s.phy /\ t.rx = s.rx
         /\ t.passed = s.passed /\ t.overwritten = s.overwritten
         /\ t.era = NextEra(s) /\ t.rx_era = s.rx_era
         /\ ~t.clean /\ t.apart = (~anew /\ (s.apart \/ ~Unused(s)))
         /\ \A f \in Fields \ {"sends", "phy", "rx", "passed", "overwritten", "era",
                               "rx_era", "clean", "apart"} : t[f] = prl_init[f]
  <1> DEFINE p == prl_init
             b == ~anew /\ (s.apart \/ ~Unused(s))
             e == NextEra(s)
             t == [p EXCEPT !.sends = s.sends, !.phy = s.phy, !.rx = s.rx,
                            !.passed = s.passed, !.overwritten = s.overwritten,
                            !.era = e, !.rx_era = s.rx_era,
                            !.clean = FALSE, !.apart = b]
  <1>1. Started(s, anew) = t
    BY DEF Started
  <1>2. DOMAIN p = Fields
    BY InitGood DEF Good, Layer
  <1> HIDE DEF p, b, e
  <1>3. /\ DOMAIN t = Fields /\ t.sends = s.sends /\ t.phy = s.phy /\ t.rx = s.rx
        /\ t.passed = s.passed /\ t.overwritten = s.overwritten
        /\ t.era = e /\ t.rx_era = s.rx_era /\ ~t.clean /\ t.apart = b
    BY <1>2 DEF Fields
  <1>4. \A f \in Fields \ {"sends", "phy", "rx", "passed", "overwritten", "era",
                           "rx_era", "clean", "apart"} : t[f] = p[f]
    BY <1>2
  <1> QED  BY <1>1, <1>3, <1>4 DEF p, b, e

\* The layer runs again.
LEMMA StartStep ==
  ASSUME IInv, NEW anew \in BOOLEAN, prl_run_init(anew)
  PROVE  IInv'
  <1> DEFINE t == Started(prl, anew)
             p == prl_init
  <1>1. /\ prl' = t /\ stage = "rx" /\ stage' = stage /\ queue' = queue
        /\ partner' \in {partner, [partner EXCEPT !.id = 0, !.seen = -1, !.last = None]}
    BY DEF prl_run_init
  <1>2. Good(p) /\ p.hr = "WAIT" /\ p.hr_flags = {} /\ ~p.pe_reset /\ p.expired = {}
        /\ p.owed = None /\ p.tch = "WAIT"
    BY InitGood DEF prl_init
  <1>3. /\ DOMAIN t = Fields /\ t.sends = prl.sends /\ t.phy = prl.phy /\ t.rx = prl.rx
        /\ \A f \in Fields \ {"sends", "phy", "rx", "passed", "overwritten", "era",
                              "rx_era", "clean", "apart"} : t[f] = p[f]
    BY StartedIs DEF IInv
  <1> HIDE DEF t, p
  <1>4. /\ t.hr = "WAIT" /\ t.hr_flags = {} /\ ~t.pe_reset /\ t.expired = {}
        /\ t.owed = None /\ t.tch = "WAIT"
    BY <1>2, <1>3 DEF Fields
  <1>5. Good(t)
    <2>1. /\ t.tx = p.tx /\ t.xmit_status = p.xmit_status /\ t.rch = p.rch
          /\ t.id = p.id /\ t.rx_id = p.rx_id /\ t.unheard = p.unheard
          /\ t.chunk_number_expected = p.chunk_number_expected
          /\ t.chunk_number_to_send = p.chunk_number_to_send
          /\ t.send_offset = p.send_offset /\ t.out = p.out
          /\ t.tch = p.tch /\ t.hr = p.hr /\ t.hr_flags = p.hr_flags
          /\ t.expired = p.expired /\ t.owed = p.owed
      BY <1>3 DEF Fields
    <2>2. Layer(t)
      BY <1>2, <1>3, <2>1 DEF IInv, Good, Layer
    <2>3. ChunksOK(t)
      BY <1>3, <1>4 DEF IInv, Good, ChunksOK
    <2> QED  BY <2>2, <2>3 DEF Good
  <1>6. HrOK(t)
    BY <1>4, NoneTyped DEF HrOK, ResetsOK, HardOK, PathOK
  <1>7. QueueOK'
    <2>1. /\ PartnerOK' /\ partner'.sends = partner.sends
          /\ partner'.last \in {partner.last, None}
      BY <1>1, PartnerRestarts DEF IInv, QueueOK, PartnerOK, Partner
    <2> QED  BY <1>1, <1>3, <2>1, NoneChunk DEF IInv, QueueOK, CountsOK
  <1>8. stage' \in Stages \ {"tc", "pe"}
    BY <1>1 DEF Stages
  <1> QED  BY <1>1, <1>5, <1>6, <1>7, <1>8, LaterStage

\* A message is taken from the queue.
LEMMA RxStep == ASSUME IInv, prl_rx_wait_for_phy_message PROVE IInv'
  <1>0. /\ Good(prl) /\ HrOK(prl) /\ QueueOK /\ stage' \in Stages \ {"tc", "pe"}
        /\ partner' = partner
    BY DEF IInv, Stages, prl_rx_wait_for_phy_message, Goto
  <1>1. CASE Busy(prl) \/ queue = <<>>
    <2>1. prl' = prl /\ queue' = queue
      BY <1>1 DEF prl_rx_wait_for_phy_message
    <2>2. Good(prl)' /\ HrOK(prl)' /\ QueueOK'
      BY <1>0, <2>1, QueueKept
    <2> QED  BY <1>0, <2>2, LaterStage
  <1>2. CASE ~(Busy(prl) \/ queue = <<>>)
    <2> DEFINE msg == Head(queue)
    <2>1. prl' = Receive(prl, msg) /\ queue' = Tail(queue) /\ queue # <<>>
      BY <1>2 DEF prl_rx_wait_for_phy_message
    <2>2. /\ msg \in Message /\ msg.num < CHUNKS
          /\ Tail(queue) \in Seq(Message) /\ Len(Tail(queue)) = Len(queue) - 1
          /\ Len(queue) > 0
          /\ \A i \in 1 .. Len(Tail(queue)) : Tail(queue)[i] = queue[i + 1]
      BY <1>0, <2>1 DEF QueueOK
    <2>3. prl.sends \in Int /\ prl.sends < SENDS + RECEIVES
      BY <1>0, <2>2, Counted DEF QueueOK, CountsOK, Good, Layer
    <2> HIDE DEF msg
    <2>4. /\ Good(prl') /\ SameReset(prl, prl') /\ ~prl'.unhindered
          /\ prl'.sends \in {prl.sends, prl.sends + 1}
      BY <1>0, <2>1, <2>2, <2>3, ReceiveOk
    <2>5. HrOK(prl')
      BY <1>0, <2>4 DEF HrOK, ResetsOK, HardOK, PathOK, SameReset
    <2>6. CountsOK'
      <3>1. /\ Len(queue') = Len(queue) - 1 /\ Len(queue) \in Nat
            /\ partner'.sends = partner.sends
        BY <1>0, <2>1, <2>2, Counted
      <3>2. /\ partner.sends \in Nat /\ SENDS \in Nat /\ RX_QUEUE \in Nat
        BY <1>0, Counted, PrlAssumption
      <3>3. CountsOK
        BY <1>0 DEF QueueOK
      <3>4. /\ Len(queue') <= RX_QUEUE /\ Len(queue') <= partner.sends
            /\ prl'.sends + Len(queue') <= SENDS + partner.sends
        <4> DEFINE n == Len(queue)
                   m == Len(queue')
                   k == partner.sends
        <4>1. n <= RX_QUEUE /\ n <= k /\ prl.sends + n <= SENDS + k
          BY <3>3 DEF CountsOK
        <4>2. m = n - 1 /\ n \in Nat /\ k \in Nat
          BY <3>1, <3>2
        <4> HIDE DEF n, m, k
        <4>3. m <= RX_QUEUE /\ m <= k /\ prl'.sends + m <= SENDS + k
          BY <2>3, <2>4, <3>2, <4>1, <4>2
        <4> QED  BY <4>3 DEF m, k
      <3> QED  BY <3>1, <3>4 DEF CountsOK
    <2>7. \A i \in 1 .. Len(queue') : queue'[i].num < CHUNKS
      BY <1>0, <2>1, <2>2 DEF QueueOK
    <2>8. QueueOK'
      BY <1>0, <2>1, <2>2, <2>6, <2>7 DEF QueueOK, PartnerOK, Partner
    <2> QED  BY <1>0, <2>4, <2>5, <2>8, LaterStage
  <1> QED  BY <1>1, <1>2

\* rch, tch and prl_tx run.
LEMMA MachineStep ==
  ASSUME IInv, prl_run, stage # "hr"
  PROVE  IInv'
  <1>0. /\ Good(prl) /\ HrOK(prl) /\ QueueOK /\ stage' \in Stages \ {"tc", "pe"}
        /\ queue' = queue /\ partner' = partner /\ ResetsOK(prl)
    BY DEF IInv, HrOK, Stages, prl_run, Goto, env
  <1>1. \/ prl' = rch_run(prl) \/ prl' = tch_run(prl) \/ prl' = prl_tx_run(prl)
    BY DEF prl_run
  <1>2. Ok(prl, prl')
    BY <1>0, <1>1, RchRunOk, TchRunOk, TxRunOk
  <1>3. prl.hr \in {"RESET_LAYER", "PHY"} => OnPath(prl, prl')
    <2>1. prl.hr # "WAIT" => ~prl.local_ams
      BY <1>0 DEF HrOK, HardOK
    <2>2. OnPath(prl, rch_run(prl))
      BY RchPath DEF OnPath, Quiet, Asked
    <2> QED  BY <1>0, <1>1, <2>1, <2>2, TchPath, TxPath
  <1>4. HrOK(prl')
    BY <1>0, <1>2, <1>3, RunKeeps DEF Ok
  <1>5. QueueOK'
    BY <1>0, <1>2, QueueKept DEF Ok, Follows, SameBuffer
  <1> QED  BY <1>0, <1>2, <1>4, <1>5, LaterStage DEF Ok

\* prl_hr runs: each of its states, with the timer and with the flags.
LEMMA HrStep ==
  ASSUME IInv, prl_run, stage = "hr"
  PROVE  IInv'
  <1>0. /\ Good(prl) /\ HrOK(prl) /\ QueueOK /\ stage' = "tc"
        /\ queue' = queue /\ partner' = partner /\ prl' = prl_hr_run(prl)
    BY DEF IInv, prl_run, Goto, env
  <1>1. /\ Good(prl') /\ prl'.sends = prl.sends /\ HrOK(prl')
        /\ prl'.hr # "RESET_LAYER" /\ "COMPLETE" \notin prl'.hr_flags
    <2>1. CASE prl.hr = "WAIT"
      <3>1. prl.hr_flags = {}
        BY <1>0, <2>1 DEF HrOK, ResetsOK
      <3>2. prl.hr_flags \cap {"PE", "PARTNER"} = {}
        BY <3>1
      <3>3. prl' = prl
        BY <1>0, <2>1, <3>2 DEF prl_hr_run
      <3> QED  BY <1>0, <2>1, <3>1, <3>3
    <2>2. CASE prl.hr = "RESET_LAYER" /\ "PE" \in prl.hr_flags
      <3> DEFINE m == [None EXCEPT !.kind = "hard"]
      <3>1. prl' = [prl EXCEPT !.hr = "PHY", !.tch_xmit = TRUE, !.out = m]
        BY <1>0, <2>2 DEF prl_hr_run
      <3>2. m \in Message /\ m.kind = "hard"
        BY NoneTyped DEF Message
      <3> HIDE DEF m
      <3>3. /\ Good(prl') /\ prl'.sends = prl.sends /\ prl'.hr = "PHY"
            /\ prl'.hr_flags = prl.hr_flags /\ prl'.expired = prl.expired
            /\ prl'.pe_reset = prl.pe_reset /\ prl'.local_ams = prl.local_ams
            /\ prl'.owed = prl.owed /\ prl'.unhindered = prl.unhindered
        BY <1>0, <3>1 , <3>2 DEF Good, Layer, Fields, ChunksOK
      <3>4. Quiet(prl) => Asked(prl')
        BY <1>0, <3>1, <3>2 DEF Quiet, Asked, Idle, Good, Layer, Fields
      <3>5. /\ prl.unhindered => Quiet(prl)
            /\ "hr" \notin prl.expired /\ ~prl.pe_reset /\ ~prl.local_ams
            /\ "COMPLETE" \notin prl.hr_flags /\ prl.owed.kind # "soft"
        BY <1>0, <2>2 DEF HrOK, PathOK, HardOK, ResetsOK
      <3>6. HrOK(prl')
        BY <3>3, <3>4, <3>5 DEF HrOK, ResetsOK, HardOK, PathOK
      <3> QED  BY <3>3, <3>5, <3>6
    <2>3. CASE prl.hr = "RESET_LAYER" /\ "PE" \notin prl.hr_flags
      <3>1. prl' = [prl EXCEPT !.hr = "PE", !.pe_reset = TRUE]
        BY <1>0, <2>3 DEF prl_hr_run
      <3>2. /\ Good(prl') /\ prl'.sends = prl.sends /\ prl'.hr = "PE"
            /\ prl'.hr_flags = prl.hr_flags /\ prl'.expired = prl.expired
            /\ prl'.local_ams = prl.local_ams /\ prl'.owed = prl.owed
        BY <1>0, <3>1 DEF Good, Layer, Fields, ChunksOK
      <3>3. /\ "hr" \notin prl.expired /\ ~prl.local_ams
            /\ "COMPLETE" \notin prl.hr_flags /\ prl.owed.kind # "soft"
        BY <1>0, <2>3 DEF HrOK, HardOK, ResetsOK
      <3>4. HrOK(prl')
        BY <2>3, <3>2, <3>3 DEF HrOK, ResetsOK, HardOK, PathOK
      <3> QED  BY <3>2, <3>3, <3>4
    <2>4. CASE prl.hr = "PHY" /\ ~SignalledOrLate(prl)
      <3>1. prl' = prl
        BY <1>0, <2>4 DEF prl_hr_run
      <3> QED  BY <1>0, <2>4, <3>1 DEF HrOK, HardOK
    <2>5. CASE prl.hr = "PHY" /\ SignalledOrLate(prl)
      <3>1. prl' = [prl EXCEPT !.hr = "PE", !.pe_reset = TRUE,
                               !.expired = @ \ {"hr"}]
        BY <1>0, <2>5 DEF prl_hr_run
      <3>2. /\ Good(prl') /\ prl'.sends = prl.sends /\ prl'.hr = "PE"
            /\ prl'.hr_flags = prl.hr_flags /\ "hr" \notin prl'.expired
            /\ prl'.local_ams = prl.local_ams /\ prl'.owed = prl.owed
            /\ prl'.unhindered = prl.unhindered
            /\ prl'.hard_requested = prl.hard_requested
        BY <1>0, <3>1 DEF Good, Layer, Fields, ChunksOK
      <3>3. prl.unhindered => prl.hard_requested
        BY <1>0, <2>5 DEF HrOK, PathOK, Asked, Idle, SignalledOrLate
      <3>4. /\ ~prl.local_ams
            /\ "COMPLETE" \notin prl.hr_flags /\ prl.owed.kind # "soft"
        BY <1>0, <2>5 DEF HrOK, HardOK, ResetsOK
      <3>5. HrOK(prl')
        BY <3>2, <3>3, <3>4 DEF HrOK, ResetsOK, HardOK, PathOK
      <3> QED  BY <3>2, <3>4, <3>5
    <2>6. CASE prl.hr = "PE" /\ "COMPLETE" \notin prl.hr_flags
      <3>1. prl' = prl
        BY <1>0, <2>6 DEF prl_hr_run
      <3> QED  BY <1>0, <2>6, <3>1
    <2>7. CASE prl.hr = "PE" /\ "COMPLETE" \in prl.hr_flags
      <3> DEFINE w == ToWait(prl_tx_phy_layer_reset(prl))
                 a == w.apart \/ prl.tx = "WAIT_PHY"
      <3>1. prl' = [w EXCEPT !.hr = "WAIT", !.hr_flags = {}, !.apart = a]
        BY <1>0, <2>7 DEF prl_hr_run
      <3>2. Ok(prl, w) /\ Kept(prl, w)
        BY <1>0, LeaveOk
      <3> HIDE DEF w, a
      <3>3. /\ Good(prl') /\ prl'.sends = w.sends /\ prl'.hr = "WAIT"
            /\ prl'.hr_flags = {} /\ prl'.pe_reset = w.pe_reset
            /\ prl'.expired = w.expired
        BY <3>1, <3>2 DEF Ok, Good, Layer, Fields, ChunksOK
      <3>4. w.sends = prl.sends /\ ~w.pe_reset /\ "hr" \notin w.expired
        BY <1>0, <2>7, <3>2
        DEF HrOK, HardOK, Ok, Follows, SameBuffer, SameReset, Restarted
      <3>5. HrOK(prl')
        BY <3>3, <3>4 DEF HrOK, ResetsOK, HardOK, PathOK
      <3> QED  BY <3>3, <3>4, <3>5
    <2> QED
      BY <1>0, <2>1, <2>2, <2>3, <2>4, <2>5, <2>6, <2>7 DEF Good, Layer
  <1>2. QueueOK'
    BY <1>0, <1>1, QueueKept
  <1> QED  BY <1>0, <1>1, <1>2 DEF IInv, StageOK, Stages

-----------------------------------------------------------------------------
(* Timers, the PHY and the partner                                         *)

\* What no step of the environment touches.
Undisturbed(s, t) ==
  /\ t.hr = s.hr /\ t.hr_flags = s.hr_flags /\ t.pe_reset = s.pe_reset
  /\ t.local_ams = s.local_ams /\ t.owed = s.owed /\ t.unhindered = s.unhindered
  /\ t.hard_requested = s.hard_requested /\ t.sends = s.sends
  /\ t.rch = s.rch /\ t.rch_received = s.rch_received
  /\ t.tch = s.tch /\ t.tch_received = s.tch_received /\ t.tch_xmit = s.tch_xmit
  /\ t.tx = s.tx /\ t.tx_xmit = s.tx_xmit /\ t.out = s.out
  /\ t.tx_complete = s.tx_complete /\ t.tx_error = s.tx_error

\* A step of the environment keeps the invariant when it lets the timer of prl_hr
\* run out only after the Hard_Reset has been requested.
LEMMA EnvKeeps ==
  ASSUME IInv, stage' = stage, Good(prl'), Undisturbed(prl, prl'), QueueOK',
         "hr" \in prl'.expired =>
           "hr" \in prl.expired \/ (prl.hr = "PHY" /\ ~Asked(prl))
  PROVE  IInv'
  <1>1. /\ Asked(prl) => Asked(prl')
        /\ Quiet(prl) => Quiet(prl')
        /\ Cleared(prl) => Cleared(prl')
    BY DEF Undisturbed, Asked, Quiet, Idle, Cleared
  <1>2. HrOK(prl')
    BY <1>1 DEF IInv, HrOK, ResetsOK, HardOK, PathOK, Undisturbed
  <1>3. StageOK'
    BY <1>1 DEF IInv, StageOK, Undisturbed
  <1> QED  BY <1>2, <1>3 DEF IInv

\* A message of ours reaches the partner.
LEMMA DeliveredOk ==
  ASSUME PartnerOK, NEW msg \in Message
  PROVE  /\ Delivered(msg) \in Partner /\ Delivered(msg).sends = partner.sends
         /\ Delivered(msg).last = None
  <1>1. /\ 0 \in 0 .. PD_MESSAGE_ID_COUNT /\ -1 \in Int
        /\ msg.id \in Int /\ msg.n \in Nat
    BY PrlAssumption DEF Message
  <1> DEFINE g == IF msg.n > 0 THEN msg.n ELSE partner.got
  <1>2. g \in Nat
    BY <1>1 DEF PartnerOK, Partner
  <1> HIDE DEF g
  <1> DEFINE p == [partner EXCEPT !.last = None]
  <1>3. p \in Partner /\ p.sends = partner.sends /\ p.last = None
    BY NoneTyped DEF PartnerOK, Partner
  <1>4. Delivered(msg) \in {[p EXCEPT !.id = 0, !.seen = -1],
                            [p EXCEPT !.id = 0, !.seen = msg.id, !.got = msg.n],
                            [p EXCEPT !.seen = msg.id, !.got = g], p}
    <2>1. p.got = partner.got
      BY DEF PartnerOK, Partner
    <2> HIDE DEF p
    <2> QED  BY <2>1 DEF Delivered, g, p
  <1> HIDE DEF p
  <1>5. LET q == [p EXCEPT !.id = 0, !.seen = -1] IN
        q \in Partner /\ q.sends = partner.sends /\ q.last = None
    BY <1>1, <1>3 DEF Partner
  <1>6. LET q == [p EXCEPT !.id = 0, !.seen = msg.id, !.got = msg.n] IN
        q \in Partner /\ q.sends = partner.sends /\ q.last = None
    BY <1>1, <1>3 DEF Partner
  <1>7. LET q == [p EXCEPT !.seen = msg.id, !.got = g] IN
        q \in Partner /\ q.sends = partner.sends /\ q.last = None
    BY <1>1, <1>2, <1>3 DEF Partner
  <1> QED  BY <1>3, <1>4, <1>5, <1>6, <1>7

\* A message of ours may reach the partner.
LEMMA QueueAfterDelivery ==
  ASSUME QueueOK, NEW msg \in Message, queue' = queue, prl'.sends = prl.sends,
         partner' = partner \/ partner' = Delivered(msg)
  PROVE  QueueOK'
  <1>1. /\ PartnerOK' /\ partner'.sends = partner.sends
        /\ partner'.last \in {partner.last, None}
    BY DeliveredOk DEF QueueOK, PartnerOK, Partner
  <1> QED  BY <1>1, NoneChunk DEF QueueOK, CountsOK

\* A timer runs out.
LEMMA ExpireStep ==
  ASSUME IInv, NEW timer \in Timers, Expire(timer)
  PROVE  IInv'
  <1> DEFINE p == IF timer = "tx" THEN None ELSE prl.phy
             a == prl.apart \/ (timer = "tx" /\ CrossesReset)
  <1>1. /\ prl' = [prl EXCEPT !.expired = @ \cup {timer}, !.phy = p, !.apart = a]
        /\ stage' = stage /\ queue' = queue
        /\ partner' = partner \/ partner' = Delivered(prl.phy)
    BY DEF Expire
  <1>2. p \in Message
    BY NoneTyped DEF IInv, Good, Layer
  <1> HIDE DEF p, a
  <1>3. Good(prl')
    BY <1>1, <1>2 DEF IInv, Good, Layer, Fields, ChunksOK
  <1>4. Undisturbed(prl, prl') /\ prl'.expired = prl.expired \cup {timer}
    BY <1>1 DEF IInv, Good, Layer, Fields, Undisturbed
  <1>5. timer = "hr" => prl.hr = "PHY" /\ ~Asked(prl)
    BY DEF Expire, Running, Asked, Idle
  <1>6. QueueOK'
    BY <1>1, <1>4, QueueAfterDelivery DEF IInv, Good, Layer, Undisturbed
  <1> QED  BY <1>1, <1>3, <1>4, <1>5, <1>6, EnvKeeps

\* The port controller reports the result of a transmission.
LEMMA CompleteStep ==
  ASSUME IInv, NEW status \in {"SUCCESS", "FAILED"}, pd_transmit_complete(status)
  PROVE  IInv'
  <1> DEFINE a == OutOfStep(status)
  <1>1. /\ prl' = [prl EXCEPT !.phy = None, !.xmit_status = status, !.apart = a]
        /\ stage' = stage /\ queue' = queue
        /\ partner' = partner \/ partner' = Delivered(prl.phy)
    BY DEF pd_transmit_complete
  <1> HIDE DEF a
  <1>2. Good(prl')
    BY <1>1, NoneTyped DEF IInv, Good, Layer, Fields, ChunksOK
  <1>3. Undisturbed(prl, prl') /\ prl'.expired = prl.expired
    BY <1>1 DEF IInv, Good, Layer, Fields, Undisturbed
  <1>4. QueueOK'
    BY <1>1, <1>3, QueueAfterDelivery DEF IInv, Good, Layer, Undisturbed
  <1> QED  BY <1>1, <1>2, <1>3, <1>4, EnvKeeps

\* A message of the partner arrives, is acknowledged or is lost.
LEMMA ArriveOk ==
  ASSUME IInv, NEW msg \in Message, msg.num < CHUNKS, Arrive(msg),
         Len(queue) < RX_QUEUE, PartnerOK', partner'.sends = partner.sends + 1,
         partner'.last = msg
  PROVE  /\ Good(prl') /\ Undisturbed(prl, prl') /\ prl'.expired = prl.expired
         /\ QueueOK'
  <1>1. \/ prl' = prl
        \/ prl' = [prl EXCEPT !.phy = None, !.xmit_status = "FAILED"]
    BY DEF Arrive
  <1> DEFINE failed == [prl EXCEPT !.phy = None, !.xmit_status = "FAILED"]
  <1>2. Good(prl')
    <2>1. Good(failed)
      BY NoneTyped DEF IInv, Good, Layer, Fields, ChunksOK
    <2> QED  BY <1>1, <2>1 DEF IInv
  <1>3. Undisturbed(prl, prl') /\ prl'.expired = prl.expired
    <2>1. Undisturbed(prl, failed) /\ failed.expired = prl.expired
      BY DEF IInv, Good, Layer, Fields, Undisturbed
    <2> QED  BY <1>1, <2>1 DEF Undisturbed
  <1>4. /\ Append(queue, msg) \in Seq(Message)
        /\ Len(Append(queue, msg)) = Len(queue) + 1
        /\ \A i \in 1 .. Len(queue) + 1 :
             Append(queue, msg)[i] = IF i <= Len(queue) THEN queue[i] ELSE msg
    BY DEF IInv, QueueOK
  <1>5. queue' \in {queue, Append(queue, msg)}
    BY DEF Arrive
  <1>6. queue' \in Seq(Message) /\ Len(queue') \in {Len(queue), Len(queue) + 1}
    BY <1>4, <1>5 DEF IInv, QueueOK
  <1>7. \A i \in 1 .. Len(queue') : queue'[i].num < CHUNKS
    <2>1. CASE queue' = queue
      BY <2>1 DEF IInv, QueueOK
    <2>2. CASE queue' = Append(queue, msg)
      BY <1>4, <2>2 DEF IInv, QueueOK
    <2> QED  BY <1>5, <2>1, <2>2
  <1>8. CountsOK'
    <2>1. /\ Len(queue) \in Nat /\ partner.sends \in Nat /\ SENDS \in Nat
          /\ RX_QUEUE \in Nat /\ prl.sends \in Int
      BY Counted, PrlAssumption DEF IInv, Good, Layer
    <2>2. prl'.sends = prl.sends
      BY <1>3 DEF Undisturbed
    <2>3. CountsOK
      BY DEF IInv, QueueOK
    <2> DEFINE n == Len(queue)
               m == Len(queue')
               k == partner.sends
               l == partner'.sends
    <2>4. n < RX_QUEUE /\ l = k + 1 /\ m \in {n, n + 1}
      BY <1>6
    <2>5. n <= RX_QUEUE /\ n <= k /\ prl.sends + n <= SENDS + k
      BY <2>3 DEF CountsOK
    <2>6. n \in Nat /\ k \in Nat
      BY <2>1
    <2> HIDE DEF n, m, k, l
    <2>7. m <= RX_QUEUE /\ m <= l /\ prl'.sends + m <= SENDS + l
      BY <2>1, <2>2, <2>4, <2>5, <2>6
    <2> QED  BY <2>7 DEF CountsOK, m, l
  <1>9. QueueOK'
    BY <1>6, <1>7, <1>8 DEF QueueOK
  <1> QED  BY <1>2, <1>3, <1>9

LEMMA SendStep ==
  ASSUME IInv, NEW kind \in PartnerKinds, NEW num \in 0 .. CHUNKS - 1,
         PartnerSend(kind, num)
  PROVE  IInv'
  <1> DEFINE id == IF kind = "soft" THEN 0 ELSE partner.id
             n == partner.sends + 1
             msg == [kind |-> kind, n |-> n, num |-> num, id |-> id]
             i == (id + 1) % (PD_MESSAGE_ID_COUNT + 1)
             seen == IF kind = "soft" THEN -1 ELSE partner.seen
  <1>1. /\ partner.sends < RECEIVES /\ Len(queue) < RX_QUEUE /\ stage' = stage
        /\ Arrive(msg)
        /\ partner' = [partner EXCEPT !.id = i, !.sends = n, !.seen = seen,
                                      !.last = msg]
    BY DEF PartnerSend
  <1>2. partner.sends \in Nat /\ RECEIVES \in Nat /\ SENDS \in Nat /\ PartnerOK
    BY Counted DEF IInv, QueueOK
  <1>3. id \in 0 .. PD_MESSAGE_ID_COUNT /\ i \in 0 .. PD_MESSAGE_ID_COUNT
        /\ seen \in Int
    BY <1>2, PrlAssumption DEF PartnerOK, Partner
  <1>4. n \in 0 .. RECEIVES /\ n \in 0 .. SENDS + RECEIVES
    BY <1>1, <1>2
  <1>5. num \in 0 .. CHUNKS /\ num < CHUNKS
    BY PrlAssumption
  <1>6. msg \in Message /\ msg.num = num
    BY <1>3, <1>4, <1>5, PrlAssumption DEF Message
  <1> HIDE DEF id, i, seen, msg
  <1>7. PartnerOK' /\ partner'.sends = n /\ partner'.last = msg
    BY <1>1, <1>2, <1>3, <1>4, <1>6 DEF PartnerOK, Partner
  <1>8. Good(prl') /\ Undisturbed(prl, prl') /\ prl'.expired = prl.expired /\ QueueOK'
    BY <1>1, <1>5, <1>6, <1>7, ArriveOk
  <1> QED  BY <1>1, <1>8, EnvKeeps

LEMMA RetryStep == ASSUME IInv, PartnerRetry PROVE IInv'
  <1> DEFINE msg == partner.last
             n == partner.sends + 1
  <1>1. /\ partner.sends < RECEIVES /\ Len(queue) < RX_QUEUE /\ stage' = stage
        /\ Arrive(msg)
        /\ partner' = [partner EXCEPT !.sends = n]
    BY DEF PartnerRetry
  <1>2. partner.sends \in Nat /\ RECEIVES \in Nat /\ PartnerOK
    BY Counted DEF IInv, QueueOK
  <1>3. n \in 0 .. RECEIVES
    BY <1>1, <1>2
  <1>4. msg \in Message
    BY <1>2 DEF PartnerOK, Partner
  <1>5. msg.num < CHUNKS
    BY DEF IInv, QueueOK
  <1>6. PartnerOK' /\ partner'.sends = n /\ partner'.last = msg
    BY <1>1, <1>2, <1>3 DEF PartnerOK, Partner
  <1>7. Good(prl') /\ Undisturbed(prl, prl') /\ prl'.expired = prl.expired /\ QueueOK'
    BY <1>1, <1>4, <1>5, <1>6, ArriveOk
  <1> QED  BY <1>1, <1>7, EnvKeeps

\* The partner sends a hard reset.
LEMMA PartnerResetStep == ASSUME IInv, PartnerHardReset PROVE IInv'
  <1>1. /\ prl' = [prl EXCEPT !.phy = None] /\ stage' = stage /\ queue' = queue
        /\ partner' = [partner EXCEPT !.id = 0, !.seen = -1, !.last = None]
    BY DEF PartnerHardReset
  <1>2. Good(prl')
    BY <1>1, NoneTyped DEF IInv, Good, Layer, Fields, ChunksOK
  <1>3. Undisturbed(prl, prl') /\ prl'.expired = prl.expired
    BY <1>1 DEF IInv, Good, Layer, Fields, Undisturbed
  <1>4. PartnerOK' /\ partner'.sends = partner.sends /\ partner'.last = None
    BY <1>1, PartnerRestarts DEF IInv, QueueOK, PartnerOK, Partner
  <1>5. QueueOK'
    BY <1>1, <1>3, <1>4, NoneChunk DEF IInv, QueueOK, CountsOK, Undisturbed
  <1> QED  BY <1>1, <1>2, <1>3, <1>5, EnvKeeps

\* Every step keeps the invariant.
LEMMA InvStep == IInv /\ [Next]_vars => IInv'
  <1> SUFFICES ASSUME IInv, [Next]_vars PROVE IInv'
    OBVIOUS
  <1>1. CASE UNCHANGED vars
    BY <1>1 DEF vars, IInv, StageOK, QueueOK, PartnerOK, Partner, CountsOK
  <1>2. CASE pd_task
    BY <1>2, CheckStep, PeStep, StartStep, RxStep, MachineStep, HrStep DEF pd_task
  <1> QED
    BY <1>1, <1>2, ExpireStep, CompleteStep, SendStep, RetryStep,
      PartnerResetStep
    DEF Next

\* The invariant above holds in every state: between any two stages of a round of
\* the task, whatever the timers, the port controller and the partner do, the three
\* machines, the hard reset and the queue agree with one another.
THEOREM PrlInvariance == Spec => []IInv
  BY InvInit, InvStep, PTL DEF Spec

\* The rest of the types.
LocalOK == local_state \in {"RUN", "INIT"} /\ pe_soft \in BOOLEAN

\* ...which every step keeps.
LEMMA LocalStep == LocalOK /\ [Next]_vars => LocalOK'
  <1> SUFFICES ASSUME LocalOK, [Next]_vars PROVE LocalOK'
    OBVIOUS
  <1>1. \A who : Execute(who) => pe_soft' \in BOOLEAN
    BY DEF Execute, LocalOK
  <1>2. \A error \in BOOLEAN : PeErrs(error) => LocalOK'
    BY DEF PeErrs, prl_reset_soft, LocalOK
  <1>3. RchErrs(prl) \in BOOLEAN /\ TchErrs(prl) \in BOOLEAN
    BY DEF RchErrs, TchErrs
  <1>4. CASE UNCHANGED vars
    BY <1>4 DEF vars, LocalOK
  <1>5. CASE tc_event_check
    BY <1>1, <1>5 DEF tc_event_check, LocalOK
  <1>6. CASE PE
    BY <1>1, <1>6
    DEF PE, PeSend, PeIdle, PeHardReset, PeStartup, PeSoftReset,
        prl_hard_reset_complete, prl_reset, prl_reset_soft, env, LocalOK
  <1>7. CASE prl_rx_wait_for_phy_message \/ \E anew \in BOOLEAN : prl_run_init(anew)
    BY <1>7 DEF prl_rx_wait_for_phy_message, prl_run_init, LocalOK
  <1>8. CASE prl_run
    BY <1>2, <1>3, <1>8 DEF prl_run, LocalOK
  <1>9. CASE \/ \E timer \in Timers : Expire(timer)
             \/ \E status \in {"SUCCESS", "FAILED"} : pd_transmit_complete(status)
             \/ \E kind \in PartnerKinds, num \in 0 .. CHUNKS - 1 :
                  PartnerSend(kind, num)
             \/ PartnerRetry \/ PartnerHardReset
    BY <1>9 DEF Expire, pd_transmit_complete, PartnerSend, PartnerRetry,
                PartnerHardReset, LocalOK
  <1> QED  BY <1>4, <1>5, <1>6, <1>7, <1>8, <1>9 DEF Next, pd_task

\* Every variable keeps its type.  The part that is not immediate is that
\* tch_construct_chunked_message_run never counts past the last chunk: chunk
\* numbers and the offset of the data sent stay within the extended message,
\* although the partner chooses the chunks it asks for.
THEOREM PrlTypeCorrect == Spec => []TypeOK
  <1>1. Init => LocalOK
    BY DEF Init, LocalOK
  <1>2. IInv /\ LocalOK => TypeOK
    BY DEF IInv, LocalOK, TypeOK, Good, Layer, TxStates, QueueOK, CountsOK
  <1> QED  BY <1>1, <1>2, LocalStep, PrlInvariance, PTL DEF Spec

\* No hard reset of the policy engine is finished unsent: when prl_hr waits for the
\* policy engine to complete it and nothing hindered it on the way, the Hard_Reset
\* has been requested of the port controller, although prl_hr hands it to tch and
\* tch to prl_tx, which run in later stages and have timers of their own.
THEOREM HardResetAsked == Spec => []HardResetRequested
  <1>1. IInv => HardResetRequested
    BY DEF IInv, HardResetRequested, HrOK, PathOK
  <1> QED  BY <1>1, PrlInvariance, PTL

-----------------------------------------------------------------------------
(***************************************************************************)
(* The order of reception.  Most operators pass nothing up and at most     *)
(* give up what is held (Less); that keeps the order whatever else they    *)
(* do, and it composes.  Only rch, tch and the reception need an argument  *)
(* of their own.                                                           *)
(***************************************************************************)

\* The message in rx_chk_buf waits to be handled, in tch or in rch.
Held(s) == s.tch_received \/ s.rch_received \/ s.rch = "PROCESSING"

\* A message of our own waits to be sent.
Pending(s) == s.tx_xmit \/ s.tx = "PENDING"

\* The stored id was forgotten since the message in rx_chk_buf was received.
Fresh(s) == s.rx_era < s.era

\* What was passed up is in order, and nothing of it is newer than the message
\* in rx_chk_buf.
Sorted(s) ==
  /\ s.passed \in Seq([n : Int, era : Int])
  /\ s.era \in Int /\ s.rx_era \in Int /\ s.rx_era <= s.era
  /\ s.rx_id = -1 => Fresh(s)
  /\ \A i, j \in 1 .. Len(s.passed) : i < j => Before(s.passed[i], s.passed[j])
  /\ \A i \in 1 .. Len(s.passed) :
       s.passed[i].n <= s.rx.n /\ s.passed[i].era <= s.rx_era

\* The message in rx_chk_buf has not been passed up since it was received.
Awaited(s) ==
  \A i \in 1 .. Len(s.passed) :
    s.passed[i].n < s.rx.n \/ s.passed[i].era < s.rx_era

\* The message in rx_chk_buf waits in one place only, and not while one of our
\* own is pending: prl_rx_wait_for_phy_message() would have discarded that one.
Apart(s) ==
  /\ s.tch_received => ~s.rch_received /\ s.rch # "PROCESSING"
  /\ s.rch_received => s.rch # "PROCESSING"
  /\ Pending(s) => ~s.rch_received /\ ~s.tch_received

\* What keeps the order.  A message that is held is in the history variable too,
\* so that writing over it is noticed.
Ord(s) ==
  /\ Sorted(s)
  /\ Held(s) => Awaited(s) /\ s.accepted # {}
  /\ Apart(s)

-----------------------------------------------------------------------------
\* The history of the reception.
SameHistory(s, t) ==
  /\ t.passed = s.passed /\ t.rx_id = s.rx_id
  /\ t.era = s.era /\ t.rx_era = s.rx_era

\* The same, but for the stored id, which is forgotten.
Forgets(s, t) ==
  /\ t.passed = s.passed /\ t.rx_id = -1
  /\ t.era = NextEra(s) /\ t.rx_era = s.rx_era

\* Neither passed nor dropped anything.
Same(s, t) == SameHistory(s, t) /\ t.accepted = s.accepted

\* Forgot the stored id, and dropped what waited, as a reset does.
Renewed(s, t) ==
  /\ Forgets(s, t) /\ ~t.rch_received /\ ~t.tch_received
  /\ t.rch = "PROCESSING" => t.accepted = s.accepted

\* An operator that passes nothing up and brings nothing into a state where it
\* waits to be passed up.
Less(s, t) ==
  /\ t.rx = s.rx /\ t.overwritten = s.overwritten
  /\ Pending(t) => Pending(s)
  /\ t.rch = "PROCESSING" => s.rch = "PROCESSING"
  /\ t.rch_received => s.rch_received /\ (t.rch = "WAIT" => s.rch = "WAIT")
  /\ t.tch_received => s.tch_received /\ (t.tch = "WAIT" => s.tch = "WAIT")
  /\ Same(s, t) \/ Renewed(s, t)

\* Operators compose.
LEMMA LessTrans ==
  ASSUME NEW s, NEW t, NEW u, Less(s, t), Less(t, u)
  PROVE  Less(s, u)
  BY DEF Less, Same, Renewed, SameHistory, Forgets, NextEra

\* Forgetting the id once more changes nothing.
LEMMA LessEra ==
  ASSUME NEW s, NEW t, Less(s, t)
  PROVE  NextEra(t) = NextEra(s)
  BY DEF Less, Same, Renewed, SameHistory, Forgets, NextEra

\* The order is about the history and rx only.
LEMMA SamePassed ==
  ASSUME NEW s, NEW t, SameHistory(s, t), t.rx = s.rx
  PROVE  (Sorted(s) => Sorted(t)) /\ (Awaited(s) => Awaited(t))
  BY DEF SameHistory, Sorted, Awaited, Fresh

\* A reset keeps it.
LEMMA ForgetsSorted ==
  ASSUME NEW s, NEW t, Forgets(s, t), t.rx = s.rx
  PROVE  (Sorted(s) => Sorted(t)) /\ (Awaited(s) => Awaited(t))
  <1>1. ASSUME Sorted(s)
        PROVE  /\ t.era \in Int /\ t.rx_era \in Int /\ t.rx_era <= t.era /\ Fresh(t)
    BY <1>1 DEF Forgets, NextEra, Sorted, Fresh
  <1>2. Sorted(s) => Sorted(t)
    BY <1>1 DEF Forgets, Sorted
  <1>3. Awaited(s) => Awaited(t)
    BY DEF Forgets, Awaited
  <1> QED  BY <1>2, <1>3

LEMMA LessSorted ==
  ASSUME NEW s, NEW t, Less(s, t)
  PROVE  (Sorted(s) => Sorted(t)) /\ (Awaited(s) => Awaited(t))
  BY SamePassed, ForgetsSorted DEF Less, Same, Renewed

\* Such an operator keeps the order.
LEMMA LessOrd ==
  ASSUME NEW s, NEW t, Ord(s), Less(s, t)
  PROVE  Ord(t)
  <1>1. Sorted(t) /\ (Awaited(s) => Awaited(t))
    BY LessSorted DEF Ord
  <1>2. Held(t) => Held(s) /\ t.accepted = s.accepted
    BY DEF Less, Held, Same, Renewed
  <1>3. Held(t) => Awaited(t) /\ t.accepted # {}
    BY <1>1, <1>2 DEF Ord
  <1>4. Apart(t)
    BY DEF Ord, Apart, Less
  <1> QED  BY <1>1, <1>3, <1>4 DEF Ord

\* prl_tx: state changes, answers to the policy engine, discarding, the layer
\* reset.
LEMMA SetTxLess ==
  ASSUME NEW s, Good(s), NEW state, state = "PENDING" => s.tx_xmit
  PROVE  LET t == SetTx(s, state) IN Less(s, t) /\ t.tx = state /\ t.tch = s.tch
  BY DEF Good, Layer, Fields, Less, Same, SameHistory, Pending, SetTx

LEMMA AnswerLess ==
  ASSUME NEW s, Good(s), NEW a
  PROVE  Less(s, Answer(s, a))
  BY DEF Good, Layer, Fields, Less, Same, SameHistory, Pending, Answer

LEMMA PhyLayerResetLess ==
  ASSUME NEW s, Good(s)
  PROVE  Less(s, prl_tx_phy_layer_reset(s)) /\ prl_tx_phy_layer_reset(s).tx = "WAIT"
  <1> DEFINE t == SetTx(s, "WAIT")
  <1>1. Less(s, t) /\ Good(t) /\ t.tx = "WAIT"
    BY SetTxLess, SetTxOk DEF TxStates, Ok
  <1> HIDE DEF t
  <1>2. LET u == [t EXCEPT !.rx_enabled = TRUE] IN Less(t, u) /\ u.tx = "WAIT"
    BY <1>1 DEF Good, Layer, Fields, Less, Same, SameHistory, Pending
  <1> QED BY <1>1, <1>2, LessTrans DEF prl_tx_phy_layer_reset, t

LEMMA DiscardLess ==
  ASSUME NEW s, Good(s)
  PROVE  Less(s, pe_report_discard(s))
  <1> DEFINE t == IF s.owed = None THEN s ELSE Answer(s, "discard")
  <1>1. Less(s, t) /\ Good(t)
    BY AnswerLess, AnswerOk DEF Less, Same, SameHistory, Ok
  <1> HIDE DEF t
  <1>2. Less(t, [t EXCEPT !.local_ams = FALSE])
    BY <1>1 DEF Good, Layer, Fields, Less, Same, SameHistory, Pending
  <1> QED BY <1>1, <1>2, LessTrans DEF pe_report_discard, t

LEMMA ClearXmitLess ==
  ASSUME NEW s, Good(s)
  PROVE  Less(s, ClearXmit(s)) /\ ~ClearXmit(s).tx_xmit
  BY DEF Good, Layer, Fields, Less, Same, SameHistory, Pending, ClearXmit

LEMMA IncrementLess ==
  ASSUME NEW s, Good(s)
  PROVE  /\ Less(s, increment_msgid_counter(s))
         /\ increment_msgid_counter(s).tx_xmit = s.tx_xmit
  BY IncrementAgrees DEF Agree, Fields, Less, Same, SameHistory, Pending

LEMMA TxDiscardLess ==
  ASSUME NEW s, Good(s)
  PROVE  LET t == prl_tx_discard_message(s) IN Less(s, t) /\ ~Pending(t)
  <1> DEFINE c == ClearXmit(s)
             i == increment_msgid_counter(c)
             d == pe_report_discard(i)
             t == IF s.tx_xmit THEN d ELSE s
  <1>1. Good(c) /\ Less(s, c) /\ ~c.tx_xmit
    BY ClearXmitOk, ClearXmitLess DEF Ok
  <1> HIDE DEF c
  <1>2. Good(i) /\ Less(s, i) /\ ~i.tx_xmit
    BY <1>1, IncrementOk, IncrementLess, LessTrans DEF Ok
  <1> HIDE DEF i
  <1>3. Good(d) /\ Less(s, d)
    BY <1>2, DiscardOk, DiscardLess, LessTrans DEF Ok
  <1>4. ~d.tx_xmit
    <2> DEFINE a == IF i.owed = None THEN i ELSE Answer(i, "discard")
    <2>1. DOMAIN a = Fields /\ ~a.tx_xmit
      BY <1>2 DEF Answer, Good, Layer, Fields
    <2> HIDE DEF a
    <2>2. d = [a EXCEPT !.local_ams = FALSE]
      BY DEF pe_report_discard, a
    <2> QED  BY <2>1, <2>2 DEF Fields
  <1> HIDE DEF d
  <1>5. Good(t) /\ Less(s, t) /\ ~t.tx_xmit
    BY <1>3, <1>4 DEF Less, Same, SameHistory
  <1> HIDE DEF t
  <1>6. LET p == prl_tx_phy_layer_reset(t) IN
        Less(s, p) /\ p.tx = "WAIT" /\ p.tx_xmit = t.tx_xmit
    BY <1>5, PhyLayerResetLess, LessTrans
    DEF prl_tx_phy_layer_reset, SetTx, Good, Layer, Fields
  <1>7. prl_tx_discard_message(s) = prl_tx_phy_layer_reset(t)
    BY DEF prl_tx_discard_message, t, d, i, c
  <1> QED  BY <1>5, <1>6, <1>7 DEF Pending

\* prl_tx_construct_message and what sends it.
LEMMA ConstructMessageLess ==
  ASSUME NEW s, Good(s)
  PROVE  LET t == prl_tx_construct_message(s) IN Less(s, t) /\ t.tch = s.tch
  <1> DEFINE t == SetTx(s, "WAIT_PHY")
             m == [s.out EXCEPT !.id = s.id]
             h == t.hard_requested \/ s.out.kind = "hard"
             l == s.out.kind = "hard"
             a == t.apart \/ s.unheard = PD_MESSAGE_ID_COUNT
             u == [t EXCEPT !.last_hard = l, !.xmit_status = "UNSET",
                       !.tx_complete = FALSE, !.phy = m, !.hard_requested = h,
                       !.apart = a]
  <1>1. Less(s, t) /\ Good(t) /\ t.tch = s.tch
    BY SetTxLess, SetTxOk DEF TxStates, Ok
  <1>2. prl_tx_construct_message(s) = u
    BY DEF prl_tx_construct_message
  <1> HIDE DEF t, m, h, l, a
  <1>3. Less(t, u) /\ u.tch = t.tch
    BY <1>1 DEF Good, Layer, Fields, Less, Same, SameHistory, Pending
  <1> QED BY <1>1, <1>2, <1>3, LessTrans

LEMMA TransmitLess ==
  ASSUME NEW s, Good(s), ~s.rch_received, ~s.tch_received
  PROVE  Less(s, Transmit(s)) /\ Transmit(s).tch = s.tch
  <1> DEFINE c == ClearXmit(s)
             w == SetTx(c, "LAYER_RESET")
             e == NextEra(s)
             u == [w EXCEPT !.id = 0, !.rx_id = -1, !.era = e,
                            !.unheard = 0, !.apart = TRUE]
  <1>1. Less(s, c) /\ Good(c) /\ c.tch = s.tch
    <2>1. c.tch = s.tch
      BY DEF ClearXmit, Good, Layer, Fields
    <2> QED  BY <2>1, ClearXmitLess, ClearXmitOk DEF Ok
  <1>2. Transmit(s) = IF s.out.kind = "soft" THEN u
                      ELSE prl_tx_construct_message(c)
    BY DEF Transmit
  <1> HIDE DEF c
  <1>3. Less(s, w) /\ Good(w) /\ w.tch = s.tch
    BY <1>1, SetTxLess, SetTxOk, LessTrans DEF TxStates, Ok
  <1> HIDE DEF w
  <1>4. ~w.rch_received /\ ~w.tch_received
    BY <1>3 DEF Less
  <1>5. e = NextEra(w)
    BY <1>3, LessEra
  <1> HIDE DEF e
  <1>6. Less(w, u) /\ u.tch = w.tch
    BY <1>3, <1>4, <1>5 DEF Good, Layer, Fields, Less, Renewed, Forgets, Pending
  <1>7. /\ Less(c, prl_tx_construct_message(c))
        /\ prl_tx_construct_message(c).tch = c.tch
    BY <1>1, ConstructMessageLess
  <1> QED BY <1>1, <1>2, <1>3, <1>6, <1>7, LessTrans

\* The entries of the chunking machines.
LEMMA EnterRchWaitLess ==
  ASSUME NEW s, Good(s)
  PROVE  Less(s, EnterRchWait(s))
  BY DEF Good, Layer, Fields, Less, Same, SameHistory, Pending, EnterRchWait

LEMMA EnterTchWaitLess ==
  ASSUME NEW s, Good(s)
  PROVE  Less(s, EnterTchWait(s)) /\ ~EnterTchWait(s).tch_received
  BY DEF Good, Layer, Fields, Less, Same, SameHistory, Pending, EnterTchWait

LEMMA ToWaitLess ==
  ASSUME NEW s, Good(s)
  PROVE  Less(s, ToWait(s))
  <1> DEFINE r == IF s.rch = "WAIT" THEN s ELSE EnterRchWait(s)
  <1>1. Less(s, r) /\ Good(r)
    BY EnterRchWaitLess, EnterRchWaitOk DEF Ok, Less, Same, SameHistory
  <1> HIDE DEF r
  <1>2. Less(r, IF s.tch = "WAIT" THEN r ELSE EnterTchWait(r))
    BY <1>1, EnterTchWaitLess DEF Less, Same, SameHistory
  <1> QED BY <1>1, <1>2, LessTrans DEF ToWait, r

\* A hard reset drops what waits in rch and tch.  (What rch is PROCESSING stays,
\* prl_hr_reset_layer_entry does not touch its state.)
LEMMA ResetLayerLess ==
  ASSUME NEW s, Good(s)
  PROVE  Less(s, prl_hr_reset_layer(s))
  <1> DEFINE left == IF s.hr = "PE" THEN ToWait(prl_tx_phy_layer_reset(s)) ELSE s
             acc == IF s.rch = "PROCESSING" THEN left.accepted ELSE {}
             e == NextEra(s)
             u == [left EXCEPT
                     !.hr = "RESET_LAYER",
                     !.tch_received = FALSE, !.tch_xmit = FALSE,
                     !.tch_chunking = FALSE,
                     !.rch_received = FALSE, !.rch_chunking = FALSE,
                     !.tx_complete = FALSE, !.tx_error = FALSE,
                     !.id = 0, !.rx_id = -1, !.rx_enabled = FALSE,
                     !.accepted = acc, !.era = e, !.unheard = 0,
                     !.expired = @ \ {"hr"}]
  <1>1. Less(s, left) /\ Good(left)
    <2>1. Less(s, s)
      BY DEF Less, Same, SameHistory
    <2>2. Less(s, ToWait(prl_tx_phy_layer_reset(s)))
      BY PhyLayerResetLess, PhyLayerResetOk, ToWaitLess, LessTrans DEF Ok
    <2>3. Good(left)
      BY LeaveOk DEF Ok
    <2> QED  BY <2>1, <2>2, <2>3
  <1>2. prl_hr_reset_layer(s) = IF s.hr = "RESET_LAYER" THEN s ELSE ResetTx(u)
    BY DEF prl_hr_reset_layer
  <1> HIDE DEF left
  <1>3. left.rch = "PROCESSING" => acc = left.accepted
    BY <1>1 DEF Less
  <1>4. e = NextEra(left)
    BY <1>1, LessEra
  <1> HIDE DEF acc, e
  <1>5. Less(left, u)
    BY <1>1, <1>3, <1>4 DEF Good, Layer, Fields, Less, Renewed, Forgets, Pending
  <1>6. Good(u)
    BY <1>1, ResetFieldsGood
  <1> HIDE DEF u
  <1>7. Less(u, ResetTx(u))
    BY <1>6, SetTxLess DEF ResetTx
  <1>8. Less(s, s)
    BY DEF Less, Same, SameHistory
  <1> QED  BY <1>1, <1>2, <1>5, <1>7, <1>8, LessTrans

LEMMA ExecuteLess ==
  ASSUME NEW s, Good(s), NEW who \in {"PE", "PARTNER"}
  PROVE  Less(s, execute_hard_reset(s, who))
  <1> DEFINE f == s.hr_flags \cup {who}
             q == s.rch = "WAIT" /\ s.tch = "WAIT" /\ ~s.tx_xmit
             p == who = "PE"
             t == [s EXCEPT !.hr_flags = f, !.owed = None,
                     !.pe_reset = FALSE, !.local_ams = FALSE,
                     !.hard_requested = FALSE, !.clean = FALSE,
                     !.unhindered = q, !.apart = p]
  <1>1. execute_hard_reset(s, who) = prl_hr_reset_layer(t)
    BY DEF execute_hard_reset
  <1>2. f \subseteq {"PE", "PARTNER", "COMPLETE"}
    BY DEF Good, Layer
  <1> HIDE DEF f, q, p
  <1>3. Good(t)
    BY <1>2, NoneTyped DEF Good, Layer, Fields, ChunksOK
  <1>4. Less(s, t)
    BY DEF Good, Layer, Fields, Less, Same, SameHistory, Pending
  <1> HIDE DEF t
  <1> QED  BY <1>1, <1>3, <1>4, ResetLayerLess, LessTrans

LEMMA PeReportErrorLess ==
  ASSUME NEW s, Good(s)
  PROVE  Less(s, pe_report_error(s))
  <1>1. Good(Answer(s, "error")) /\ Less(s, Answer(s, "error"))
    BY AnswerOk, AnswerLess DEF Ok
  <1> QED  BY <1>1, ExecuteLess, LessTrans DEF pe_report_error

-----------------------------------------------------------------------------
(* rch                                                                     *)

\* What rch_run does to the message: the stored id stays, or is forgotten; and
\* WAIT is left or has nothing to do.
Handled(s, t) ==
  /\ t.rx = s.rx /\ t.overwritten = s.overwritten
  /\ t.rx_id \in {s.rx_id, -1}
  /\ t.rch = "WAIT" => ~t.rch_received

\* A message passed up has a number and an era.
LEMMA PassedTyped ==
  ASSUME NEW q \in Seq([n : Int, era : Int]), NEW i \in 1 .. Len(q)
  PROVE  q[i] \in [n : Int, era : Int] /\ q[i].n \in Int /\ q[i].era \in Int
  <1> DEFINE R == [n : Int, era : Int]
  <1>1. q \in Seq(R) /\ i \in 1 .. Len(q)
    OBVIOUS
  <1>2. \A r \in R : r.n \in Int /\ r.era \in Int
    OBVIOUS
  <1> HIDE DEF R
  <1>3. q[i] \in R
    BY <1>1
  <1>4. q[i].n \in Int /\ q[i].era \in Int
    BY <1>2, <1>3
  <1> QED  BY <1>3, <1>4 DEF R

\* pe_message_received: the new message comes after those passed before.
LEMMA PassUpPassed ==
  ASSUME NEW s, Good(s), Sorted(s), Awaited(s)
  PROVE  Sorted(pe_message_received(s))
  <1> DEFINE a == s.accepted \ {s.rx.n}
             m == [n |-> s.rx.n, era |-> s.rx_era]
             t == [s EXCEPT !.passed = Append(@, m), !.accepted = a,
                            !.heard = TRUE]
  <1>1. t = pe_message_received(s)
    BY DEF pe_message_received
  <1>2. /\ m \in [n : Int, era : Int] /\ m.n = s.rx.n /\ m.era = s.rx_era
        /\ s.rx.n \in Int /\ s.rx_era \in Int /\ s.passed \in Seq([n : Int, era : Int])
    BY PrlAssumption DEF Good, Layer, Message, Sorted
  <1> HIDE DEF a, m
  <1>3. /\ t.passed = Append(s.passed, m) /\ t.rx = s.rx /\ t.rx_id = s.rx_id
        /\ t.era = s.era /\ t.rx_era = s.rx_era
    BY DEF Good, Layer, Fields
  <1> HIDE DEF t
  <1>4. /\ t.passed \in Seq([n : Int, era : Int])
        /\ Len(t.passed) = Len(s.passed) + 1 /\ Len(s.passed) \in Nat
        /\ \A i \in 1 .. Len(s.passed) : t.passed[i] = s.passed[i]
        /\ t.passed[Len(s.passed) + 1] = m
    BY <1>2, <1>3
  <1>5. \A i \in 1 .. Len(s.passed) :
          /\ Before(s.passed[i], m)
          /\ s.passed[i].n <= s.rx.n /\ s.passed[i].era <= s.rx_era
    <2> SUFFICES ASSUME NEW i \in 1 .. Len(s.passed)
                 PROVE  Before(s.passed[i], m)
                        /\ s.passed[i].n <= s.rx.n /\ s.passed[i].era <= s.rx_era
      OBVIOUS
    <2> DEFINE n == s.passed[i].n
               e == s.passed[i].era
    <2>1. n \in Int /\ e \in Int
      BY <1>2, PassedTyped
    <2>2. n <= s.rx.n /\ e <= s.rx_era
      BY DEF Sorted
    <2>3. n < s.rx.n \/ e < s.rx_era
      BY DEF Awaited
    <2> HIDE DEF n, e
    <2>4. n < m.n \/ (n = m.n /\ e < m.era)
      BY <1>2, <2>1, <2>2, <2>3
    <2> QED  BY <2>2, <2>4 DEF Before, n, e
  <1>6. ASSUME NEW i \in 1 .. Len(t.passed), NEW j \in 1 .. Len(t.passed), i < j
        PROVE  Before(t.passed[i], t.passed[j])
    <2>1. i \in 1 .. Len(s.passed)
      BY <1>4, <1>6
    <2>2. CASE j = Len(s.passed) + 1
      BY <1>4, <1>5, <2>1, <2>2
    <2>3. CASE j \in 1 .. Len(s.passed)
      BY <1>4, <1>6, <2>1, <2>3 DEF Sorted
    <2> QED  BY <1>4, <2>2, <2>3
  <1>7. ASSUME NEW i \in 1 .. Len(t.passed)
        PROVE  t.passed[i].n <= t.rx.n /\ t.passed[i].era <= t.rx_era
    <2>1. CASE i = Len(s.passed) + 1
      BY <1>2, <1>3, <1>4, <2>1
    <2>2. CASE i \in 1 .. Len(s.passed)
      BY <1>3, <1>4, <1>5, <2>2
    <2> QED  BY <1>4, <2>1, <2>2
  <1>8. /\ t.era \in Int /\ t.rx_era \in Int /\ t.rx_era <= t.era
        /\ t.rx_id = -1 => Fresh(t)
    BY <1>3 DEF Sorted, Fresh
  <1> QED  BY <1>1, <1>4, <1>6, <1>7, <1>8 DEF Sorted

LEMMA PassUpKeeps ==
  ASSUME NEW s, Good(s)
  PROVE  LET t == pe_message_received(s) IN
         /\ t.rx = s.rx /\ t.rx_id = s.rx_id /\ t.overwritten = s.overwritten
         /\ t.rch = s.rch /\ t.rch_received = s.rch_received
         /\ t.tch = s.tch /\ t.tch_received = s.tch_received
         /\ t.tx = s.tx /\ t.tx_xmit = s.tx_xmit
  BY DEF Good, Layer, Fields, pe_message_received

\* rch_pass_up_message.
LEMMA PassUpOrd ==
  ASSUME NEW s, Good(s), Sorted(s), Awaited(s), ~s.tch_received
  PROVE  LET t == rch_pass_up_message(s) IN Ord(t) /\ Handled(s, t)
  <1> DEFINE p == pe_message_received(s)
             t == EnterRchWait(p)
  <1>1. Good(p) /\ Sorted(p) /\ ~p.tch_received
    BY PassUpPassed, PassUpKeeps, ReceivedOk DEF Ok
  <1>2. p.rx = s.rx /\ p.rx_id = s.rx_id /\ p.overwritten = s.overwritten
    BY PassUpKeeps
  <1> HIDE DEF p
  <1>3. /\ t.rx = p.rx /\ t.rx_id = p.rx_id /\ t.overwritten = p.overwritten
        /\ SameHistory(p, t) /\ ~t.rch_received /\ t.rch = "WAIT"
        /\ t.tch_received = p.tch_received
    BY <1>1 DEF Good, Layer, Fields, EnterRchWait, SameHistory
  <1> HIDE DEF t
  <1>4. Ord(t)
    BY <1>1, <1>3, SamePassed DEF Ord, Held, Apart
  <1>5. rch_pass_up_message(s) = t
    BY DEF rch_pass_up_message, t, p
  <1> QED  BY <1>2, <1>3, <1>4, <1>5 DEF Handled

\* rch_report_error passes up a message that came instead of a chunk.
LEMMA RchErrorOrd ==
  ASSUME NEW s, Good(s), Ord(s)
  PROVE  LET t == rch_report_error(s) IN Ord(t) /\ Handled(s, t)
  <1> DEFINE r == [s EXCEPT !.rch_received = FALSE]
             n == [s EXCEPT !.accepted = @ \ {s.rx.n}]
             told == IF s.rch_received THEN pe_message_received(r)
                     ELSE IF s.tch_received THEN s ELSE n
             e == [told EXCEPT !.rch = "ERROR", !.heard = TRUE,
                               !.expired = @ \ {"rch"}]
  <1>1. /\ Good(r) /\ r.rx = s.rx /\ r.rx_id = s.rx_id
        /\ r.overwritten = s.overwritten /\ SameHistory(s, r)
        /\ ~r.rch_received /\ r.tch_received = s.tch_received
        /\ r.tx = s.tx /\ r.tx_xmit = s.tx_xmit
    BY DEF Good, Layer, Fields, ChunksOK, SameHistory
  <1>2. /\ Good(n) /\ n.rx = s.rx /\ n.rx_id = s.rx_id
        /\ n.overwritten = s.overwritten /\ SameHistory(s, n)
        /\ n.rch_received = s.rch_received /\ n.tch_received = s.tch_received
        /\ n.tx = s.tx /\ n.tx_xmit = s.tx_xmit
    BY DEF Good, Layer, Fields, ChunksOK, SameHistory
  <1> HIDE DEF r, n
  <1>3. s.rch_received => Awaited(s) /\ ~s.tch_received
    BY DEF Ord, Held, Apart
  <1>4. s.rch_received => Sorted(pe_message_received(r))
    BY <1>1, <1>3, PassUpPassed, SamePassed DEF Ord
  <1>5. Good(pe_message_received(r))
    BY <1>1, ReceivedOk DEF Ok
  <1>6. /\ Good(told) /\ told.rx = s.rx /\ told.rx_id = s.rx_id
        /\ told.overwritten = s.overwritten /\ Sorted(told)
        /\ ~told.rch_received /\ told.tch_received = s.tch_received
        /\ told.tx = s.tx /\ told.tx_xmit = s.tx_xmit
        /\ told.tch_received =>
             told.accepted = s.accepted /\ SameHistory(s, told)
    <2>1. CASE s.rch_received
      BY <1>1, <1>3, <1>4, <1>5, <2>1, PassUpKeeps
    <2>2. CASE ~s.rch_received /\ s.tch_received
      BY <2>2 DEF Ord, SameHistory
    <2>3. CASE ~s.rch_received /\ ~s.tch_received
      BY <1>2, <2>3, SamePassed DEF Ord
    <2> QED  BY <2>1, <2>2, <2>3
  <1> HIDE DEF told
  <1>7. /\ Good(e) /\ e.rx = s.rx /\ e.rx_id = s.rx_id
        /\ e.overwritten = s.overwritten /\ SameHistory(told, e)
        /\ e.rch = "ERROR" /\ ~e.rch_received /\ e.tch_received = s.tch_received
        /\ e.tx = s.tx /\ e.tx_xmit = s.tx_xmit /\ e.accepted = told.accepted
    BY <1>6 DEF Good, Layer, Fields, ChunksOK, SameHistory
  <1> HIDE DEF e
  <1>8. Ord(e)
    <2>1. Sorted(e)
      BY <1>6, <1>7, SamePassed
    <2>2. Held(e) => Awaited(e) /\ e.accepted # {}
      <3>1. e.tch_received => SameHistory(s, e)
        BY <1>6, <1>7 DEF SameHistory
      <3> QED  BY <1>6, <1>7, <3>1, SamePassed DEF Ord, Held
    <2>3. Apart(e)
      BY <1>7 DEF Ord, Apart, Pending
    <2> QED  BY <2>1, <2>2, <2>3 DEF Ord
  <1>9. Less(e, execute_hard_reset(e, "PE"))
    BY <1>7, ExecuteLess
  <1>10. rch_report_error(s) \in {e, execute_hard_reset(e, "PE")}
    BY DEF rch_report_error, e, told, r, n
  <1> QED
    BY <1>7, <1>8, <1>9, <1>10, LessOrd
    DEF Handled, Less, Same, Renewed, SameHistory, Forgets

\* rch_run.
LEMMA RchRunOrd ==
  ASSUME NEW s, Good(s), Ord(s)
  PROVE  LET t == rch_run(s) IN Ord(t) /\ Handled(s, t)
  <1>1. CASE s.rch = "WAIT"
    <2> DEFINE r == [s EXCEPT !.rch_received = FALSE]
               x == [r EXCEPT !.rch = "PROCESSING", !.chunk_number_expected = 0]
    <2>1. Good(r) /\ Less(s, r) /\ SameHistory(s, r) /\ ~r.rch_received
          /\ r.tch_received = s.tch_received /\ r.rch = "WAIT"
          /\ r.rx_id = s.rx_id /\ r.accepted = s.accepted
      BY <1>1 DEF Good, Layer, Fields, ChunksOK, Less, Same, SameHistory, Pending
    <2>2. Ord(r)
      BY <2>1, LessOrd
    <2>3. rch_run(s) = CASE ~s.rch_received -> s
            [] s.rch_received /\ s.rx.kind \notin {"ext", "request"} ->
                 rch_pass_up_message(r)
            [] s.rch_received /\ s.rx.kind \in {"ext", "request"}
                 /\ s.rch_chunking -> x
            [] OTHER -> rch_report_error(r)
      BY <1>1 DEF rch_run, rch_wait_run
    <2> HIDE DEF r
    <2>4. ASSUME ~s.rch_received PROVE Ord(s) /\ Handled(s, s)
      BY <2>4 DEF Handled
    <2>5. ASSUME s.rch_received
          PROVE  /\ Ord(rch_pass_up_message(r))
                 /\ Handled(s, rch_pass_up_message(r))
      <3>1. Sorted(r) /\ Awaited(r) /\ ~r.tch_received
        BY <2>1, <2>5, SamePassed DEF Ord, Held, Apart, Less
      <3>2. Ord(rch_pass_up_message(r)) /\ Handled(r, rch_pass_up_message(r))
        BY <2>1, <3>1, PassUpOrd
      <3> QED  BY <2>1, <3>2 DEF Handled, Less
    <2>6. ASSUME s.rch_received PROVE Ord(x) /\ Handled(s, x)
      <3>1. /\ x.rx = r.rx /\ x.rx_id = r.rx_id /\ x.overwritten = r.overwritten
            /\ SameHistory(r, x) /\ x.accepted = r.accepted
            /\ x.rch = "PROCESSING" /\ x.rch_received = r.rch_received
            /\ x.tch_received = r.tch_received
        BY <2>1 DEF Good, Layer, Fields, SameHistory
      <3>2. Sorted(s) /\ Awaited(s) /\ s.accepted # {} /\ ~s.tch_received
        BY <2>6 DEF Ord, Held, Apart
      <3>3. Sorted(x) /\ Awaited(x) /\ x.accepted # {}
        <4>1. x.rx = s.rx /\ SameHistory(s, x) /\ x.accepted = s.accepted
          BY <2>1, <3>1 DEF Less, SameHistory
        <4> HIDE DEF x
        <4> QED  BY <3>2, <4>1, SamePassed
      <3>4. Apart(x)
        BY <2>1, <3>1, <3>2 DEF Apart
      <3> QED  BY <2>1, <3>1, <3>3, <3>4 DEF Ord, Handled, Less
    <2>7. Ord(rch_report_error(r)) /\ Handled(s, rch_report_error(r))
      BY <2>1, <2>2, RchErrorOrd DEF Handled, Less
    <2> HIDE DEF x
    <2> QED  BY <2>3, <2>4, <2>5, <2>6, <2>7
  <1>2. CASE s.rch = "PROCESSING"
    <2> DEFINE r == [s EXCEPT !.chunk_number_expected = @ + 1]
               o == [None EXCEPT !.kind = "request",
                                 !.num = r.chunk_number_expected]
               a == r.accepted \ {s.rx.n}
               x == [r EXCEPT !.rch = "REQUESTING", !.accepted = a,
                              !.out = o, !.tx_xmit = TRUE]
    <2>0. Sorted(s) /\ Awaited(s) /\ ~s.tch_received /\ ~s.rch_received
      BY <1>2 DEF Ord, Held, Apart
    <2>1. /\ DOMAIN r = Fields /\ SameHistory(s, r) /\ ~r.rch_received
          /\ ~r.tch_received /\ r.rx_id = s.rx_id /\ r.rx = s.rx
          /\ r.overwritten = s.overwritten
      BY <2>0 DEF Good, Layer, Fields, SameHistory
    <2>2. ASSUME s.rx.num = s.chunk_number_expected PROVE Good(r)
      <3>1. s.chunk_number_expected + 1 \in 0 .. CHUNKS
        BY <2>2, PrlAssumption DEF Good, Layer, ChunksOK, Message
      <3> QED  BY <3>1 DEF Good, Layer, Fields, ChunksOK
    <2>3. rch_run(s) = CASE s.rx.num # s.chunk_number_expected -> rch_report_error(s)
            [] s.rx.num = s.chunk_number_expected
                 /\ (s.rx.num = CHUNKS - 1 \/ s.rx.kind = "request") ->
                 rch_pass_up_message(r)
            [] OTHER -> x
      BY <1>2 DEF rch_run, rch_processing_run
    <2> HIDE DEF r
    <2>4. ASSUME s.rx.num = s.chunk_number_expected
          PROVE  /\ Ord(rch_pass_up_message(r))
                 /\ Handled(s, rch_pass_up_message(r))
      <3>1. Sorted(r) /\ Awaited(r)
        BY <2>0, <2>1, SamePassed
      <3>2. Ord(rch_pass_up_message(r)) /\ Handled(r, rch_pass_up_message(r))
        BY <2>1, <2>2, <2>4, <3>1, PassUpOrd
      <3> QED  BY <2>1, <3>2 DEF Handled
    <2> HIDE DEF o, a
    <2>5. Ord(x) /\ Handled(s, x)
      <3>1. /\ x.rx = s.rx /\ x.rx_id = s.rx_id /\ x.overwritten = s.overwritten
            /\ SameHistory(s, x) /\ x.rch = "REQUESTING"
            /\ ~x.rch_received /\ ~x.tch_received
        BY <2>1 DEF Fields, SameHistory
      <3>2. Sorted(x)
        BY <2>0, <3>1, SamePassed
      <3> QED  BY <3>1, <3>2 DEF Ord, Held, Apart, Handled
    <2>6. Ord(rch_report_error(s)) /\ Handled(s, rch_report_error(s))
      BY RchErrorOrd
    <2> HIDE DEF x
    <2> QED  BY <2>3, <2>4, <2>5, <2>6
  <1>3. CASE s.rch = "REQUESTING"
    <2> DEFINE x == [s EXCEPT !.tx_complete = FALSE, !.rch = "WAITING"]
    <2>1. Less(s, x) /\ x.rch = "WAITING" /\ x.rx_id = s.rx_id
      BY <1>3 DEF Good, Layer, Fields, Less, Same, SameHistory, Pending
    <2>2. rch_run(s) \in {x, rch_report_error(s), s}
      BY <1>3 DEF rch_run, rch_requesting_run
    <2> HIDE DEF x
    <2> QED  BY <1>3, <2>1, <2>2, LessOrd, RchErrorOrd DEF Handled, Less
  <1>4. CASE s.rch = "WAITING"
    <2> DEFINE x == [s EXCEPT !.rch_received = FALSE, !.rch = "PROCESSING",
                              !.expired = @ \ {"rch"}]
    <2>1. \/ rch_run(s) \in {s, rch_report_error(s)}
          \/ s.rch_received /\ rch_run(s) = x
      BY <1>4 DEF rch_run, rch_waiting_run
    <2>2. /\ x.rx = s.rx /\ x.rx_id = s.rx_id /\ x.overwritten = s.overwritten
          /\ SameHistory(s, x) /\ x.rch = "PROCESSING" /\ ~x.rch_received
          /\ x.tch_received = s.tch_received /\ x.accepted = s.accepted
      BY DEF Good, Layer, Fields, SameHistory
    <2> HIDE DEF x
    <2>3. ASSUME s.rch_received PROVE Ord(x)
      <3>1. Sorted(s) /\ Awaited(s) /\ s.accepted # {} /\ ~s.tch_received
        BY <2>3 DEF Ord, Held, Apart
      <3>2. Sorted(x) /\ Awaited(x)
        BY <2>2, <3>1, SamePassed
      <3> QED  BY <2>2, <3>1, <3>2 DEF Ord, Apart
    <2> QED  BY <1>4, <2>1, <2>2, <2>3, RchErrorOrd DEF Handled
  <1>5. CASE s.rch = "ERROR"
    <2>1. Less(s, EnterRchWait(s)) /\ rch_run(s) = EnterRchWait(s)
      BY <1>5, EnterRchWaitLess DEF rch_run
    <2>2. /\ ~EnterRchWait(s).rch_received
          /\ EnterRchWait(s).rx_id = s.rx_id
      BY DEF EnterRchWait, Good, Layer, Fields
    <2> QED  BY <2>1, <2>2, LessOrd DEF Handled, Less
  <1> QED  BY <1>1, <1>2, <1>3, <1>4, <1>5 DEF Good, Layer

-----------------------------------------------------------------------------
(* tch                                                                     *)

\* The message in rx_chk_buf stays; the stored id does, or is forgotten.
Tracks(s, t) ==
  /\ t.rx = s.rx /\ t.overwritten = s.overwritten
  /\ t.rx_id \in {s.rx_id, -1}

\* What tch_run does to the message.
Served(s, t) ==
  /\ Tracks(s, t)
  /\ t.tch = "WAIT" => ~t.tch_received
  /\ t.rch = "WAIT" /\ t.rch_received =>
       t.tch = "RECEIVED" \/ (s.rch = "WAIT" /\ s.rch_received)

\* Operators that pass nothing up.
LEMMA LessTracks ==
  ASSUME NEW s, NEW t, Less(s, t)
  PROVE  Tracks(s, t)
  BY DEF Tracks, Less, Same, Renewed, SameHistory, Forgets

LEMMA LessServed ==
  ASSUME NEW s, NEW t, Less(s, t), s.tch = "WAIT" => ~s.tch_received
  PROVE  Served(s, t)
  BY LessTracks DEF Served, Less

LEMMA ServedAfter ==
  ASSUME NEW s, NEW t, NEW u, Less(s, t), Served(t, u)
  PROVE  Served(s, u)
  BY LessTracks DEF Served, Tracks, Less

\* tch_message_received hands the message to rch.
LEMMA TchReceivedOrd ==
  ASSUME NEW s, Good(s), Sorted(s), Awaited(s), s.accepted # {}, ~s.rch_received,
         s.rch # "PROCESSING", ~Pending(s)
  PROVE  LET t == tch_message_received(s) IN
         /\ Ord(t) /\ t.rx = s.rx /\ t.overwritten = s.overwritten
         /\ t.rx_id \in {s.rx_id, -1}
         /\ t.tch = "RECEIVED"
  <1> DEFINE r == [s EXCEPT !.tch = "RECEIVED", !.tch_received = FALSE,
                            !.rch_received = TRUE, !.expired = @ \ {"tch"}]
             x == [r EXCEPT !.tch_xmit = FALSE]
             a == IF x.owed = None THEN x ELSE Answer(x, "discard")
             t == tch_message_received(s)
  <1>1. Good(r) /\ r.tch = "RECEIVED"
    BY DEF Good, Layer, Fields, ChunksOK
  <1>2. /\ r.rx = s.rx /\ r.rx_id = s.rx_id /\ r.overwritten = s.overwritten
        /\ SameHistory(s, r) /\ r.accepted = s.accepted
        /\ ~r.tch_received /\ r.rch = s.rch
        /\ r.tx = s.tx /\ r.tx_xmit = s.tx_xmit
    BY DEF Good, Layer, Fields, SameHistory
  <1>3. t = IF s.tch_xmit THEN pe_report_discard(x) ELSE r
    BY DEF tch_message_received
  <1> HIDE DEF r
  <1>4. Sorted(r) /\ Awaited(r)
    BY <1>2, SamePassed
  <1>5. Ord(r)
    BY <1>2, <1>4 DEF Ord, Apart, Pending
  <1>6. Good(x) /\ Less(r, x) /\ x.tch = "RECEIVED"
    BY <1>1 DEF Good, Layer, Fields, ChunksOK, Less, Same, SameHistory, Pending
  <1> HIDE DEF x
  <1>7. Less(r, pe_report_discard(x))
    BY <1>6, DiscardLess, LessTrans
  <1>8. pe_report_discard(x).tch = "RECEIVED"
    <2>1. DOMAIN a = Fields /\ a.tch = "RECEIVED"
      BY <1>6 DEF Answer, Good, Layer, Fields
    <2> HIDE DEF a
    <2>2. pe_report_discard(x) = [a EXCEPT !.local_ams = FALSE]
      BY DEF pe_report_discard, a
    <2> QED  BY <2>1, <2>2 DEF Fields
  <1> HIDE DEF t
  <1>9. Ord(t) /\ t.tch = "RECEIVED" /\ (t = r \/ Less(r, t))
    BY <1>1, <1>3, <1>5, <1>7, <1>8, LessOrd
  <1> QED  BY <1>2, <1>9 DEF Less, Same, Renewed, SameHistory, Forgets, t

LEMMA TchHolds ==
  ASSUME NEW s, Ord(s), s.tch_received
  PROVE  /\ Sorted(s) /\ Awaited(s) /\ s.accepted # {} /\ ~s.rch_received
         /\ s.rch # "PROCESSING" /\ ~Pending(s)
  BY DEF Ord, Held, Apart

\* The other states of tch.
LEMMA TchReceivedServes ==
  ASSUME NEW s, Good(s), Ord(s), s.tch_received
  PROVE  LET t == tch_message_received(s) IN Ord(t) /\ Served(s, t)
  BY TchHolds, TchReceivedOrd DEF Served, Tracks

LEMMA AfterReportServes ==
  ASSUME NEW s, Good(s), Ord(s)
  PROVE  LET t == AfterReport(s) IN Ord(t) /\ Served(s, t)
  <1>1. Less(s, EnterTchWait(s)) /\ ~EnterTchWait(s).tch_received
    BY EnterTchWaitLess
  <1>2. Ord(EnterTchWait(s)) /\ Served(s, EnterTchWait(s))
    BY <1>1, LessOrd, LessTracks DEF Served, Less
  <1> QED  BY <1>2, TchReceivedServes DEF AfterReport

LEMMA SentServes ==
  ASSUME NEW s, Good(s), Ord(s)
  PROVE  LET t == tch_message_sent(s) IN Ord(t) /\ Served(s, t)
  <1>1. LET a == pe_message_sent(s) IN Good(a) /\ Less(s, a) /\ Ord(a)
    BY AnswerOk, AnswerLess, LessOrd DEF pe_message_sent, Ok
  <1> QED  BY <1>1, AfterReportServes, ServedAfter DEF tch_message_sent

LEMMA ErrorServes ==
  ASSUME NEW s, Good(s), ResetsOK(s), Ord(s), s.tch # "WAIT" \/ s.rch # "WAIT"
  PROVE  LET t == tch_report_error(s) IN Ord(t) /\ Served(s, t)
  <1>1. LET e == pe_report_error(s) IN Good(e) /\ Less(s, e) /\ Ord(e)
    BY ReportErrorOk, PeReportErrorLess, LessOrd DEF Ok
  <1> QED  BY <1>1, AfterReportServes, ServedAfter DEF tch_report_error

\* A chunk is put together: there is nothing that was received.
LEMMA ConstructServes ==
  ASSUME NEW s, Good(s), Ord(s), ~s.tch_received, ~s.rch_received
  PROVE  LET t == tch_construct(s) IN Ord(t) /\ Served(s, t)
  <1> DEFINE n == s.send_offset + 1
             o == [s.out EXCEPT !.num = s.chunk_number_to_send]
             t == [s EXCEPT !.tch = "CONSTRUCT", !.send_offset = n, !.tx_xmit = TRUE,
                            !.out = o, !.expired = @ \ {"tch"}]
  <1>1. tch_construct(s) = t
    BY DEF tch_construct, Good, Layer, Fields
  <1> HIDE DEF n, o
  <1>2. /\ t.rx = s.rx /\ t.rx_id = s.rx_id /\ t.overwritten = s.overwritten
        /\ SameHistory(s, t) /\ t.accepted = s.accepted
        /\ ~t.tch_received /\ ~t.rch_received /\ t.rch = s.rch
        /\ t.tch = "CONSTRUCT"
    BY DEF Good, Layer, Fields, SameHistory
  <1> HIDE DEF t
  <1>3. Sorted(t) /\ (Awaited(s) => Awaited(t))
    BY <1>2, SamePassed DEF Ord
  <1>4. Ord(t)
    BY <1>2, <1>3 DEF Ord, Held, Apart
  <1> QED  BY <1>1, <1>2, <1>4 DEF Served, Tracks

\* tch_run.  When it takes a message, rch does not have one waiting.
LEMMA TchRunOrd ==
  ASSUME NEW s, Good(s), ResetsOK(s), Ord(s),
         s.tch = "WAIT" /\ s.rch = "WAIT" => ~s.rch_received
  PROVE  LET t == tch_run(s) IN Ord(t) /\ Served(s, t)
  <1>0. (s.tch = "WAIT" => ~s.tch_received) => Served(s, s)
    BY DEF Served, Tracks
  <1>1. CASE s.tch = "WAIT"
    <2> DEFINE t == [s EXCEPT !.tch_xmit = FALSE]
               c == [t EXCEPT !.send_offset = 0, !.chunk_number_to_send = 0]
               x == [t EXCEPT !.tx_xmit = TRUE, !.tch = "TRANSMISSION"]
    <2>1. /\ Good(t) /\ ResetsOK(t) /\ Less(s, t) /\ t.rch = s.rch /\ t.tch = s.tch
          /\ t.tch_received = s.tch_received /\ t.rch_received = s.rch_received
          /\ SameHistory(s, t) /\ t.rx_id = s.rx_id /\ t.accepted = s.accepted
      <3>1. Good(t)
        BY DEF Good, Layer, Fields, ChunksOK, SameHistory
      <3>2. ResetsOK(t)
        BY DEF Good, Layer, Fields, ResetsOK
      <3>3. Less(s, t)
        BY DEF Good, Layer, Fields, Less, Same, SameHistory, Pending
      <3>4. /\ t.rch = s.rch /\ t.tch = s.tch
            /\ t.tch_received = s.tch_received /\ t.rch_received = s.rch_received
            /\ SameHistory(s, t) /\ t.rx_id = s.rx_id /\ t.accepted = s.accepted
        BY DEF Good, Layer, Fields, SameHistory
      <3> QED  BY <3>1, <3>2, <3>3, <3>4
    <2>2. Ord(t)
      BY <2>1, LessOrd
    <2> HIDE DEF t
    <2>3. CASE s.tch_received
      BY <1>1, <2>3, TchReceivedServes DEF tch_run, tch_wait_run
    <2>4. CASE ~s.tch_received /\ ~s.tch_xmit
      BY <1>0, <1>1, <2>4 DEF tch_run, tch_wait_run
    <2>5. CASE ~s.tch_received /\ s.tch_xmit /\ s.rch # "WAIT"
      <3>1. tch_run(s) = tch_report_error(t)
        BY <1>1, <2>5 DEF tch_run, tch_wait_run, t
      <3> QED  BY <2>1, <2>2, <2>5, <3>1, ErrorServes, ServedAfter
    <2>6. CASE ~s.tch_received /\ s.tch_xmit /\ s.rch = "WAIT"
      <3>1. tch_run(s) = IF s.out.kind = "ext" /\ s.tch_chunking
                         THEN tch_construct(c) ELSE x
        BY <1>1, <2>6 DEF tch_run, tch_wait_run, t
      <3>2. ~s.rch_received
        BY <1>1, <2>6
      <3>3. Ord(tch_construct(c)) /\ Served(s, tch_construct(c))
        <4>1. 0 \in 0 .. CHUNKS /\ 0 \in 0 .. CHUNKS - 1
          BY PrlAssumption
        <4>2. Good(c)
          BY <1>1, <2>1, <4>1 DEF Good, Layer, Fields, ChunksOK
        <4>3. /\ Less(t, c) /\ c.tch_received = t.tch_received
              /\ c.rch_received = t.rch_received
          BY <2>1 DEF Good, Layer, Fields, Less, Same, SameHistory, Pending
        <4> HIDE DEF c
        <4>4. Less(s, c) /\ Ord(c)
          BY <2>1, <2>2, <4>3, LessTrans, LessOrd
        <4> QED
          BY <2>1, <2>6, <3>2, <4>2, <4>3, <4>4, ConstructServes, ServedAfter
      <3>4. Ord(x) /\ Served(s, x)
        <4>1. /\ x.rx = t.rx /\ x.rx_id = t.rx_id /\ x.overwritten = t.overwritten
              /\ SameHistory(t, x) /\ x.accepted = t.accepted
              /\ x.tch_received = t.tch_received /\ x.rch_received = t.rch_received
              /\ x.rch = t.rch /\ x.tch = "TRANSMISSION"
          BY <2>1 DEF Good, Layer, Fields, SameHistory
        <4> HIDE DEF x
        <4>2. Sorted(x)
          BY <2>2, <4>1, SamePassed DEF Ord
        <4>3. Ord(x)
          BY <2>1, <2>6, <3>2, <4>1, <4>2 DEF Ord, Held, Apart
        <4> QED  BY <2>1, <2>6, <3>2, <4>1, <4>3 DEF Served, Tracks, Less
      <3> QED  BY <3>1, <3>3, <3>4
    <2> QED  BY <2>3, <2>4, <2>5, <2>6
  <1>2. CASE s.tch = "TRANSMISSION"
    <2> DEFINE c == [s EXCEPT !.tx_complete = FALSE]
               e == [s EXCEPT !.tx_error = FALSE]
    <2>1. Good(c) /\ Good(e) /\ e.tch = s.tch
      BY DEF Good, Layer, Fields, ChunksOK
    <2>2. ResetsOK(e)
      BY DEF Good, Layer, Fields, ResetsOK
    <2>3. Less(s, c) /\ Less(s, e)
      BY DEF Good, Layer, Fields, Less, Same, SameHistory, Pending
    <2>4. \/ tch_run(s) \in {tch_message_sent(c), tch_report_error(e), s}
          \/ s.tch_received /\ tch_run(s) = tch_message_received(s)
      BY <1>2 DEF tch_run, tch_transmission_run
    <2> HIDE DEF c, e
    <2>5. Ord(c) /\ Ord(e)
      BY <2>3, LessOrd
    <2>6. Ord(tch_message_sent(c)) /\ Served(s, tch_message_sent(c))
      BY <2>1, <2>3, <2>5, SentServes, ServedAfter
    <2>7. Ord(tch_report_error(e)) /\ Served(s, tch_report_error(e))
      BY <1>2, <2>1, <2>2, <2>3, <2>5, ErrorServes, ServedAfter
    <2> QED  BY <1>0, <1>2, <2>4, <2>6, <2>7, TchReceivedServes
  <1>3. CASE s.tch = "CONSTRUCT"
    <2>1. Less(s, [s EXCEPT !.tch = "SENDING"])
      BY DEF Good, Layer, Fields, Less, Same, SameHistory, Pending
    <2> QED  BY <1>3, <2>1, LessOrd, LessServed DEF tch_run
  <1>4. CASE s.tch = "SENDING"
    <2> DEFINE t == [s EXCEPT !.tch = "REQUEST", !.chunk_number_to_send = @ + 1]
    <2>1. Less(s, t)
      BY DEF Good, Layer, Fields, Less, Same, SameHistory, Pending
    <2>2. \/ tch_run(s) \in {tch_report_error(s), tch_message_sent(s), t}
          \/ s.tch_received /\ tch_run(s) = tch_message_received(s)
      BY <1>4 DEF tch_run, tch_sending_run
    <2> HIDE DEF t
    <2>3. Ord(t) /\ Served(s, t)
      BY <1>4, <2>1, LessOrd, LessServed
    <2> QED
      BY <1>4, <2>2, <2>3, ErrorServes, SentServes, TchReceivedServes
  <1>5. CASE s.tch = "REQUEST"
    <2> DEFINE r == [s EXCEPT !.tch_received = FALSE]
               used == [r EXCEPT !.accepted = @ \ {s.rx.n}]
    <2>1. /\ r.rx = s.rx /\ r.rx_id = s.rx_id /\ r.overwritten = s.overwritten
          /\ SameHistory(s, r) /\ r.accepted = s.accepted
          /\ ~r.tch_received /\ r.rch_received = s.rch_received
          /\ r.rch = s.rch /\ r.tch = s.tch /\ r.tx = s.tx /\ r.tx_xmit = s.tx_xmit
          /\ r.hr = s.hr /\ r.hr_flags = s.hr_flags /\ r.owed = s.owed
      BY DEF Good, Layer, Fields, SameHistory
    <2>2. Good(r)
      BY DEF Good, Layer, Fields, ChunksOK
    <2>3. \/ s.tch_received /\ tch_run(s) \in
               {tch_message_received(r), tch_construct(used), tch_report_error(used)}
          \/ tch_run(s) \in {tch_message_sent(s), s}
      BY <1>5 DEF tch_run, tch_wait_chunk_request_run
    <2> HIDE DEF r
    <2>4. Good(used)
      BY <2>2 DEF Good, Layer, Fields, ChunksOK
    <2>5. /\ used.rx = s.rx /\ used.rx_id = s.rx_id
          /\ used.overwritten = s.overwritten /\ SameHistory(s, used)
          /\ ~used.tch_received /\ used.rch_received = s.rch_received
          /\ used.rch = s.rch /\ used.tch = s.tch
          /\ used.hr = s.hr /\ used.hr_flags = s.hr_flags /\ used.owed = s.owed
      BY <2>1, <2>2 DEF Good, Layer, Fields, SameHistory
    <2> HIDE DEF used
    <2>6. ASSUME s.tch_received
          PROVE  LET t == tch_message_received(r) IN Ord(t) /\ Served(s, t)
      <3>1. Sorted(r) /\ Awaited(r)
        BY <2>1, <2>6, TchHolds, SamePassed
      <3>2. r.accepted # {} /\ ~r.rch_received /\ r.rch # "PROCESSING" /\ ~Pending(r)
        BY <2>1, <2>6, TchHolds DEF Pending
      <3>3. LET t == tch_message_received(r) IN
            /\ Ord(t) /\ t.rx = r.rx /\ t.overwritten = r.overwritten
            /\ t.rx_id \in {r.rx_id, -1}
            /\ t.tch = "RECEIVED"
        BY <2>2, <3>1, <3>2, TchReceivedOrd
      <3> QED  BY <2>1, <2>6, <3>3, TchHolds DEF Served, Tracks
    <2>7. ASSUME s.tch_received
          PROVE  /\ Ord(used) /\ ~used.rch_received
                 /\ ResetsOK(used)
                 /\ \A t : Served(used, t) => Served(s, t)
      <3>1. Sorted(used)
        BY <2>5, SamePassed DEF Ord
      <3>2. Ord(used) /\ ~used.rch_received
        BY <2>5, <2>7, <3>1, TchHolds DEF Ord, Held, Apart
      <3>3. ResetsOK(used)
        BY <2>5 DEF ResetsOK
      <3>4. ASSUME NEW t, Served(used, t) PROVE Served(s, t)
        BY <2>5, <2>7, <3>4, TchHolds DEF Served, Tracks
      <3> QED  BY <3>2, <3>3, <3>4
    <2>8. ASSUME s.tch_received
          PROVE  LET t == tch_construct(used) IN Ord(t) /\ Served(s, t)
      BY <2>4, <2>5, <2>7, <2>8, ConstructServes
    <2>9. ASSUME s.tch_received
          PROVE  LET t == tch_report_error(used) IN Ord(t) /\ Served(s, t)
      BY <1>5, <2>4, <2>5, <2>7, <2>9, ErrorServes
    <2> QED  BY <1>0, <1>5, <2>3, <2>6, <2>8, <2>9, SentServes
  <1>6. CASE s.tch = "RECEIVED"
    <2>1. Less(s, EnterTchWait(s)) /\ tch_run(s) = EnterTchWait(s)
      BY <1>6, EnterTchWaitLess DEF tch_run
    <2> QED  BY <1>6, <2>1, LessOrd, LessServed
  <1> QED  BY <1>1, <1>2, <1>3, <1>4, <1>5, <1>6 DEF Good, Layer

-----------------------------------------------------------------------------
(* prl_tx, prl_hr and what the policy engine asks for                      *)

\* prl_tx_run.  It resets the ids to send a Soft_Reset; nothing is held then.
LEMMA TxRunLess ==
  ASSUME NEW s, Good(s), Ord(s)
  PROVE  LET t == prl_tx_run(s) IN Less(s, t) /\ t.tch = s.tch
  <1>0. Less(s, s)
    BY DEF Less, Same, SameHistory
  <1>1. CASE s.tx = "WAIT"
    <2> DEFINE b == s.sink_ng /\ s.local_ams
               t == [s EXCEPT !.sink_ng = b]
               a == SetTx(t, "START_AMS")
               x == [a EXCEPT !.sink_ng = TRUE]
    <2>1. prl_tx_run(s) = IF t.local_ams /\ ~t.sink_ng THEN x
                          ELSE IF t.tx_xmit THEN Transmit(t) ELSE t
      BY <1>1 DEF prl_tx_run, prl_tx_wait_run
    <2> HIDE DEF b
    <2>2. Good(t) /\ t.tch = s.tch /\ t.tx_xmit = s.tx_xmit
      BY DEF Good, Layer, Fields, ChunksOK
    <2>3. Less(s, t)
      BY DEF Good, Layer, Fields, Less, Same, SameHistory, Pending
    <2> HIDE DEF t
    <2>4. Less(t, a) /\ Good(a) /\ a.tch = t.tch
      BY <2>2, SetTxOk, SetTxLess DEF TxStates, Ok
    <2> HIDE DEF a
    <2>5. Less(a, x) /\ x.tch = a.tch
      BY <2>4 DEF Good, Layer, Fields, Less, Same, SameHistory, Pending
    <2>6. t.tx_xmit => ~t.rch_received /\ ~t.tch_received
      BY <2>2, <2>3 DEF Ord, Apart, Pending, Less
    <2>7. t.tx_xmit => Less(t, Transmit(t)) /\ Transmit(t).tch = t.tch
      BY <2>2, <2>6, TransmitLess
    <2> HIDE DEF x
    <2>8. Less(s, x) /\ x.tch = s.tch
      BY <2>2, <2>3, <2>4, <2>5, LessTrans
    <2>9. t.tx_xmit => Less(s, Transmit(t)) /\ Transmit(t).tch = s.tch
      BY <2>2, <2>3, <2>7, LessTrans
    <2>10. \/ prl_tx_run(s) \in {x, t}
           \/ t.tx_xmit /\ prl_tx_run(s) = Transmit(t)
      BY <2>1
    <2> QED  BY <2>2, <2>3, <2>8, <2>9, <2>10
  <1>2. CASE s.tx = "LAYER_RESET"
    BY <1>2, ConstructMessageLess DEF prl_tx_run
  <1>3. CASE s.tx = "WAIT_PHY"
    <2> DEFINE i == increment_msgid_counter(s)
               t == SetTx(i, "WAIT")
    <2>1. Less(s, i) /\ Good(i) /\ i.tch = s.tch
      BY IncrementOk, IncrementLess, IncrementAgrees DEF Ok, Agree, Fields
    <2> HIDE DEF i
    <2>2. Less(s, t) /\ Good(t) /\ t.tch = s.tch
      BY <2>1, SetTxOk, SetTxLess, LessTrans DEF Ok, TxStates
    <2>3. prl_tx_run(s) \in {s, [t EXCEPT !.tx_complete = TRUE, !.unheard = 0],
                                [t EXCEPT !.tx_error = TRUE]}
      BY <1>3 DEF prl_tx_run, prl_tx_wait_for_phy_response_run, i
    <2> HIDE DEF t
    <2>4. LET x == [t EXCEPT !.tx_complete = TRUE, !.unheard = 0] IN
          Less(t, x) /\ x.tch = t.tch
      BY <2>2 DEF Good, Layer, Fields, Less, Same, SameHistory, Pending
    <2>5. LET x == [t EXCEPT !.tx_error = TRUE] IN Less(t, x) /\ x.tch = t.tch
      BY <2>2 DEF Good, Layer, Fields, Less, Same, SameHistory, Pending
    <2>6. \A x : Less(t, x) /\ x.tch = t.tch => Less(s, x) /\ x.tch = s.tch
      BY <2>2, LessTrans
    <2> QED  BY <1>0, <2>3, <2>4, <2>5, <2>6
  <1>4. CASE s.tx = "START_AMS"
    BY <1>0, <1>4, SetTxLess DEF prl_tx_run, prl_tx_start_ams_run
  <1>5. CASE s.tx = "PENDING"
    <2>1. ~s.rch_received /\ ~s.tch_received
      BY <1>5 DEF Ord, Apart, Pending
    <2> QED  BY <1>0, <1>5, <2>1, TransmitLess
      DEF prl_tx_run, prl_tx_pending_run
  <1> QED  BY <1>1, <1>2, <1>3, <1>4, <1>5 DEF Good, Layer, TxStates

\* prl_hr_run.
LEMMA HrRunLess ==
  ASSUME NEW s, Good(s)
  PROVE  Less(s, prl_hr_run(s))
  <1>0. Less(s, s)
    BY DEF Less, Same, SameHistory
  <1>1. CASE s.hr = "WAIT"
    BY <1>0, <1>1, ResetLayerLess DEF prl_hr_run
  <1>2. CASE s.hr = "RESET_LAYER"
    <2> DEFINE o == [None EXCEPT !.kind = "hard"]
               x == [s EXCEPT !.hr = "PHY", !.tch_xmit = TRUE, !.out = o]
               y == [s EXCEPT !.hr = "PE", !.pe_reset = TRUE]
    <2>1. prl_hr_run(s) \in {x, y}
      BY <1>2 DEF prl_hr_run
    <2> HIDE DEF o
    <2>2. Less(s, x)
      BY DEF Good, Layer, Fields, Less, Same, SameHistory, Pending
    <2>3. Less(s, y)
      BY DEF Good, Layer, Fields, Less, Same, SameHistory, Pending
    <2> HIDE DEF x, y
    <2> QED  BY <2>1, <2>2, <2>3
  <1>3. CASE s.hr = "PHY"
    <2> DEFINE x == [s EXCEPT !.hr = "PE", !.pe_reset = TRUE, !.expired = @ \ {"hr"}]
    <2>1. prl_hr_run(s) \in {x, s}
      BY <1>3 DEF prl_hr_run
    <2>2. Less(s, x)
      BY DEF Good, Layer, Fields, Less, Same, SameHistory, Pending
    <2> HIDE DEF x
    <2> QED  BY <1>0, <2>1, <2>2
  <1>4. CASE s.hr = "PE"
    <2> DEFINE w == ToWait(prl_tx_phy_layer_reset(s))
               x == [w EXCEPT !.hr = "WAIT", !.hr_flags = {},
                              !.apart = @ \/ s.tx = "WAIT_PHY"]
    <2>1. prl_hr_run(s) \in {x, s}
      BY <1>4 DEF prl_hr_run
    <2>2. Less(s, w) /\ Good(w)
      BY PhyLayerResetLess, PhyLayerResetOk, ToWaitLess, LeaveOk, LessTrans
      DEF Ok
    <2> HIDE DEF w
    <2>3. Less(w, x)
      BY <2>2 DEF Good, Layer, Fields, Less, Same, SameHistory, Pending
    <2> HIDE DEF x
    <2> QED  BY <1>0, <2>1, <2>2, <2>3, LessTrans
  <1> QED  BY <1>1, <1>2, <1>3, <1>4 DEF Good, Layer

\* prl_send_ctrl_msg, prl_send_data_msg and prl_send_ext_data_msg.
LEMMA SendLess ==
  ASSUME NEW s, Good(s), NEW kind
  PROVE  Less(s, prl_send(s, kind))
  <1> DEFINE m == [None EXCEPT !.kind = kind, !.n = s.sends + 1]
             n == s.sends + 1
             c == /\ kind # "ext" /\ s.hr = "WAIT"
                  /\ s.tch = "WAIT" /\ s.tx = "WAIT" /\ ~s.tx_xmit
                  /\ ~s.tx_complete /\ ~s.tx_error /\ s.phy = None
             t == [s EXCEPT !.out = m, !.owed = m, !.tch_xmit = TRUE, !.sends = n,
                            !.answers = <<>>, !.heard = FALSE, !.clean = c]
  <1>1. prl_send(s, kind) = t
    BY DEF prl_send
  <1> HIDE DEF m, n, c
  <1>2. Less(s, t)
    BY DEF Good, Layer, Fields, Less, Same, SameHistory, Pending
  <1> QED  BY <1>1, <1>2

-----------------------------------------------------------------------------
(* The reception                                                           *)

\* The message is not older than the last one, and if it is that one again the
\* stored id tells, or has been forgotten.
Expected(s, msg) ==
  /\ s.rx.n <= msg.n
  /\ s.rx.n = msg.n /\ msg.kind # "soft" /\ s.rx_id # msg.id => Fresh(s)

\* A Soft_Reset of the partner: the stored id is forgotten, nothing waits.
LEMMA SoftResetOrd ==
  ASSUME NEW s, Good(s)
  PROVE  LET t == SoftReset(s) IN
         /\ t.rx = s.rx /\ t.overwritten = s.overwritten /\ t.rx_id = -1
         /\ Sorted(s) /\ ~s.rch_received /\ ~(s.tch = "WAIT" /\ s.tch_received)
            => Ord(t)
  <1> DEFINE a == s.apart \/ s.phy # None
             e == NextEra(s)
             x == [s EXCEPT !.id = 0, !.rx_id = -1, !.accepted = {}, !.era = e,
                            !.unheard = 0, !.apart = a]
             p == prl_tx_phy_layer_reset(x)
             r == IF p.rch = "WAIT" THEN p ELSE EnterRchWait(p)
             w == ToWait(p)
             t == prl_send(w, "data")
  <1>1. t = SoftReset(s)
    BY DEF SoftReset
  <1> HIDE DEF a
  <1>2. Good(x)
    <2>1. 0 \in 0 .. PD_MESSAGE_ID_COUNT /\ -1 \in -1 .. PD_MESSAGE_ID_COUNT
      BY PrlAssumption
    <2> HIDE DEF e
    <2> QED  BY <2>1 DEF Good, Layer, Fields, ChunksOK
  <1>3. /\ x.rx = s.rx /\ x.overwritten = s.overwritten /\ Forgets(s, x)
        /\ x.rch_received = s.rch_received /\ x.tch_received = s.tch_received
        /\ x.tch = s.tch
    BY DEF Good, Layer, Fields, Forgets
  <1> HIDE DEF x, e
  <1>4. Less(x, p) /\ Good(p) /\ p.tch = x.tch
    <2>1. Less(x, p) /\ Good(p)
      BY <1>2, PhyLayerResetLess, PhyLayerResetOk DEF Ok
    <2> DEFINE v == SetTx(x, "WAIT")
    <2>2. DOMAIN v = Fields /\ v.tch = x.tch
      BY <1>2 DEF SetTx, Good, Layer, Fields
    <2>3. p = [v EXCEPT !.rx_enabled = TRUE]
      BY DEF prl_tx_phy_layer_reset
    <2> HIDE DEF v
    <2>4. p.tch = v.tch
      BY <2>2, <2>3 DEF Fields
    <2> QED  BY <2>1, <2>2, <2>4
  <1> HIDE DEF p
  <1>5. Less(p, w) /\ Good(w)
    BY <1>4, ToWaitLess, ToWaitOk DEF Ok
  <1>6. /\ w.rch = "WAIT"
        /\ p.tch # "WAIT" => ~w.tch_received
    <2>1. DOMAIN r = Fields /\ r.rch = "WAIT" /\ r.tch = p.tch
      BY <1>4 DEF EnterRchWait, Good, Layer, Fields
    <2>2. w = IF p.tch = "WAIT" THEN r ELSE EnterTchWait(r)
      BY DEF ToWait
    <2> HIDE DEF r
    <2> QED  BY <2>1, <2>2 DEF EnterTchWait, Fields
  <1> HIDE DEF w
  <1>7. Less(w, t)
    BY <1>5, SendLess
  <1>8. ASSUME Sorted(s), ~s.rch_received, ~(s.tch = "WAIT" /\ s.tch_received)
        PROVE  Ord(t)
    <2>1. ~w.rch_received /\ ~w.tch_received
      BY <1>3, <1>4, <1>5, <1>6, <1>8 DEF Less
    <2>2. Sorted(w)
      BY <1>3, <1>4, <1>5, <1>8, ForgetsSorted, LessSorted
    <2>3. Ord(w)
      BY <1>6, <2>1, <2>2 DEF Ord, Held, Apart
    <2> QED  BY <1>7, <2>3, LessOrd
  <1>9. Less(x, t)
    BY <1>4, <1>5, <1>7, LessTrans
  <1>10. t.rx = s.rx /\ t.overwritten = s.overwritten /\ t.rx_id = -1
    BY <1>3, <1>9 DEF Less, Same, Renewed, SameHistory, Forgets
  <1> QED  BY <1>1, <1>8, <1>10

\* The message in rx_chk_buf is a new one, or its id was forgotten.
Unseen(s) == Fresh(s) \/ \A i \in 1 .. Len(s.passed) : s.passed[i].n < s.rx.n

\* A message is written to rx_chk_buf and given to tch or rch.
LEMMA AcceptOrd ==
  ASSUME NEW s, Good(s), NEW msg \in Message, s.rx = msg
  PROVE  LET t == Accept(s, msg) IN
         /\ t.rx = msg /\ t.rx_id = msg.id
         /\ ~t.overwritten => ~s.overwritten /\ s.accepted = {}
         /\ /\ ~t.overwritten /\ Sorted(s) /\ Unseen(s) /\ ~Held(s)
            => Ord(t)
  <1> DEFINE discard == msg.kind # "ping" /\ (s.tx # "WAIT_PHY" \/ s.tx_xmit)
             d == IF discard THEN prl_tx_discard_message(s) ELSE s
             acc == d.accepted \cup {msg.n}
             o == d.overwritten \/ s.accepted # {}
             x == [d EXCEPT !.rx_id = msg.id, !.rx_era = s.era,
                            !.accepted = acc, !.overwritten = o]
             y == [x EXCEPT !.tch_received = TRUE]
             z == [x EXCEPT !.rch_received = TRUE]
             t == Accept(s, msg)
  <1>1. t = CASE msg.kind = "ping" -> pe_message_received(x)
              [] msg.kind # "ping" /\ (x.tch # "WAIT" \/ x.tch_xmit) -> y
              [] OTHER -> z
    BY DEF Accept
  <1>2. Less(s, d) /\ Good(d)
    BY TxDiscardLess, TxDiscardOk DEF Ok, Less, Same, SameHistory
  <1>3. msg.kind # "ping" => ~Pending(d)
    BY TxDiscardLess DEF Pending
  <1> HIDE DEF d, discard
  <1>4. Good(x)
    <2>1. msg.id \in -1 .. PD_MESSAGE_ID_COUNT
      BY PrlAssumption DEF Message
    <2> HIDE DEF acc, o
    <2> QED  BY <1>2, <2>1 DEF Good, Layer, Fields, ChunksOK
  <1>5. /\ x.rx = d.rx /\ x.rx_id = msg.id /\ x.overwritten = o
        /\ x.accepted = acc /\ x.passed = d.passed /\ x.era = d.era
        /\ x.rx_era = s.era /\ x.rch = d.rch
        /\ x.rch_received = d.rch_received /\ x.tch_received = d.tch_received
        /\ x.tx = d.tx /\ x.tx_xmit = d.tx_xmit
    <2> HIDE DEF acc, o
    <2> QED  BY <1>2 DEF Good, Layer, Fields
  <1>6. /\ acc # {} /\ (~o => ~s.overwritten /\ s.accepted = {})
    BY <1>2 DEF Less
  <1> HIDE DEF x, acc, o
  <1>7. /\ y.rx = x.rx /\ y.rx_id = x.rx_id /\ y.overwritten = x.overwritten
        /\ y.accepted = x.accepted /\ SameHistory(x, y) /\ y.rch = x.rch
        /\ y.rch_received = x.rch_received /\ y.tch_received
        /\ y.tx = x.tx /\ y.tx_xmit = x.tx_xmit
    BY <1>4 DEF Good, Layer, Fields, SameHistory
  <1>8. /\ z.rx = x.rx /\ z.rx_id = x.rx_id /\ z.overwritten = x.overwritten
        /\ z.accepted = x.accepted /\ SameHistory(x, z) /\ z.rch = x.rch
        /\ z.tch_received = x.tch_received /\ z.rch_received
        /\ z.tx = x.tx /\ z.tx_xmit = x.tx_xmit
    BY <1>4 DEF Good, Layer, Fields, SameHistory
  <1> HIDE DEF y, z, t
  <1>9. t.rx = msg /\ t.rx_id = msg.id /\ t.overwritten = o
    BY <1>1, <1>2, <1>4, <1>5, <1>7, <1>8, PassUpKeeps DEF Less
  <1>10. ASSUME Sorted(s), Unseen(s), ~Held(s) PROVE Ord(t)
    <2>1. Sorted(d) /\ d.passed = s.passed /\ d.rx_era = s.rx_era
          /\ d.rx = s.rx /\ (d.era = s.era \/ d.era = s.era + 1)
      BY <1>2, <1>10, LessSorted
      DEF Less, Same, Renewed, SameHistory, Forgets, NextEra
    <2>2. Sorted(x) /\ Awaited(x)
      <3>1. s.era \in Int /\ s.rx_era \in Int /\ s.rx_era <= s.era
        BY <1>10 DEF Sorted
      <3>2. x.rx_era <= x.era /\ x.rx_id # -1
        BY <1>5, <2>1, <3>1, PrlAssumption DEF Message
      <3>3. \A i \in 1 .. Len(s.passed) :
              /\ s.passed[i].era \in Int /\ s.passed[i].n \in Int
              /\ s.passed[i].n <= s.rx.n /\ s.passed[i].era <= s.rx_era
        BY <1>10, PassedTyped DEF Sorted
      <3>4. \A i \in 1 .. Len(s.passed) : s.passed[i].era <= s.era
        BY <3>1, <3>3
      <3>5. Sorted(x)
        BY <1>5, <2>1, <3>1, <3>2, <3>4 DEF Sorted
      <3>6. \A i \in 1 .. Len(s.passed) :
              s.passed[i].n < s.rx.n \/ s.passed[i].era < s.era
        BY <1>10, <3>1, <3>3 DEF Unseen, Fresh
      <3>7. Awaited(x)
        BY <1>5, <2>1, <3>6 DEF Awaited
      <3> QED  BY <3>5, <3>7
    <2>3. ~x.rch_received /\ ~x.tch_received /\ x.rch # "PROCESSING"
      BY <1>2, <1>5, <1>10 DEF Held, Less
    <2>4. Ord(pe_message_received(x))
      <3>1. Sorted(pe_message_received(x))
        BY <1>4, <2>2, PassUpPassed
      <3> QED  BY <1>4, <2>3, <3>1, PassUpKeeps DEF Ord, Held, Apart
    <2>5. msg.kind # "ping" => Ord(y)
      <3>1. Sorted(y) /\ Awaited(y)
        BY <1>7, <2>2, SamePassed
      <3> QED  BY <1>3, <1>5, <1>6, <1>7, <2>3, <3>1 DEF Ord, Apart, Pending
    <2>6. msg.kind # "ping" => Ord(z)
      <3>1. Sorted(z) /\ Awaited(z)
        BY <1>8, <2>2, SamePassed
      <3> QED  BY <1>3, <1>5, <1>6, <1>8, <2>3, <3>1 DEF Ord, Apart, Pending
    <2> QED  BY <1>1, <2>4, <2>5, <2>6
  <1> QED  BY <1>6, <1>9, <1>10 DEF t

\* prl_rx_wait_for_phy_message_run for one message.
LEMMA ReceiveOrd ==
  ASSUME NEW s, Good(s), NEW msg \in Message, msg.num < CHUNKS
  PROVE  LET t == Receive(s, msg) IN
         /\ t.rx = msg /\ (~t.overwritten => ~s.overwritten)
         /\ t.rx_id \in {-1, msg.id}
         /\ /\ Ord(s) /\ Expected(s, msg) /\ ~t.overwritten
            /\ ~s.rch_received /\ ~(s.tch = "WAIT" /\ s.tch_received)
            => Ord(t)
  <1> DEFINE x == [s EXCEPT !.rx = msg, !.unhindered = FALSE]
             t == Receive(s, msg)
  <1>1. t = CASE msg.kind = "soft" -> SoftReset(x)
              [] msg.kind # "soft" /\ x.rx_id = msg.id -> x
              [] OTHER -> Accept(x, msg)
    BY DEF Receive, Duplicate
  <1>2. Good(x) /\ x.rx = msg
    BY DEF Good, Layer, Fields, ChunksOK
  <1>3. /\ x.overwritten = s.overwritten
        /\ SameHistory(s, x) /\ x.accepted = s.accepted
        /\ x.rch = s.rch /\ x.rch_received = s.rch_received
        /\ x.tch = s.tch /\ x.tch_received = s.tch_received
        /\ x.tx = s.tx /\ x.tx_xmit = s.tx_xmit
    BY DEF Good, Layer, Fields, SameHistory
  <1> HIDE DEF x, t
  <1>4. msg.n \in Nat /\ s.rx.n \in Nat
    BY PrlAssumption DEF Good, Layer, Message
  <1>5. /\ t.rx = msg /\ (~t.overwritten => ~s.overwritten)
        /\ t.rx_id \in {-1, msg.id}
    BY <1>1, <1>2, <1>3, SoftResetOrd, AcceptOrd
  <1>6. ASSUME Ord(s), Expected(s, msg), ~t.overwritten, ~s.rch_received,
               ~(s.tch = "WAIT" /\ s.tch_received)
        PROVE  Ord(t)
    <2>0. /\ x.passed = s.passed /\ x.rx_id = s.rx_id
          /\ x.era = s.era /\ x.rx_era = s.rx_era
      BY <1>3 DEF SameHistory
    <2>1. /\ Sorted(x) /\ Sorted(s)
          /\ \A i \in 1 .. Len(s.passed) : s.passed[i].n \in Int
      <3>1. /\ Sorted(s) /\ s.rx.n <= msg.n
            /\ s.passed \in Seq([n : Int, era : Int])
        BY <1>6 DEF Ord, Sorted, Expected
      <3>2. \A i \in 1 .. Len(s.passed) : s.passed[i].n \in Int
        BY <3>1, PassedTyped
      <3>3. \A i \in 1 .. Len(s.passed) :
              s.passed[i].n \in Int /\ s.passed[i].n <= s.rx.n
        BY <3>1, <3>2 DEF Sorted
      <3>4. \A i \in 1 .. Len(s.passed) : s.passed[i].n <= msg.n
        BY <1>4, <3>1, <3>3
      <3>5. Sorted(x)
        BY <1>2, <2>0, <3>1, <3>4 DEF Sorted, Fresh
      <3> QED  BY <3>1, <3>3, <3>5
    <2>2. Awaited(s) => Awaited(x)
      <3>1. ASSUME Awaited(s), NEW i \in 1 .. Len(s.passed)
            PROVE  s.passed[i].n < msg.n \/ s.passed[i].era < s.rx_era
        <4>1. s.passed[i].n < s.rx.n \/ s.passed[i].era < s.rx_era
          BY <3>1 DEF Awaited
        <4>2. s.rx.n <= msg.n /\ s.passed[i].n \in Int
          BY <1>6, <2>1, <3>1 DEF Expected
        <4> QED  BY <1>4, <4>1, <4>2
      <3> QED  BY <1>2, <2>0, <3>1 DEF Awaited
    <2>3. Ord(x)
      BY <1>3, <1>6, <2>1, <2>2 DEF Ord, Held, Apart, Pending
    <2>4. CASE msg.kind = "soft"
      BY <1>1, <1>2, <1>3, <1>6, <2>1, <2>4, SoftResetOrd
    <2>5. CASE msg.kind # "soft" /\ x.rx_id = msg.id
      BY <1>1, <2>3, <2>5
    <2>6. CASE msg.kind # "soft" /\ x.rx_id # msg.id
      <3>1. t = Accept(x, msg)
        BY <1>1, <2>6
      <3>2. x.accepted = {}
        BY <1>2, <1>6, <3>1, AcceptOrd
      <3>3. ~Held(x)
        BY <2>3, <3>2 DEF Ord
      <3>4. s.rx.n < msg.n \/ Fresh(s)
        BY <1>4, <1>6, <2>0, <2>6 DEF Expected
      <3>5. Unseen(x)
        <4>1. CASE Fresh(s)
          BY <2>0, <4>1 DEF Unseen, Fresh
        <4>2. CASE s.rx.n < msg.n
          <5>1. \A i \in 1 .. Len(s.passed) :
                  s.passed[i].n \in Int /\ s.passed[i].n <= s.rx.n
            BY <2>1 DEF Sorted
          <5>2. \A i \in 1 .. Len(s.passed) : s.passed[i].n < msg.n
            BY <1>4, <4>2, <5>1
          <5> QED  BY <1>2, <2>0, <5>2 DEF Unseen
        <4> QED  BY <3>4, <4>1, <4>2
      <3> QED  BY <1>2, <1>6, <2>1, <3>1, <3>3, <3>5, AcceptOrd
    <2> QED  BY <2>4, <2>5, <2>6
  <1> QED  BY <1>5, <1>6 DEF t

-----------------------------------------------------------------------------
(* The invariant and the steps                                             *)

\* Sent before, or the same message repeated.
Precedes(a, b) == a.n <= b.n /\ (a.n = b.n => a = b)

\* The partner sends in order, after what we have received; what it may repeat
\* is the last it has sent.
QueueOrdered ==
  /\ prl.rx.n <= partner.sends
  /\ \A i \in 1 .. Len(queue) :
       /\ 1 <= queue[i].n /\ queue[i].n <= partner.sends
       /\ Precedes(prl.rx, queue[i])
       /\ \A j \in 1 .. Len(queue) : i < j => Precedes(queue[i], queue[j])
  /\ partner.last # None =>
       /\ 1 <= partner.last.n /\ partner.last.n <= partner.sends
       /\ Precedes(prl.rx, partner.last)
       /\ \A i \in 1 .. Len(queue) : Precedes(queue[i], partner.last)

\* Where in a round a message may wait for a machine that is in WAIT: rch has
\* looked before tch does, tch gives a message to rch only in RECEIVED, and tch has
\* looked before anything is received.
StageOrd ==
  /\ stage = "tch" /\ prl.rch = "WAIT" => ~prl.rch_received
  /\ stage \in {"tx", "tch_again"} /\ prl.rch = "WAIT" /\ prl.rch_received =>
       prl.tch = "RECEIVED"
  /\ stage \notin {"rch", "tch"} => ~(prl.tch = "WAIT" /\ prl.tch_received)

\* The stored id is that of the message in rx_chk_buf, unless it was forgotten:
\* if that message comes again it is recognised.
Stored == prl.rx_id \in {-1, prl.rx.id}

\* The inductive invariant, on top of IInv.
OrderInv ==
  /\ QueueOrdered
  /\ ~prl.overwritten => Ord(prl) /\ StageOrd /\ Stored

\* Steps that receive nothing leave the queue in order, and the stored id that of
\* the message in rx_chk_buf.
LEMMA QueueStays ==
  ASSUME QueueOrdered, prl'.rx = prl.rx, queue' = queue,
         partner'.sends = partner.sends, partner'.last \in {partner.last, None}
  PROVE  QueueOrdered'
  BY DEF QueueOrdered, Precedes

LEMMA StoredStays == ASSUME Stored, Tracks(prl, prl') PROVE Stored'
  BY DEF Stored, Tracks

\* Between the rounds and within the stages nothing new is required.
LEMMA LessStage ==
  ASSUME StageOrd, Less(prl, prl'),
         \/ stage \in {"tc", "pe", "rx", "hr"} /\ stage' \in {"tc", "pe", "rx", "hr"}
         \/ prl'.tch = prl.tch /\ stage' = stage
         \/ prl'.tch = prl.tch /\ stage = "tx" /\ stage' = "tch_again"
  PROVE  StageOrd'
  BY DEF StageOrd, Less

\* Steps that pass nothing up.
LEMMA LessStep ==
  ASSUME OrderInv, Less(prl, prl'), queue' = queue, partner'.sends = partner.sends,
         partner'.last \in {partner.last, None},
         \/ stage \in {"tc", "pe", "rx", "hr"} /\ stage' \in {"tc", "pe", "rx", "hr"}
         \/ prl'.tch = prl.tch /\ stage' = stage
         \/ prl'.tch = prl.tch /\ stage = "tx" /\ stage' = "tch_again"
  PROVE  OrderInv'
  <1>1. QueueOrdered'
    BY QueueStays DEF OrderInv, Less
  <1>2. ASSUME ~prl'.overwritten PROVE Ord(prl') /\ StageOrd' /\ Stored'
    <2>1. Ord(prl) /\ StageOrd /\ Stored
      BY <1>2 DEF OrderInv, Less
    <2> QED  BY <2>1, LessOrd, LessStage, LessTracks, StoredStays
  <1> QED  BY <1>1, <1>2 DEF OrderInv

\* The initial state.
LEMMA OrderInit == Init => OrderInv
  <1> SUFFICES ASSUME Init PROVE OrderInv
    OBVIOUS
  <1>1. /\ prl.rx = None /\ prl.passed = <<>> /\ ~prl.rch_received
        /\ ~prl.tch_received /\ prl.rch = "WAIT" /\ stage = "tc"
        /\ prl.era = 0 /\ prl.rx_era = -1 /\ prl.rx_id = -1
        /\ queue = <<>> /\ partner.sends = 0 /\ partner.last = None
    BY DEF Init, prl_init
  <1>2. Ord(prl)
    <2>1. Len(prl.passed) = 0 /\ prl.passed \in Seq([n : Int, era : Int])
      BY <1>1
    <2>2. Sorted(prl)
      BY <1>1, <2>1 DEF Sorted, Fresh
    <2> QED  BY <1>1, <2>2 DEF Ord, Held, Apart
  <1>3. StageOrd /\ Stored
    BY <1>1 DEF StageOrd, Stored
  <1>4. QueueOrdered
    <2>1. prl.rx.n = 0 /\ Len(queue) = 0
      BY <1>1 DEF None
    <2> QED  BY <1>1, <2>1 DEF QueueOrdered
  <1> QED  BY <1>2, <1>3, <1>4 DEF OrderInv

\* The task looks for a hard reset of the partner.
LEMMA CheckOrder == ASSUME IInv, OrderInv, tc_event_check PROVE OrderInv'
  <1>1. /\ stage = "tc" /\ stage' = "pe" /\ queue' = queue /\ partner' = partner
        /\ prl' \in {prl, execute_hard_reset(prl, "PARTNER")}
    BY DEF tc_event_check, Execute, Goto
  <1>2. Less(prl, prl')
    BY <1>1, ExecuteLess DEF IInv, Less, Same, SameHistory
  <1> QED  BY <1>1, <1>2, LessStep

\* The policy engine runs: it sends, resets, or reports that it has reset.
LEMMA PeOrder == ASSUME IInv, OrderInv, PE PROVE OrderInv'
  <1>0. /\ Good(prl) /\ stage = "pe" /\ stage' = "rx" /\ queue' = queue
        /\ partner' = partner
    BY DEF IInv, PE, PeSend, PeIdle, PeHardReset, PeStartup, PeSoftReset,
           prl_hard_reset_complete, Goto, env
  <1>1. ASSUME Less(prl, prl') PROVE OrderInv'
    BY <1>0, <1>1, LessStep
  <1>2. ASSUME NEW kind \in PeKinds, NEW ams \in BOOLEAN, PeSend(kind, ams)
        PROVE  Less(prl, prl')
    <2> DEFINE t == prl_send(prl, kind)
    <2>1. prl' = [t EXCEPT !.local_ams = ams] /\ prl.sends < SENDS
      BY <1>2 DEF PeSend
    <2>2. kind \in {"data", "ext", "soft"} /\ prl.sends < SENDS + RECEIVES
      BY <1>0, <2>1, PrlAssumption DEF Good, Layer
    <2>3. Less(prl, t) /\ Good(t)
      BY <1>0, <2>2, SendLess, SendOk
    <2> HIDE DEF t
    <2>4. Less(t, prl')
      BY <2>1, <2>3 DEF Good, Layer, Fields, Less, Same, SameHistory, Pending
    <2> QED  BY <2>3, <2>4, LessTrans
  <1>3. ASSUME NEW ams \in BOOLEAN, PeIdle(ams) PROVE Less(prl, prl')
    <2>1. prl' = [prl EXCEPT !.local_ams = ams]
      BY <1>3 DEF PeIdle
    <2> QED  BY <1>0, <2>1 DEF Good, Layer, Fields, Less, Same, SameHistory, Pending
  <1>4. ASSUME PeHardReset \/ PeStartup \/ PeSoftReset PROVE Less(prl, prl')
    <2>1. prl' \in {prl, execute_hard_reset(prl, "PE")}
      BY <1>4 DEF PeHardReset, PeStartup, PeSoftReset, Execute
    <2> QED  BY <1>0, <2>1, ExecuteLess DEF Less, Same, SameHistory
  <1>5. ASSUME NEW startup \in BOOLEAN, prl_hard_reset_complete(startup)
        PROVE  Less(prl, prl')
    <2>1. prl' = [prl EXCEPT !.pe_reset = FALSE, !.hr_flags = @ \cup {"COMPLETE"}]
      BY <1>5 DEF prl_hard_reset_complete
    <2> QED  BY <1>0, <2>1 DEF Good, Layer, Fields, Less, Same, SameHistory, Pending
  <1> QED  BY <1>1, <1>2, <1>3, <1>4, <1>5 DEF PE

\* The layer starts anew: like a reset, it forgets the id and drops what waits.
LEMMA StartOrder ==
  ASSUME IInv, OrderInv, NEW anew \in BOOLEAN, prl_run_init(anew)
  PROVE  OrderInv'
  <1>1. /\ prl' = Started(prl, anew) /\ stage = "rx" /\ stage' = stage
        /\ queue' = queue /\ partner'.sends = partner.sends
        /\ partner'.last \in {partner.last, None}
    BY PartnerRestarts DEF IInv, QueueOK, prl_run_init
  <1> DEFINE t == Started(prl, anew)
             p == prl_init
  <1>2. /\ p.rx_id = -1 /\ ~p.rch_received /\ ~p.tch_received /\ p.rch = "WAIT"
        /\ ~p.tx_xmit /\ p.tx = "WAIT"
    BY DEF prl_init
  <1>3. /\ t.rx = prl.rx /\ t.passed = prl.passed
        /\ t.overwritten = prl.overwritten
        /\ t.era = NextEra(prl) /\ t.rx_era = prl.rx_era
        /\ \A f \in Fields \ {"sends", "phy", "rx", "passed", "overwritten", "era",
                              "rx_era", "clean", "apart"} : t[f] = p[f]
    BY StartedIs DEF IInv
  <1> HIDE DEF t, p
  <1>4. /\ t.rx_id = -1 /\ ~t.rch_received /\ ~t.tch_received /\ t.rch = "WAIT"
        /\ ~t.tx_xmit /\ t.tx = "WAIT"
    BY <1>2, <1>3 DEF Fields
  <1>5. Less(prl, t)
    BY <1>3, <1>4 DEF Less, Renewed, Forgets, Pending
  <1> QED  BY <1>1, <1>5, LessStep DEF t

\* A message is received.
LEMMA RxOrder ==
  ASSUME IInv, OrderInv, prl_rx_wait_for_phy_message
  PROVE  OrderInv'
  <1>0. /\ Good(prl) /\ QueueOK /\ stage = "rx" /\ stage' = "rch"
        /\ partner' = partner
    BY DEF IInv, prl_rx_wait_for_phy_message, Goto
  <1>1. CASE Busy(prl) \/ queue = <<>>
    <2>1. prl' = prl /\ queue' = queue
      BY <1>1 DEF prl_rx_wait_for_phy_message
    <2>2. QueueOrdered'
      BY <1>0, <2>1, QueueStays DEF OrderInv
    <2> QED  BY <1>0, <2>1, <2>2 DEF OrderInv, Stored, StageOrd
  <1>2. CASE ~(Busy(prl) \/ queue = <<>>)
    <2> DEFINE msg == queue[1]
    <2>1. prl' = Receive(prl, msg) /\ queue' = Tail(queue) /\ queue # <<>>
      BY <1>0, <1>2 DEF prl_rx_wait_for_phy_message, QueueOK
    <2>2. /\ msg \in Message /\ msg.num < CHUNKS
          /\ Len(queue) \in Nat /\ Len(queue') = Len(queue) - 1
          /\ Len(queue) > 0 /\ 1 \in 1 .. Len(queue)
          /\ \A i \in 1 .. Len(queue') :
               i + 1 \in 1 .. Len(queue) /\ queue'[i] = queue[i + 1]
      BY <1>0, <2>1 DEF QueueOK
    <2>3. /\ prl'.rx = msg /\ (~prl'.overwritten => ~prl.overwritten)
          /\ prl'.rx_id \in {-1, msg.id}
          /\ /\ Ord(prl) /\ Expected(prl, msg) /\ ~prl'.overwritten
             /\ ~prl.rch_received /\ ~(prl.tch = "WAIT" /\ prl.tch_received)
             => Ord(prl')
      BY <1>0, <2>1, <2>2, ReceiveOrd
    <2>4. QueueOrdered'
      <3>1. prl'.rx.n <= partner'.sends
        BY <1>0, <2>2, <2>3 DEF OrderInv, QueueOrdered
      <3>2. ASSUME NEW i \in 1 .. Len(queue')
            PROVE  /\ 1 <= queue'[i].n /\ queue'[i].n <= partner'.sends
                   /\ Precedes(prl'.rx, queue'[i])
        <4>1. i + 1 \in 1 .. Len(queue) /\ queue'[i] = queue[i + 1] /\ 1 < i + 1
          BY <2>2
        <4> QED  BY <1>0, <2>2, <2>3, <4>1 DEF OrderInv, QueueOrdered
      <3>3. ASSUME NEW i \in 1 .. Len(queue'), NEW j \in 1 .. Len(queue'), i < j
            PROVE  Precedes(queue'[i], queue'[j])
        <4>1. /\ i + 1 \in 1 .. Len(queue) /\ queue'[i] = queue[i + 1]
              /\ j + 1 \in 1 .. Len(queue) /\ queue'[j] = queue[j + 1]
              /\ i + 1 < j + 1
          BY <2>2, <3>3
        <4> QED  BY <4>1 DEF OrderInv, QueueOrdered
      <3>4. ASSUME partner'.last # None
            PROVE  /\ 1 <= partner'.last.n /\ partner'.last.n <= partner'.sends
                   /\ Precedes(prl'.rx, partner'.last)
                   /\ \A i \in 1 .. Len(queue') : Precedes(queue'[i], partner'.last)
        BY <1>0, <2>2, <2>3, <3>4 DEF OrderInv, QueueOrdered
      <3> QED  BY <3>1, <3>2, <3>3, <3>4 DEF QueueOrdered
    <2>5. ASSUME ~prl'.overwritten PROVE Ord(prl') /\ StageOrd' /\ Stored'
      <3>1. ~prl.overwritten /\ Ord(prl) /\ StageOrd /\ Stored
        BY <2>3, <2>5 DEF OrderInv
      <3>2. Precedes(prl.rx, msg)
        BY <2>2 DEF OrderInv, QueueOrdered
      <3>3. Expected(prl, msg)
        BY <3>1, <3>2 DEF Expected, Precedes, Stored, Ord, Sorted
      <3>4. ~prl.rch_received /\ ~(prl.tch = "WAIT" /\ prl.tch_received)
        BY <1>0, <1>2, <3>1 DEF StageOrd, Busy
      <3>5. Ord(prl')
        BY <2>3, <2>5, <3>1, <3>3, <3>4
      <3> QED  BY <1>0, <2>3, <3>5 DEF StageOrd, Stored
    <2> QED  BY <2>4, <2>5 DEF OrderInv
  <1> QED  BY <1>1, <1>2

\* The machines of the layer run.
LEMMA RunOrder == ASSUME IInv, OrderInv, prl_run PROVE OrderInv'
  <1>0. /\ Good(prl) /\ ResetsOK(prl) /\ queue' = queue /\ partner' = partner
    BY DEF IInv, HrOK, prl_run, env
  <1>1. ASSUME SameBuffer(prl, prl'),
               Ord(prl) /\ StageOrd /\ Stored => Ord(prl') /\ StageOrd' /\ Stored'
        PROVE  OrderInv'
    BY <1>0, <1>1, QueueStays DEF OrderInv, SameBuffer
  <1>2. CASE stage = "rch" /\ stage' = "tch" /\ prl' = rch_run(prl)
    <2>1. SameBuffer(prl, prl')
      BY <1>0, <1>2, RchRunOk DEF Ok, Follows
    <2>2. ASSUME Ord(prl), Stored PROVE Ord(prl') /\ StageOrd' /\ Stored'
      <3>1. Ord(prl') /\ Handled(prl, prl')
        BY <1>0, <1>2, <2>2, RchRunOrd
      <3>2. Stored'
        BY <2>2, <3>1 DEF Stored, Handled
      <3> QED  BY <1>2, <3>1, <3>2 DEF StageOrd, Handled
    <2> QED  BY <1>1, <1>2, <2>1, <2>2
  <1>3. CASE /\ \/ stage = "tch" /\ stage' = "tx"
                \/ stage = "tch_again" /\ stage' = "hr"
             /\ prl' = tch_run(prl)
    <2>1. SameBuffer(prl, prl')
      BY <1>0, <1>3, TchRunOk DEF Ok, Follows
    <2>2. ASSUME Ord(prl), StageOrd, Stored
          PROVE  Ord(prl') /\ StageOrd' /\ Stored'
      <3>1. prl.tch = "WAIT" /\ prl.rch = "WAIT" => ~prl.rch_received
        BY <1>3, <2>2 DEF StageOrd
      <3>2. Ord(prl') /\ Served(prl, prl')
        BY <1>0, <1>3, <2>2, <3>1, TchRunOrd
      <3>3. Stored'
        BY <2>2, <3>2, StoredStays DEF Served
      <3> QED  BY <1>3, <2>2, <3>2, <3>3 DEF StageOrd, Served
    <2> QED  BY <1>1, <1>3, <2>1, <2>2
  <1>4. CASE stage = "tx" /\ stage' = "tch_again" /\ prl' = prl_tx_run(prl)
    <2>1. SameBuffer(prl, prl')
      BY <1>0, <1>4, TxRunOk DEF Ok, Follows
    <2>2. ASSUME Ord(prl), StageOrd, Stored
          PROVE  Ord(prl') /\ StageOrd' /\ Stored'
      <3>1. Less(prl, prl') /\ prl'.tch = prl.tch
        BY <1>0, <1>4, <2>2, TxRunLess
      <3> QED
        BY <1>0, <1>4, <2>2, <3>1, LessOrd, LessStage, LessTracks, StoredStays
    <2> QED  BY <1>1, <1>4, <2>1, <2>2
  <1>5. CASE stage = "hr" /\ stage' = "tc" /\ prl' = prl_hr_run(prl)
    BY <1>0, <1>5, HrRunLess, LessStep
  <1> QED  BY <1>2, <1>3, <1>4, <1>5 DEF prl_run, Goto

-----------------------------------------------------------------------------
(* Timers, the PHY and the partner                                         *)

\* A timer expires; the port controller answers.
LEMMA ExpireOrder ==
  ASSUME IInv, OrderInv, NEW timer \in Timers, Expire(timer)
  PROVE  OrderInv'
  <1> DEFINE p == IF timer = "tx" THEN None ELSE prl.phy
             a == prl.apart \/ (timer = "tx" /\ CrossesReset)
  <1>1. /\ prl' = [prl EXCEPT !.expired = @ \cup {timer}, !.phy = p, !.apart = a]
        /\ stage' = stage /\ queue' = queue
        /\ partner' = partner \/ partner' = Delivered(prl.phy)
    BY DEF Expire
  <1> HIDE DEF p, a
  <1>2. Less(prl, prl') /\ prl'.tch = prl.tch
    BY <1>1 DEF IInv, Good, Layer, Fields, Less, Same, SameHistory, Pending
  <1>3. partner'.sends = partner.sends /\ partner'.last \in {partner.last, None}
    BY <1>1, DeliveredOk DEF IInv, QueueOK, Good, Layer
  <1> QED  BY <1>1, <1>2, <1>3, LessStep

LEMMA CompleteOrder ==
  ASSUME IInv, OrderInv, NEW status, pd_transmit_complete(status)
  PROVE  OrderInv'
  <1> DEFINE a == OutOfStep(status)
  <1>1. /\ prl' = [prl EXCEPT !.phy = None, !.xmit_status = status, !.apart = a]
        /\ stage' = stage /\ queue' = queue
        /\ partner' = partner \/ partner' = Delivered(prl.phy)
    BY DEF pd_transmit_complete
  <1> HIDE DEF a
  <1>2. Less(prl, prl') /\ prl'.tch = prl.tch
    BY <1>1 DEF IInv, Good, Layer, Fields, Less, Same, SameHistory, Pending
  <1>3. partner'.sends = partner.sends /\ partner'.last \in {partner.last, None}
    BY <1>1, DeliveredOk DEF IInv, QueueOK, Good, Layer
  <1> QED  BY <1>1, <1>2, <1>3, LessStep

\* The partner sends, or repeats its last message, or resets.
LEMMA ArriveOrder ==
  ASSUME IInv, OrderInv, NEW msg \in Message, Arrive(msg), stage' = stage,
         partner'.sends = partner.sends + 1, partner'.last = msg,
         1 <= msg.n, msg.n <= partner.sends + 1,
         Precedes(prl.rx, msg),
         \A i \in 1 .. Len(queue) : Precedes(queue[i], msg)
  PROVE  OrderInv'
  <1> DEFINE q == Append(queue, msg)
             failed == [prl EXCEPT !.phy = None, !.xmit_status = "FAILED"]
  <1>1. prl' \in {prl, failed} /\ queue' \in {queue, q}
    BY DEF Arrive
  <1>2. Less(prl, prl') /\ prl'.tch = prl.tch
    <2>1. Less(prl, failed) /\ failed.tch = prl.tch
      BY DEF IInv, Good, Layer, Fields, Less, Same, SameHistory, Pending
    <2> HIDE DEF failed
    <2> QED  BY <1>1, <2>1 DEF Less, Same, SameHistory
  <1>3. /\ Len(queue) \in Nat /\ Len(q) = Len(queue) + 1
        /\ \A i \in 1 .. Len(queue) : q[i] = queue[i]
        /\ q[Len(queue) + 1] = msg
    BY DEF IInv, QueueOK
  <1> HIDE DEF q, failed
  <1>4. partner.sends \in Nat /\ prl.rx.n \in Nat /\ msg.n \in Nat
    BY Counted, PrlAssumption DEF IInv, Good, Layer, QueueOK, Message
  <1>5. \A i \in 1 .. Len(queue) : queue[i].n \in Nat
    <2>1. \A i \in 1 .. Len(queue) : queue[i] \in Message
      BY DEF IInv, QueueOK
    <2> QED  BY <2>1, PrlAssumption DEF Message
  <1>6. QueueOrdered'
    <2>1. prl'.rx = prl.rx
      BY <1>2 DEF Less
    <2>2. CASE queue' = queue
      <3>1. /\ prl.rx.n <= partner.sends + 1
            /\ \A i \in 1 .. Len(queue) : queue[i].n <= partner.sends + 1
        BY <1>4, <1>5 DEF OrderInv, QueueOrdered
      <3> QED  BY <2>1, <2>2, <3>1 DEF OrderInv, QueueOrdered
    <2>3. CASE queue' = q
      <3>1. ASSUME NEW i \in 1 .. Len(q)
            PROVE  /\ 1 <= q[i].n /\ q[i].n <= partner.sends + 1
                   /\ Precedes(prl.rx, q[i])
        <4>1. CASE i = Len(queue) + 1
          BY <1>3, <4>1
        <4>2. CASE i \in 1 .. Len(queue)
          BY <1>3, <1>4, <1>5, <4>2 DEF OrderInv, QueueOrdered
        <4> QED  BY <1>3, <4>1, <4>2
      <3>2. ASSUME NEW i \in 1 .. Len(q), NEW j \in 1 .. Len(q), i < j
            PROVE  Precedes(q[i], q[j])
        <4>0. i \in 1 .. Len(queue)
          BY <1>3, <3>2
        <4>1. CASE j = Len(queue) + 1
          BY <1>3, <4>0, <4>1
        <4>2. CASE j \in 1 .. Len(queue)
          BY <1>3, <3>2, <4>0, <4>2 DEF OrderInv, QueueOrdered
        <4> QED  BY <1>3, <4>1, <4>2
      <3>3. prl.rx.n <= partner.sends + 1
        BY <1>4 DEF OrderInv, QueueOrdered
      <3>4. \A i \in 1 .. Len(q) : Precedes(q[i], msg)
        BY <1>3, <1>4 DEF Precedes
      <3> QED  BY <2>1, <2>3, <3>1, <3>2, <3>3, <3>4 DEF QueueOrdered
    <2> QED  BY <1>1, <2>2, <2>3
  <1>7. ASSUME ~prl'.overwritten PROVE Ord(prl') /\ StageOrd' /\ Stored'
    <2>1. Ord(prl) /\ StageOrd /\ Stored
      BY <1>2, <1>7 DEF OrderInv, Less
    <2> QED  BY <1>2, <2>1, LessOrd, LessStage, LessTracks, StoredStays
  <1> QED  BY <1>6, <1>7 DEF OrderInv

LEMMA SendOrder ==
  ASSUME IInv, OrderInv, NEW kind \in PartnerKinds, NEW num \in 0 .. CHUNKS - 1,
         PartnerSend(kind, num)
  PROVE  OrderInv'
  <1> DEFINE id == IF kind = "soft" THEN 0 ELSE partner.id
             n == partner.sends + 1
             msg == [kind |-> kind, n |-> n, num |-> num, id |-> id]
             i == (id + 1) % (PD_MESSAGE_ID_COUNT + 1)
             seen == IF kind = "soft" THEN -1 ELSE partner.seen
  <1>1. /\ partner.sends < RECEIVES /\ stage' = stage /\ Arrive(msg)
        /\ partner' = [partner EXCEPT !.id = i, !.sends = n, !.seen = seen,
                                      !.last = msg]
    BY DEF PartnerSend
  <1>2. partner.sends \in Nat /\ RECEIVES \in Nat /\ SENDS \in Nat /\ PartnerOK
    BY Counted DEF IInv, QueueOK
  <1>3. id \in 0 .. PD_MESSAGE_ID_COUNT
    BY <1>2, PrlAssumption DEF PartnerOK, Partner
  <1>4. n \in 0 .. SENDS + RECEIVES /\ num \in 0 .. CHUNKS
    BY <1>1, <1>2, PrlAssumption
  <1>5. msg \in Message /\ msg.n = n
    BY <1>3, <1>4, PrlAssumption DEF Message
  <1> HIDE DEF id, i, seen, msg
  <1>6. partner'.sends = n /\ partner'.last = msg
    BY <1>1, <1>2 DEF PartnerOK, Partner
  <1>7. prl.rx.n \in Nat /\ prl.rx.n <= partner.sends
    BY PrlAssumption DEF IInv, Good, Layer, Message, OrderInv, QueueOrdered
  <1>8. \A k \in 1 .. Len(queue) : queue[k].n \in Nat /\ queue[k].n <= partner.sends
    <2>1. \A k \in 1 .. Len(queue) : queue[k] \in Message
      BY DEF IInv, QueueOK
    <2> QED  BY <2>1, PrlAssumption DEF Message, OrderInv, QueueOrdered
  <1>9. /\ Precedes(prl.rx, msg) /\ 1 <= msg.n
        /\ msg.n <= partner.sends + 1
        /\ \A k \in 1 .. Len(queue) : Precedes(queue[k], msg)
    BY <1>2, <1>5, <1>7, <1>8 DEF Precedes
  <1> QED  BY <1>1, <1>5, <1>6, <1>9, ArriveOrder

LEMMA RetryOrder == ASSUME IInv, OrderInv, PartnerRetry PROVE OrderInv'
  <1> DEFINE msg == partner.last
             n == partner.sends + 1
  <1>1. /\ stage' = stage /\ Arrive(msg) /\ msg # None
        /\ partner' = [partner EXCEPT !.sends = n]
    BY DEF PartnerRetry
  <1>2. /\ partner.sends \in Nat /\ partner'.sends = n /\ partner'.last = msg
        /\ msg \in Message /\ msg.n \in Nat
    BY <1>1, Counted, PrlAssumption DEF IInv, QueueOK, PartnerOK, Partner, Message
  <1>3. /\ Precedes(prl.rx, msg) /\ 1 <= msg.n /\ msg.n <= partner.sends
        /\ \A k \in 1 .. Len(queue) : Precedes(queue[k], msg)
    BY <1>1 DEF OrderInv, QueueOrdered
  <1> HIDE DEF msg
  <1>4. msg.n <= partner.sends + 1
    BY <1>2, <1>3
  <1> QED  BY <1>1, <1>2, <1>3, <1>4, ArriveOrder

LEMMA ResetOrder == ASSUME IInv, OrderInv, PartnerHardReset PROVE OrderInv'
  <1>1. /\ prl' = [prl EXCEPT !.phy = None] /\ stage' = stage /\ queue' = queue
        /\ partner' = [partner EXCEPT !.id = 0, !.seen = -1, !.last = None]
    BY DEF PartnerHardReset
  <1>2. Less(prl, prl') /\ prl'.tch = prl.tch
    BY <1>1 DEF IInv, Good, Layer, Fields, Less, Same, SameHistory, Pending
  <1>3. partner'.sends = partner.sends /\ partner'.last \in {partner.last, None}
    BY <1>1, PartnerRestarts DEF IInv, QueueOK
  <1> QED  BY <1>1, <1>2, <1>3, LessStep

\* Every step.
LEMMA OrderStep == IInv /\ OrderInv /\ [Next]_vars => OrderInv'
  <1> SUFFICES ASSUME IInv, OrderInv, [Next]_vars PROVE OrderInv'
    OBVIOUS
  <1>1. CASE UNCHANGED vars
    <2>1. Less(prl, prl') /\ prl'.tch = prl.tch
      BY <1>1 DEF vars, Less, Same, SameHistory
    <2> QED  BY <1>1, <2>1, LessStep DEF vars
  <1>2. CASE pd_task
    BY <1>2, CheckOrder, PeOrder, StartOrder, RxOrder, RunOrder DEF pd_task
  <1> QED
    BY <1>1, <1>2, ExpireOrder, CompleteOrder, SendOrder, RetryOrder, ResetOrder
    DEF Next

\* The order of what was passed up, of what waits in rch or tch and of what the
\* partner has sent is kept by every step, resets and repetitions included.
THEOREM OrderInvariance == Spec => []OrderInv
  BY PrlInvariance, OrderInit, OrderStep, PTL DEF Spec

\* Theorem: however the partner repeats its messages and either side resets,
\* pe_message_received() passes messages up in the order of their transmission,
\* and one of them a second time only if it was received a second time after the
\* stored id was forgotten, unless one was written over another in rx_chk_buf.
\* prl_rx_wait_for_phy_message_run() drops by its id what it has received before;
\* a reset gives up what waits in rch and tch, but not what rch is PROCESSING.
THEOREM PassedInOrder == Spec => []InOrder
  <1>1. OrderInv => InOrder
    BY DEF OrderInv, Ord, Sorted, InOrder
  <1> QED  BY <1>1, OrderInvariance, PTL
=============================================================================
