--------------------------- MODULE PrlSendProofs ---------------------------
(***************************************************************************)
(* For any message kinds, bounds and number of chunks: the policy engine   *)
(* is told that a message was discarded only if it is not sent any more,   *)
(* and that it was sent only if the partner has received it.               *)
(*                                                                         *)
(* The invariant follows one message of the policy engine from its         *)
(* request to the report: which ids the two sides hold (Ids), how many     *)
(* messages were requested and answered (Numbers), and where the last one  *)
(* is and what the partner has got of it (Fate).  A layer that is started  *)
(* while its partner goes on is out of step (apart) unless its next id was *)
(* 0 already.  Most operators leave all of this alone: a lemma names the   *)
(* fields each one changes (Agree), and these compose.  What is left is    *)
(* what each step does with the message that is on its way.                *)
(***************************************************************************)
EXTENDS PrlProofs

\* No result of a transmission is left, and rch is at rest.
NoFlags(s) == ~s.tx_complete /\ ~s.tx_error
RchIdle(s) == s.rch = "WAIT" /\ ~s.rch_received

\* Agreement is transitive, and inherited by fewer fields.
LEMMA AgreeTrans ==
  ASSUME NEW s, NEW t, NEW u, NEW F, NEW G, Agree(s, t, F), Agree(t, u, G)
  PROVE  Agree(s, u, F \cap G)
  BY DEF Agree

LEMMA AgreeSub ==
  ASSUME NEW s, NEW t, NEW F, NEW G, Agree(s, t, F), G \subseteq F
  PROVE  Agree(s, t, G)
  BY DEF Agree

LEMMA AgreeJoin ==
  ASSUME NEW s, NEW t, NEW F, NEW G, NEW H, Agree(s, t, F), Agree(s, t, G),
         H \subseteq F \cup G
  PROVE  Agree(s, t, H)
  BY DEF Agree

\* What the state changes and entry functions leave alone, and what they set:
\* set_state() of prl_tx...
LEMMA SetTxAgrees ==
  ASSUME NEW s, Good(s), NEW state
  PROVE  LET t == SetTx(s, state) IN
         /\ Agree(s, t, Fields \ {"tx", "expired", "xmit_status"})
         /\ t.tx = state /\ "tx" \notin t.expired /\ t.expired \subseteq s.expired
  BY DEF Agree, Good, Layer, Fields, SetTx

\* ...PRL_TX_PHY_LAYER_RESET...
LEMMA PhyLayerResetAgrees ==
  ASSUME NEW s, Good(s)
  PROVE  LET t == prl_tx_phy_layer_reset(s) IN
         /\ Agree(s, t, Fields \ {"tx", "expired", "xmit_status", "rx_enabled"})
         /\ t.tx = "WAIT"
  <1> DEFINE t == SetTx(s, "WAIT")
  <1>1. Agree(s, t, Fields \ {"tx", "expired", "xmit_status"}) /\ t.tx = "WAIT"
        /\ DOMAIN t = Fields
    BY SetTxAgrees DEF Agree, Good, Layer
  <1> HIDE DEF t
  <1>2. /\ Agree(s, [t EXCEPT !.rx_enabled = TRUE],
                 Fields \ {"tx", "expired", "xmit_status", "rx_enabled"})
        /\ [t EXCEPT !.rx_enabled = TRUE].tx = "WAIT"
    BY <1>1 DEF Agree, Fields
  <1> QED  BY <1>2 DEF prl_tx_phy_layer_reset, t

\* ...RCH_WAIT_FOR_MESSAGE_FROM_PROTOCOL_LAYER...
LEMMA EnterRchAgrees ==
  ASSUME NEW s, Good(s)
  PROVE  LET t == EnterRchWait(s) IN
         /\ Agree(s, t, Fields \ {"rch", "rch_received", "rch_chunking", "expired"})
         /\ t.rch = "WAIT" /\ ~t.rch_received
  BY DEF Agree, Good, Layer, Fields, EnterRchWait

\* ...TCH_WAIT_FOR_MESSAGE_REQUEST_FROM_PE...
LEMMA EnterTchAgrees ==
  ASSUME NEW s, Good(s)
  PROVE  LET t == EnterTchWait(s) IN
         /\ Agree(s, t, Fields \ {"tch", "tch_received", "tch_xmit", "tch_chunking",
                                  "expired"})
         /\ t.tch = "WAIT" /\ ~t.tch_xmit /\ ~t.tch_received
  BY DEF Agree, Good, Layer, Fields, EnterTchWait

\* The fields of rch and of tch.
RchFields == {"rch", "rch_received", "rch_chunking", "expired"}
TchFields == {"tch", "tch_received", "tch_xmit", "tch_chunking", "expired"}
TxFields == {"tx", "expired", "xmit_status", "rx_enabled"}

\* ...the two from outside...
LEMMA ToWaitAgrees ==
  ASSUME NEW s, Good(s)
  PROVE  Agree(s, ToWait(s), Fields \ (RchFields \cup TchFields))
  <1> DEFINE r == IF s.rch = "WAIT" THEN s ELSE EnterRchWait(s)
  <1>1. Good(r) /\ Agree(s, r, Fields \ RchFields)
    BY EnterRchAgrees, EnterRchWaitOk DEF Ok, Agree, RchFields
  <1>2. ToWait(s) = IF s.tch = "WAIT" THEN r ELSE EnterTchWait(r)
    BY DEF ToWait
  <1> HIDE DEF r
  <1>3. Agree(r, ToWait(s), Fields \ TchFields)
    BY <1>1, <1>2, EnterTchAgrees DEF Agree, TchFields
  <1> QED  BY <1>1, <1>3 DEF Agree

\* What a hard reset leaves alone, and what it does to the fields of the ids.
Untouched == {"tx_xmit", "last_hard", "phy", "out", "sends", "answers"}

\* ...PRL_HR_RESET_LAYER...
LEMMA ResetLayerAgrees ==
  ASSUME NEW s, Good(s)
  PROVE  LET t == prl_hr_reset_layer(s) IN
         /\ Agree(s, t, Untouched \cup {"hr_flags", "clean", "apart"})
         /\ s.hr # "RESET_LAYER" => t.tx = "WAIT" /\ t.id = 0 /\ t.unheard = 0
         /\ s.hr = "RESET_LAYER" => t = s
  <1> DEFINE left == IF s.hr = "PE" THEN ToWait(prl_tx_phy_layer_reset(s)) ELSE s
             acc == IF s.rch = "PROCESSING" THEN left.accepted ELSE {}
             e == NextEra(s)
             u == [left EXCEPT
                     !.hr = "RESET_LAYER",
                     !.tch_received = FALSE, !.tch_xmit = FALSE,
                     !.tch_chunking = FALSE,
                     !.rch_received = FALSE, !.rch_chunking = FALSE,
                     !.tx_complete = FALSE, !.tx_error = FALSE,
                     !.id = 0, !.rx_id = -1, !.rx_enabled = FALSE,
                     !.accepted = acc, !.era = e, !.unheard = 0,
                     !.expired = @ \ {"hr"}]
  <1>1. Good(left) /\ Agree(s, left, Untouched \cup {"hr_flags", "clean", "apart"})
    <2> DEFINE p == prl_tx_phy_layer_reset(s)
    <2>1. Good(p) /\ Agree(s, p, Fields \ TxFields)
      BY PhyLayerResetAgrees, PhyLayerResetOk DEF Ok, TxFields
    <2>2. Good(ToWait(p)) /\ Agree(p, ToWait(p), Fields \ (RchFields \cup TchFields))
      BY <2>1, ToWaitAgrees, ToWaitOk DEF Ok
    <2> HIDE DEF p
    <2>3. Agree(s, ToWait(p), Untouched \cup {"hr_flags", "clean", "apart"})
      BY <2>1, <2>2 DEF Agree, Untouched, RchFields, TchFields, TxFields, Fields
    <2>4. Agree(s, s, Untouched \cup {"hr_flags", "clean", "apart"})
      BY DEF Agree
    <2> QED  BY <2>2, <2>3, <2>4 DEF p
  <1>2. prl_hr_reset_layer(s) = IF s.hr = "RESET_LAYER" THEN s ELSE ResetTx(u)
    BY DEF prl_hr_reset_layer
  <1> HIDE DEF left, acc, e
  <1>3. Good(u)
    BY <1>1, ResetFieldsGood
  <1>4. /\ Agree(s, u, Untouched \cup {"hr_flags", "clean", "apart"})
        /\ u.id = 0 /\ u.unheard = 0
    <2>1. DOMAIN left = Fields
      BY <1>1 DEF Good, Layer
    <2>2. u.id = 0 /\ u.unheard = 0
      BY <2>1 DEF Fields
    <2>3. /\ DOMAIN u = Fields /\ u.tx_xmit = left.tx_xmit
          /\ u.last_hard = left.last_hard /\ u.phy = left.phy /\ u.out = left.out
          /\ u.sends = left.sends /\ u.answers = left.answers
          /\ u.hr_flags = left.hr_flags /\ u.clean = left.clean
          /\ u.apart = left.apart
      BY <2>1 DEF Fields
    <2>4. Agree(left, u, Untouched \cup {"hr_flags", "clean", "apart"})
      BY <2>1, <2>3 DEF Agree, Untouched
    <2> QED  BY <1>1, <2>2, <2>4 DEF Agree
  <1> HIDE DEF u
  <1>5. /\ Agree(u, ResetTx(u), Fields \ {"tx", "expired", "xmit_status"})
        /\ ResetTx(u).tx = "WAIT"
    BY <1>3, SetTxAgrees DEF ResetTx
  <1>6. /\ Agree(s, ResetTx(u), Untouched \cup {"hr_flags", "clean", "apart"})
        /\ ResetTx(u).id = 0 /\ ResetTx(u).unheard = 0
    BY <1>4, <1>5 DEF Agree, Fields, Untouched
  <1>7. Agree(s, s, Untouched \cup {"hr_flags", "clean", "apart"})
    BY DEF Agree
  <1> QED  BY <1>2, <1>5, <1>6, <1>7

\* ...and the start of a hard reset, after which nothing is clean.
LEMMA ExecuteAgrees ==
  ASSUME NEW s, Good(s), NEW who \in {"PE", "PARTNER"}
  PROVE  LET t == execute_hard_reset(s, who) IN
         /\ Agree(s, t, Untouched) /\ ~t.clean /\ t.apart = (who = "PE")
         /\ t.hr_flags = s.hr_flags \cup {who}
         /\ s.hr # "RESET_LAYER" => t.tx = "WAIT" /\ t.id = 0 /\ t.unheard = 0
         /\ s.hr = "RESET_LAYER" =>
              /\ t.tx = s.tx /\ t.id = s.id /\ t.unheard = s.unheard
              /\ t.xmit_status = s.xmit_status
  <1> DEFINE f == s.hr_flags \cup {who}
             q == s.rch = "WAIT" /\ s.tch = "WAIT" /\ ~s.tx_xmit
             p == who = "PE"
             t == [s EXCEPT !.hr_flags = f, !.owed = None,
                     !.pe_reset = FALSE, !.local_ams = FALSE,
                     !.hard_requested = FALSE, !.clean = FALSE,
                     !.unhindered = q, !.apart = p]
  <1>1. execute_hard_reset(s, who) = prl_hr_reset_layer(t)
    BY DEF execute_hard_reset
  <1>2. f \subseteq {"PE", "PARTNER", "COMPLETE"}
    BY DEF Good, Layer
  <1> HIDE DEF f, q, p
  <1>3. Good(t)
    BY <1>2, NoneTyped DEF Good, Layer, Fields, ChunksOK
  <1>4. /\ Agree(s, t, Untouched \cup {"tx", "id", "unheard", "xmit_status", "hr"})
        /\ ~t.clean /\ t.apart = p /\ t.hr_flags = f
    BY DEF Agree, Good, Layer, Fields, Untouched
  <1> HIDE DEF t
  <1>5. LET v == prl_hr_reset_layer(t) IN
         /\ Agree(t, v, Untouched \cup {"hr_flags", "clean", "apart"})
         /\ t.hr # "RESET_LAYER" => v.tx = "WAIT" /\ v.id = 0 /\ v.unheard = 0
         /\ t.hr = "RESET_LAYER" => v = t
    BY <1>3, ResetLayerAgrees
  <1> QED  BY <1>1, <1>4, <1>5 DEF Agree, f, p

-----------------------------------------------------------------------------
\* The answers to the policy engine.
AnswersAfter(s, a) == IF s.hr = "WAIT" THEN Append(s.answers, a) ELSE s.answers

\* Any answer, a discard, a message passed up.
LEMMA AnswerAgrees ==
  ASSUME NEW s, Good(s), NEW a
  PROVE  LET t == Answer(s, a) IN
         /\ Agree(s, t, Fields \ {"owed", "answers"})
         /\ t.owed = None /\ t.answers = AnswersAfter(s, a)
  BY DEF Agree, Good, Layer, Fields, Answer, AnswersAfter

LEMMA DiscardAgrees ==
  ASSUME NEW s, Good(s)
  PROVE  LET t == pe_report_discard(s) IN
         /\ Agree(s, t, Fields \ {"owed", "answers", "local_ams"})
         /\ t.owed = None
         /\ t.answers = IF s.owed = None THEN s.answers ELSE AnswersAfter(s, "discard")
  <1> DEFINE a == IF s.owed = None THEN s ELSE Answer(s, "discard")
             t == [a EXCEPT !.local_ams = FALSE]
  <1>1. /\ Agree(s, a, Fields \ {"owed", "answers"}) /\ DOMAIN a = Fields
        /\ a.owed = None
        /\ a.answers = IF s.owed = None THEN s.answers ELSE AnswersAfter(s, "discard")
    BY AnswerAgrees DEF Agree, Good, Layer
  <1> HIDE DEF a
  <1>2. /\ Agree(s, t, Fields \ {"owed", "answers", "local_ams"})
        /\ t.owed = a.owed /\ t.answers = a.answers
    BY <1>1 DEF Agree, Fields
  <1> QED  BY <1>1, <1>2 DEF pe_report_discard, a

LEMMA ReceivedAgrees ==
  ASSUME NEW s, Good(s)
  PROVE  Agree(s, pe_message_received(s), Fields \ {"passed", "accepted", "heard"})
  BY DEF Agree, Good, Layer, Fields, pe_message_received

\* A request to transmit is taken up.
LEMMA ClearXmitAgrees ==
  ASSUME NEW s, Good(s)
  PROVE  Agree(s, ClearXmit(s), Fields \ {"tx_xmit"}) /\ ~ClearXmit(s).tx_xmit
  BY DEF Agree, Good, Layer, Fields, ClearXmit

\* The id is not used, or it is the turn of the next one.
IdKept(s, t) == t.id = s.id /\ t.unheard = s.unheard
IdNext(s, t) ==
  /\ ~s.last_hard
  /\ t.id = (s.id + 1) % (PD_MESSAGE_ID_COUNT + 1)
  /\ t.unheard = IF s.unheard < PD_MESSAGE_ID_COUNT THEN s.unheard + 1 ELSE s.unheard

\* increment_msgid_counter() and PRL_TX_DISCARD_MESSAGE.
LEMMA IncrementIds ==
  ASSUME NEW s, Good(s)
  PROVE  LET t == increment_msgid_counter(s) IN
         IF s.last_hard THEN t = s ELSE IdNext(s, t)
  BY DEF Good, Layer, Fields, increment_msgid_counter, IdNext

LEMMA TxDiscardAgrees ==
  ASSUME NEW s, Good(s)
  PROVE  LET t == prl_tx_discard_message(s) IN
         /\ Agree(s, t, Fields \ (TxFields \cup {"tx_xmit", "owed", "answers",
                                                 "local_ams", "id", "unheard"}))
         /\ t.tx = "WAIT" /\ ~t.tx_xmit
         /\ ~s.tx_xmit => Agree(s, t, Fields \ (TxFields \cup {"tx_xmit"}))
         /\ s.tx_xmit =>
              /\ t.owed = None
              /\ t.answers = IF s.owed = None THEN s.answers
                             ELSE AnswersAfter(s, "discard")
         /\ IdKept(s, t) \/ IdNext(s, t)
         /\ s.last_hard => IdKept(s, t)
         /\ s.tx_xmit /\ ~s.last_hard => IdNext(s, t)
  <1> DEFINE c == ClearXmit(s)
             i == increment_msgid_counter(c)
             d == pe_report_discard(i)
             t == IF s.tx_xmit THEN d ELSE s
             p == prl_tx_phy_layer_reset(t)
  <1>1. Good(c) /\ Agree(s, c, Fields \ {"tx_xmit"}) /\ ~c.tx_xmit
    BY ClearXmitOk, ClearXmitAgrees DEF Ok
  <1> HIDE DEF c
  <1>2. Good(i) /\ Agree(c, i, Fields \ {"id", "unheard"})
        /\ IF c.last_hard THEN i = c ELSE IdNext(c, i)
    BY <1>1, IncrementOk, IncrementAgrees, IncrementIds DEF Ok
  <1> HIDE DEF i
  <1>3. /\ Good(d) /\ Agree(i, d, Fields \ {"owed", "answers", "local_ams"})
        /\ d.owed = None
        /\ d.answers = IF i.owed = None THEN i.answers ELSE AnswersAfter(i, "discard")
    BY <1>2, DiscardOk, DiscardAgrees DEF Ok
  <1> HIDE DEF d
  <1>4. /\ Agree(s, d, Fields \ {"tx_xmit", "owed", "answers", "local_ams", "id",
                                 "unheard"})
        /\ ~d.tx_xmit
        /\ d.answers = IF s.owed = None THEN s.answers ELSE AnswersAfter(s, "discard")
        /\ IF s.last_hard THEN IdKept(s, d) ELSE IdNext(s, d)
    BY <1>1, <1>2, <1>3 DEF Agree, Fields, AnswersAfter, IdKept, IdNext
  <1>5. /\ Good(t) /\ ~t.tx_xmit
        /\ Agree(s, t, Fields \ {"tx_xmit", "owed", "answers", "local_ams", "id",
                                 "unheard"})
        /\ IdKept(s, t) \/ IdNext(s, t)
        /\ s.last_hard => IdKept(s, t)
        /\ s.tx_xmit => t = d
        /\ ~s.tx_xmit => t = s
    BY <1>3, <1>4 DEF Agree, IdKept
  <1> HIDE DEF t
  <1>6. Agree(t, p, Fields \ TxFields) /\ p.tx = "WAIT"
    BY <1>5, PhyLayerResetAgrees DEF TxFields
  <1>7. prl_tx_discard_message(s) = p
    BY DEF prl_tx_discard_message, t, d, i, c
  <1> HIDE DEF p
  <1>8. /\ Agree(s, p, Fields \ (TxFields \cup {"tx_xmit", "owed", "answers",
                                                 "local_ams", "id", "unheard"}))
        /\ ~p.tx_xmit
    BY <1>5, <1>6 DEF Agree, Fields, TxFields
  <1>9. ~s.tx_xmit => Agree(s, p, Fields \ (TxFields \cup {"tx_xmit"}))
    BY <1>5, <1>6 DEF Agree
  <1>10. s.tx_xmit => /\ p.owed = None
                      /\ p.answers = IF s.owed = None THEN s.answers
                                     ELSE AnswersAfter(s, "discard")
    BY <1>3, <1>4, <1>5, <1>6 DEF Agree, Fields, TxFields
  <1>11. p.id = t.id /\ p.unheard = t.unheard
    BY <1>6 DEF Agree, Fields, TxFields
  <1>12. /\ IdKept(s, p) \/ IdNext(s, p)
         /\ s.last_hard => IdKept(s, p)
         /\ s.tx_xmit /\ ~s.last_hard => IdNext(s, p)
    BY <1>4, <1>5, <1>11 DEF IdKept, IdNext
  <1> QED  BY <1>6, <1>7, <1>8, <1>9, <1>10, <1>12

\* What prl_tx hands to the PHY.
LEMMA ConstructAgrees ==
  ASSUME NEW s, Good(s)
  PROVE  LET t == prl_tx_construct_message(s) IN
         /\ Agree(s, t, Fields \ {"tx", "expired", "xmit_status", "last_hard",
                                  "tx_complete", "phy", "hard_requested", "apart"})
         /\ t.tx = "WAIT_PHY" /\ t.xmit_status = "UNSET" /\ "tx" \notin t.expired
         /\ ~t.tx_complete /\ t.phy = [s.out EXCEPT !.id = s.id]
         /\ t.last_hard = (s.out.kind = "hard")
         /\ t.apart = (s.apart \/ s.unheard = PD_MESSAGE_ID_COUNT)
  <1> DEFINE w == SetTx(s, "WAIT_PHY")
             m == [s.out EXCEPT !.id = s.id]
             h == w.hard_requested \/ s.out.kind = "hard"
             l == s.out.kind = "hard"
             a == w.apart \/ s.unheard = PD_MESSAGE_ID_COUNT
             t == [w EXCEPT !.last_hard = l, !.xmit_status = "UNSET",
                       !.tx_complete = FALSE, !.phy = m, !.hard_requested = h,
                       !.apart = a]
  <1>1. /\ Agree(s, w, Fields \ {"tx", "expired", "xmit_status"}) /\ w.tx = "WAIT_PHY"
        /\ "tx" \notin w.expired /\ DOMAIN w = Fields
    BY SetTxAgrees DEF Agree, Good, Layer
  <1>2. prl_tx_construct_message(s) = t
    BY DEF prl_tx_construct_message
  <1>3. a = (s.apart \/ s.unheard = PD_MESSAGE_ID_COUNT)
    BY <1>1 DEF Agree, Fields
  <1> HIDE DEF w, m, h, l, a
  <1>4. Agree(w, t, Fields \ {"last_hard", "xmit_status", "tx_complete", "phy",
                              "hard_requested", "apart"})
    BY <1>1 DEF Agree
  <1>5. /\ t.tx = "WAIT_PHY" /\ t.xmit_status = "UNSET" /\ "tx" \notin t.expired
        /\ ~t.tx_complete /\ t.phy = m /\ t.last_hard = l /\ t.apart = a
    BY <1>1 DEF Fields
  <1>6. Agree(s, t, Fields \ {"tx", "expired", "xmit_status", "last_hard",
                              "tx_complete", "phy", "hard_requested", "apart"})
    BY <1>1, <1>4 DEF Agree
  <1> QED  BY <1>2, <1>3, <1>5, <1>6 DEF m, l

\* A pending message goes to the PHY, a Soft_Reset by way of the reset of the ids.
LEMMA TransmitAgrees ==
  ASSUME NEW s, Good(s)
  PROVE  LET t == Transmit(s) IN
         /\ Agree(s, t, Fields \ {"tx_xmit", "tx", "expired", "xmit_status",
                                  "last_hard", "tx_complete", "phy", "hard_requested",
                                  "apart", "id", "rx_id", "era", "unheard"})
         /\ ~t.tx_xmit
         /\ s.out.kind = "soft" =>
              /\ Agree(s, t, {"phy", "tx_complete", "last_hard"})
              /\ t.tx = "LAYER_RESET" /\ t.id = 0 /\ t.unheard = 0 /\ t.apart
         /\ s.out.kind # "soft" =>
              /\ Agree(s, t, {"id", "unheard"})
              /\ t.tx = "WAIT_PHY" /\ t.xmit_status = "UNSET" /\ "tx" \notin t.expired
              /\ ~t.tx_complete /\ t.phy = [s.out EXCEPT !.id = s.id]
              /\ t.last_hard = (s.out.kind = "hard")
              /\ t.apart = (s.apart \/ s.unheard = PD_MESSAGE_ID_COUNT)
  <1> DEFINE c == ClearXmit(s)
             w == SetTx(c, "LAYER_RESET")
             e == NextEra(s)
             u == [w EXCEPT !.id = 0, !.rx_id = -1, !.era = e,
                            !.unheard = 0, !.apart = TRUE]
             x == prl_tx_construct_message(c)
  <1>1. Good(c) /\ Agree(s, c, Fields \ {"tx_xmit"}) /\ ~c.tx_xmit
    BY ClearXmitOk, ClearXmitAgrees DEF Ok
  <1>2. Transmit(s) = IF s.out.kind = "soft" THEN u ELSE x
    BY DEF Transmit
  <1> HIDE DEF c, e
  <1>3. /\ Agree(c, w, Fields \ {"tx", "expired", "xmit_status"})
        /\ w.tx = "LAYER_RESET" /\ DOMAIN w = Fields
    BY <1>1, SetTxAgrees DEF Agree, Good, Layer
  <1> HIDE DEF w
  <1>4. /\ Agree(w, u, Fields \ {"id", "rx_id", "era", "unheard", "apart"})
        /\ u.id = 0 /\ u.unheard = 0 /\ u.apart
    BY <1>3 DEF Agree, Fields
  <1> HIDE DEF u
  <1>5. /\ Agree(s, u, Fields \ {"tx_xmit", "tx", "expired", "xmit_status",
                                 "id", "rx_id", "era", "unheard", "apart"})
        /\ ~u.tx_xmit /\ u.tx = "LAYER_RESET"
    BY <1>1, <1>3, <1>4 DEF Agree, Fields
  <1>6. /\ Agree(c, x, Fields \ {"tx", "expired", "xmit_status", "last_hard",
                                 "tx_complete", "phy", "hard_requested", "apart"})
        /\ x.tx = "WAIT_PHY" /\ x.xmit_status = "UNSET" /\ "tx" \notin x.expired
        /\ ~x.tx_complete /\ x.phy = [c.out EXCEPT !.id = c.id]
        /\ x.last_hard = (c.out.kind = "hard")
        /\ x.apart = (c.apart \/ c.unheard = PD_MESSAGE_ID_COUNT)
    BY <1>1, ConstructAgrees
  <1> HIDE DEF x
  <1>7. /\ c.out = s.out /\ c.id = s.id /\ c.apart = s.apart /\ c.unheard = s.unheard
    BY <1>1 DEF Agree, Fields
  <1>8. /\ Agree(s, x, Fields \ {"tx_xmit", "tx", "expired", "xmit_status",
                                 "last_hard", "tx_complete", "phy",
                                 "hard_requested", "apart"})
        /\ ~x.tx_xmit
    BY <1>1, <1>6 DEF Agree, Fields
  <1>9. CASE s.out.kind = "soft"
    <2>1. Transmit(s) = u
      BY <1>2, <1>9
    <2> QED  BY <1>4, <1>5, <1>9, <2>1 DEF Agree, Fields
  <1>10. CASE s.out.kind # "soft"
    <2>1. Transmit(s) = x
      BY <1>2, <1>10
    <2>2. Agree(s, x, Fields \ {"tx_xmit", "tx", "expired", "xmit_status",
                                  "last_hard", "tx_complete", "phy", "hard_requested",
                                  "apart", "id", "rx_id", "era", "unheard"})
          /\ Agree(s, x, {"id", "unheard"})
      BY <1>8 DEF Agree, Fields
    <2> QED  BY <1>6, <1>7, <1>8, <1>10, <2>1, <2>2
  <1> QED  BY <1>9, <1>10

-----------------------------------------------------------------------------
\* A layer in which an error of its own has just started a hard reset.
Restart(s, t) ==
  /\ ~t.clean /\ t.apart /\ t.tx = "WAIT" /\ t.hr_flags = {"PE"}
  /\ Agree(s, t, {"phy", "sends"}) /\ t.out.n = s.out.n

\* The hard reset that a failed Soft_Reset starts at once.
LEMMA RestartAgrees ==
  ASSUME NEW s, Good(s), s.hr = "WAIT", s.hr_flags = {}
  PROVE  Restart(s, execute_hard_reset(s, "PE"))
  <1> DEFINE t == execute_hard_reset(s, "PE")
  <1>1. /\ Agree(s, t, Untouched) /\ ~t.clean /\ t.apart = TRUE
        /\ t.hr_flags = s.hr_flags \cup {"PE"} /\ t.tx = "WAIT"
    BY ExecuteAgrees
  <1> HIDE DEF t
  <1>2. Restart(s, t)
    BY <1>1 DEF Restart, Agree, Untouched
  <1> QED  BY <1>2 DEF t

\* What rch leaves of the layer when it reports an error.
ErrorFields == {"rch", "rch_received", "expired", "accepted", "passed", "heard"}

\* RCH_REPORT_ERROR.
LEMMA RchErrorAgrees ==
  ASSUME NEW s, Good(s), ResetsOK(s)
  PROVE  LET t == rch_report_error(s) IN
         \/ Restart(s, t)
         \/ Agree(s, t, Fields \ ErrorFields) /\ t.rch = "ERROR"
  <1> DEFINE r == [s EXCEPT !.rch_received = FALSE]
             p == pe_message_received(r)
             a == [s EXCEPT !.accepted = @ \ {s.rx.n}]
             told == IF s.rch_received THEN p ELSE IF s.tch_received THEN s ELSE a
             x == told.expired \ {"rch"}
             e == [told EXCEPT !.rch = "ERROR", !.heard = TRUE, !.expired = x]
  <1>1. Good(r) /\ Agree(s, r, Fields \ {"rch_received"})
    BY DEF Good, Layer, Fields, ChunksOK, Agree
  <1> HIDE DEF r
  <1>2. Good(p) /\ Agree(s, p, Fields \ ErrorFields)
    <2>1. Good(p) /\ Agree(r, p, Fields \ {"passed", "accepted", "heard"})
      BY <1>1, ReceivedOk, ReceivedAgrees DEF Ok
    <2> HIDE DEF p
    <2> QED  BY <1>1, <2>1 DEF Agree, ErrorFields
  <1>3. Good(a) /\ Agree(s, a, Fields \ ErrorFields)
    BY DEF Good, Layer, Fields, ChunksOK, Agree, ErrorFields
  <1>4. Agree(s, s, Fields \ ErrorFields)
    BY DEF Agree
  <1> HIDE DEF p, a
  <1>5. Good(told) /\ Agree(s, told, Fields \ ErrorFields)
    BY <1>2, <1>3, <1>4
  <1>6. rch_report_error(s) = IF s.owed.kind = "soft"
                              THEN execute_hard_reset(e, "PE") ELSE e
    BY DEF rch_report_error, told, p, r, a
  <1> HIDE DEF told
  <1>7. x \subseteq Timers
    BY <1>5 DEF Good, Layer
  <1> HIDE DEF x
  <1>8. Good(e) /\ e.rch = "ERROR" /\ Agree(told, e, Fields \ {"rch", "heard", "expired"})
    <2>1. Good(e)
      BY <1>5, <1>7 DEF Good, Layer, Fields, ChunksOK
    <2>2. e.rch = "ERROR" /\ Agree(told, e, Fields \ {"rch", "heard", "expired"})
      BY <1>5 DEF Good, Layer, Fields, Agree
    <2> QED  BY <2>1, <2>2
  <1> HIDE DEF e
  <1>9. Agree(s, e, Fields \ ErrorFields)
    BY <1>5, <1>8 DEF Agree, ErrorFields
  <1>10. ASSUME s.owed.kind = "soft" PROVE Restart(s, execute_hard_reset(e, "PE"))
    <2>1. e.hr = "WAIT" /\ e.hr_flags = {} /\ Agree(s, e, {"phy", "sends", "out"})
      BY <1>9, <1>10 DEF ResetsOK, Agree, Fields, ErrorFields
    <2>2. Restart(e, execute_hard_reset(e, "PE"))
      BY <1>8, <2>1, RestartAgrees
    <2> QED  BY <2>1, <2>2 DEF Restart, Agree
  <1> QED  BY <1>6, <1>8, <1>9, <1>10

\* What rch leaves alone, whatever it does.
RchKept ==
  {"phy", "tx", "xmit_status", "last_hard", "id", "unheard", "apart", "hr",
   "hr_flags", "clean", "owed", "answers", "sends", "tch", "tch_xmit",
   "tch_received", "tx_error"}

\* What rch may do for as long as it starts no hard reset: it may take the result
\* of a transmission, and hand a request for a chunk to prl_tx.
RchMoves(s, t) ==
  /\ Agree(s, t, RchKept)
  /\ t.tx_complete => s.tx_complete
  /\ \/ t.out = s.out /\ t.tx_xmit = s.tx_xmit
     \/ /\ t.rch = "REQUESTING" /\ t.tx_xmit
        /\ t.out.kind = "request" /\ t.out.n = 0
  /\ t.rch = "WAIT" => ~t.rch_received

\* What leaves all other fields alone is such a step.
LEMMA RchMovesOf ==
  ASSUME NEW s, NEW t, Good(s),
         Agree(s, t, Fields \ (ErrorFields \cup {"rch_chunking",
                                                   "chunk_number_expected"})),
         t.rch = "WAIT" => ~t.rch_received
  PROVE  RchMoves(s, t)
  BY DEF RchMoves, Agree, Fields, RchKept, ErrorFields

\* Every state of rch.
LEMMA RchRunAgrees ==
  ASSUME NEW s, Good(s), ResetsOK(s)
  PROVE  Restart(s, rch_run(s)) \/ RchMoves(s, rch_run(s))
  <1> DEFINE F == Fields \ (ErrorFields \cup {"rch_chunking", "chunk_number_expected"})
  <1>1. ASSUME NEW u, Good(u), ResetsOK(u), Agree(s, u, F)
        PROVE  Restart(s, rch_report_error(u)) \/ RchMoves(s, rch_report_error(u))
    <2> DEFINE t == rch_report_error(u)
    <2>1. Restart(u, t) \/ (Agree(u, t, Fields \ ErrorFields) /\ t.rch = "ERROR")
      BY <1>1, RchErrorAgrees
    <2> HIDE DEF t
    <2>2. ASSUME Restart(u, t) PROVE Restart(s, t)
      BY <1>1, <2>2 DEF Restart, Agree, Fields, ErrorFields
    <2>3. ASSUME Agree(u, t, Fields \ ErrorFields), t.rch = "ERROR"
          PROVE  RchMoves(s, t)
      <3>1. Agree(s, t, F)
        BY <1>1, <2>3 DEF Agree
      <3>2. t.rch = "WAIT" => ~t.rch_received
        BY <2>3
      <3> QED  BY <3>1, <3>2, RchMovesOf
    <2> QED  BY <2>1, <2>2, <2>3 DEF t
  <1>2. ASSUME NEW u, Good(u), Agree(s, u, F)
        PROVE  RchMoves(s, rch_pass_up_message(u))
    <2> DEFINE p == pe_message_received(u)
               t == EnterRchWait(p)
    <2>1. Good(p) /\ Agree(u, p, Fields \ {"passed", "accepted", "heard"})
      BY <1>2, ReceivedOk, ReceivedAgrees DEF Ok
    <2> HIDE DEF p
    <2>2. Agree(p, t, Fields \ {"rch", "rch_received", "rch_chunking", "expired"})
          /\ t.rch = "WAIT" /\ ~t.rch_received
      BY <2>1, EnterRchAgrees
    <2> HIDE DEF t
    <2>3. Agree(s, t, F)
      BY <1>2, <2>1, <2>2 DEF Agree, ErrorFields
    <2>4. RchMoves(s, t)
      BY <2>2, <2>3, RchMovesOf
    <2> QED  BY <2>4 DEF rch_pass_up_message, t, p
  <1>3. CASE s.rch = "WAIT"
    <2> DEFINE r == [s EXCEPT !.rch_received = FALSE]
               q == [r EXCEPT !.rch = "PROCESSING", !.chunk_number_expected = 0]
    <2>1. Good(r) /\ ResetsOK(r) /\ Agree(s, r, F)
      BY DEF Good, Layer, Fields, ChunksOK, ResetsOK, Agree, ErrorFields
    <2> HIDE DEF r
    <2>2. Agree(s, q, F) /\ q.rch = "PROCESSING"
      <3>1. DOMAIN r = Fields
        BY <2>1 DEF Good, Layer
      <3>2. Agree(r, q, Fields \ {"rch", "chunk_number_expected"})
            /\ q.rch = "PROCESSING"
        BY <3>1 DEF Agree, Fields
      <3> HIDE DEF q
      <3> QED  BY <2>1, <3>2 DEF Agree, ErrorFields
    <2> HIDE DEF q
    <2>3. RchMoves(s, q)
      BY <2>2, RchMovesOf
    <2>4. ASSUME ~s.rch_received PROVE RchMoves(s, s)
      BY <2>4 DEF RchMoves, Agree
    <2>5. Restart(s, rch_wait_run(s)) \/ RchMoves(s, rch_wait_run(s))
      BY <1>1, <1>2, <2>1, <2>3, <2>4 DEF rch_wait_run, r, q
    <2> QED  BY <1>3, <2>5 DEF rch_run
  <1>4. CASE s.rch = "PROCESSING"
    <2> DEFINE n == s.chunk_number_expected + 1
               r == [s EXCEPT !.chunk_number_expected = n]
               m == [None EXCEPT !.kind = "request",
                                 !.num = r.chunk_number_expected]
               acc == r.accepted \ {s.rx.n}
               q == [r EXCEPT !.rch = "REQUESTING", !.accepted = acc,
                              !.out = m, !.tx_xmit = TRUE]
    <2>0. m.kind = "request" /\ m.n = 0
      BY DEF None
    <2>1. ASSUME s.rx.num = s.chunk_number_expected
          PROVE  Good(r) /\ Agree(s, r, F)
      <3>1. n \in 0 .. CHUNKS
        BY <2>1, PrlAssumption DEF Good, Layer, ChunksOK
      <3> HIDE DEF n
      <3> QED  BY <3>1 DEF Good, Layer, Fields, ChunksOK, Agree, ErrorFields
    <2>2. Restart(s, rch_report_error(s)) \/ RchMoves(s, rch_report_error(s))
      BY <1>1 DEF Agree
    <2>3. ASSUME s.rx.num = s.chunk_number_expected
          PROVE  RchMoves(s, rch_pass_up_message(r))
      BY <1>2, <2>1, <2>3
    <2>4. Agree(s, r, Fields \ {"chunk_number_expected"})
      BY DEF Agree, Good, Layer, Fields
    <2>5. rch_processing_run(s) \in
            {rch_report_error(s), q}
          \/ (s.rx.num = s.chunk_number_expected
                /\ rch_processing_run(s) = rch_pass_up_message(r))
      BY ZenonT(20) DEF rch_processing_run, q, r, m, acc, n
    <2> HIDE DEF r, m, acc
    <2>6. /\ Agree(s, q, Fields \ {"rch", "accepted", "out", "tx_xmit",
                                    "chunk_number_expected"})
          /\ q.rch = "REQUESTING" /\ q.out = m /\ q.tx_xmit
      <3>1. DOMAIN r = Fields
        BY <2>4 DEF Agree, Good, Layer
      <3>2. Agree(r, q, Fields \ {"rch", "accepted", "out", "tx_xmit"})
            /\ q.rch = "REQUESTING" /\ q.out = m /\ q.tx_xmit
        BY <3>1 DEF Agree, Fields
      <3> HIDE DEF q
      <3> QED  BY <2>4, <3>2 DEF Agree
    <2> HIDE DEF q
    <2>7. RchMoves(s, q)
      <3>1. RchKept \cup {"tx_complete"}
              \subseteq Fields \ {"rch", "accepted", "out", "tx_xmit",
                                  "chunk_number_expected"}
        BY DEF RchKept, Fields
      <3>2. Agree(s, q, RchKept) /\ q.tx_complete = s.tx_complete
        BY <2>6, <3>1 DEF Agree
      <3> QED  BY <2>0, <2>6, <3>2 DEF RchMoves
    <2>8. Restart(s, rch_processing_run(s)) \/ RchMoves(s, rch_processing_run(s))
      BY <2>2, <2>3, <2>5, <2>7
    <2> QED  BY <1>4, <2>8 DEF rch_run
  <1>5. CASE s.rch = "REQUESTING"
    <2> DEFINE q == [s EXCEPT !.tx_complete = FALSE, !.rch = "WAITING"]
    <2>1. Agree(s, q, Fields \ {"tx_complete", "rch"})
          /\ ~q.tx_complete /\ q.rch = "WAITING"
      BY DEF Agree, Good, Layer, Fields
    <2>2. RchMoves(s, s)
      BY <1>5 DEF RchMoves, Agree
    <2>3. Restart(s, rch_report_error(s)) \/ RchMoves(s, rch_report_error(s))
      BY <1>1 DEF Agree
    <2>4. rch_requesting_run(s) \in {q, s, rch_report_error(s)}
      BY DEF rch_requesting_run, q
    <2> HIDE DEF q
    <2>5. RchMoves(s, q)
      BY <2>1 DEF RchMoves, Agree, RchKept, Fields
    <2> QED  BY <1>5, <2>2, <2>3, <2>4, <2>5 DEF rch_run
  <1>6. CASE s.rch = "WAITING"
    <2> DEFINE x == s.expired \ {"rch"}
               q == [s EXCEPT !.rch_received = FALSE, !.rch = "PROCESSING",
                              !.expired = x]
    <2>1. rch_waiting_run(s) \in {q, s, rch_report_error(s)}
      BY DEF rch_waiting_run
    <2> HIDE DEF x
    <2>2. /\ Agree(s, q, Fields \ {"rch_received", "rch", "expired"})
          /\ q.rch = "PROCESSING"
      BY DEF Agree, Good, Layer, Fields
    <2>3. RchMoves(s, s)
      BY <1>6 DEF RchMoves, Agree
    <2>4. Restart(s, rch_report_error(s)) \/ RchMoves(s, rch_report_error(s))
      BY <1>1 DEF Agree
    <2> HIDE DEF q
    <2>5. RchMoves(s, q)
      BY <2>2 DEF RchMoves, Agree, RchKept, Fields
    <2> QED  BY <1>6, <2>1, <2>3, <2>4, <2>5 DEF rch_run
  <1>7. CASE s.rch = "ERROR"
    <2> DEFINE t == EnterRchWait(s)
    <2>1. Agree(s, t, Fields \ {"rch", "rch_received", "rch_chunking", "expired"})
          /\ t.rch = "WAIT" /\ ~t.rch_received
      BY EnterRchAgrees
    <2> HIDE DEF t
    <2>2. RchMoves(s, t)
      BY <2>1, RchMovesOf DEF Agree, ErrorFields
    <2> QED  BY <1>7, <2>2 DEF rch_run, t
  <1> QED  BY <1>3, <1>4, <1>5, <1>6, <1>7 DEF Good, Layer

\* rch does nothing while it has nothing to do.
LEMMA RchRests ==
  ASSUME NEW s, s.rch = "WAIT", ~s.rch_received
  PROVE  rch_run(s) = s
  <1>1. rch_wait_run(s) = s
    BY DEF rch_wait_run
  <1> QED  BY <1>1 DEF rch_run

-----------------------------------------------------------------------------
\* What the reports of tch set.
ReportFields ==
  {"tch", "tch_received", "tch_xmit", "tch_chunking", "rch_received", "expired",
   "owed", "answers", "local_ams"}

\* TCH_MESSAGE_RECEIVED: a message handed over meanwhile is discarded.
LEMMA TchReceivedAgrees ==
  ASSUME NEW s, Good(s)
  PROVE  LET t == tch_message_received(s) IN
         /\ Agree(s, t, Fields \ ReportFields)
         /\ t.tch = "RECEIVED" /\ ~t.tch_xmit
         /\ ~s.tch_xmit => t.owed = s.owed /\ t.answers = s.answers
         /\ s.tch_xmit => /\ t.owed = None
                          /\ t.answers = IF s.owed = None THEN s.answers
                                         ELSE AnswersAfter(s, "discard")
  <1> DEFINE x == s.expired \ {"tch"}
             r == [s EXCEPT !.tch = "RECEIVED", !.tch_received = FALSE,
                            !.rch_received = TRUE, !.expired = x]
             c == [r EXCEPT !.tch_xmit = FALSE]
             d == pe_report_discard(c)
  <1>1. tch_message_received(s) = IF s.tch_xmit THEN d ELSE r
    BY DEF tch_message_received, Good, Layer, Fields
  <1>2. x \subseteq Timers
    BY DEF Good, Layer
  <1> HIDE DEF x, d
  <1>3. Good(r)
    BY <1>2 DEF Good, Layer, Fields, ChunksOK
  <1>4. /\ Agree(s, r, Fields \ {"tch", "tch_received", "rch_received", "expired"})
        /\ r.tch = "RECEIVED"
    BY DEF Agree, Good, Layer, Fields
  <1> HIDE DEF r
  <1>5. Good(c) /\ Agree(r, c, Fields \ {"tch_xmit"}) /\ ~c.tch_xmit
    BY <1>3 DEF Good, Layer, Fields, ChunksOK, Agree
  <1> HIDE DEF c
  <1>6. /\ Agree(c, d, Fields \ {"owed", "answers", "local_ams"})
        /\ d.owed = None
        /\ d.answers = IF c.owed = None THEN c.answers ELSE AnswersAfter(c, "discard")
    BY <1>5, DiscardAgrees DEF d
  <1>7. CASE s.tch_xmit
    <2>1. Agree(s, d, Fields \ ReportFields)
      BY <1>4, <1>5, <1>6 DEF Agree, ReportFields
    <2>2. d.tch = "RECEIVED" /\ ~d.tch_xmit
      BY <1>4, <1>5, <1>6 DEF Agree, Fields
    <2>3. d.answers = IF s.owed = None THEN s.answers ELSE AnswersAfter(s, "discard")
      BY <1>4, <1>5, <1>6 DEF Agree, Fields, AnswersAfter
    <2> QED  BY <1>1, <1>6, <1>7, <2>1, <2>2, <2>3
  <1>8. CASE ~s.tch_xmit
    <2>1. Agree(s, r, Fields \ ReportFields) /\ r.tch_xmit = s.tch_xmit
          /\ r.owed = s.owed /\ r.answers = s.answers
      BY <1>4 DEF Agree, Fields, ReportFields
    <2> QED  BY <1>1, <1>4, <1>8, <2>1
  <1> QED  BY <1>7, <1>8

\* The end of TCH_MESSAGE_SENT and TCH_REPORT_ERROR.
LEMMA AfterReportAgrees ==
  ASSUME NEW s, Good(s)
  PROVE  LET t == AfterReport(s) IN
         /\ Agree(s, t, Fields \ ReportFields)
         /\ t.tch \in {"WAIT", "RECEIVED"} /\ ~t.tch_xmit
         /\ s.owed = None => t.owed = None /\ t.answers = s.answers
  <1> DEFINE r == tch_message_received(s)
             w == EnterTchWait(s)
  <1>1. /\ Agree(s, r, Fields \ ReportFields)
        /\ r.tch = "RECEIVED" /\ ~r.tch_xmit
        /\ s.owed = None => r.owed = None /\ r.answers = s.answers
    BY TchReceivedAgrees
  <1>2. /\ Agree(s, w, Fields \ {"tch", "tch_received", "tch_xmit", "tch_chunking",
                                  "expired"})
        /\ w.tch = "WAIT" /\ ~w.tch_xmit
    BY EnterTchAgrees
  <1> HIDE DEF r, w
  <1>3. Agree(s, w, Fields \ ReportFields) /\ w.owed = s.owed /\ w.answers = s.answers
    BY <1>2 DEF Agree, ReportFields, Fields
  <1> QED  BY <1>1, <1>2, <1>3 DEF AfterReport, r, w

\* A message of ours has been answered for.
Reported(s, t, a) ==
  /\ Agree(s, t, Fields \ ReportFields)
  /\ t.tch \in {"WAIT", "RECEIVED"} /\ ~t.tch_xmit
  /\ t.owed = None /\ t.answers = AnswersAfter(s, a)

\* pe_message_sent() and pe_report_error(), the latter perhaps with a hard reset.
LEMMA TchSentAgrees ==
  ASSUME NEW s, Good(s)
  PROVE  Reported(s, tch_message_sent(s), "sent")
  <1> DEFINE a == Answer(s, "sent")
             t == AfterReport(a)
  <1>1. /\ Good(a) /\ Agree(s, a, Fields \ {"owed", "answers"})
        /\ a.owed = None /\ a.answers = AnswersAfter(s, "sent")
    BY AnswerOk, AnswerAgrees DEF Ok
  <1> HIDE DEF a
  <1>2. /\ Agree(a, t, Fields \ ReportFields)
        /\ t.tch \in {"WAIT", "RECEIVED"} /\ ~t.tch_xmit
        /\ t.owed = None /\ t.answers = a.answers
    BY <1>1, AfterReportAgrees
  <1>3. tch_message_sent(s) = t
    BY DEF tch_message_sent, pe_message_sent, a
  <1> HIDE DEF t
  <1>4. Agree(s, t, Fields \ ReportFields)
    BY <1>1, <1>2 DEF Agree, ReportFields
  <1> QED  BY <1>1, <1>2, <1>3, <1>4 DEF Reported

LEMMA TchErrorAgrees ==
  ASSUME NEW s, Good(s), ResetsOK(s)
  PROVE  \/ Restart(s, tch_report_error(s))
         \/ Reported(s, tch_report_error(s), "error")
  <1> DEFINE a == Answer(s, "error")
             x == execute_hard_reset(a, "PE")
             p == IF s.owed.kind = "soft" THEN x ELSE a
             t == AfterReport(p)
  <1>1. /\ Good(a) /\ Agree(s, a, Fields \ {"owed", "answers"})
        /\ a.owed = None /\ a.answers = AnswersAfter(s, "error")
    BY AnswerOk, AnswerAgrees DEF Ok
  <1>2. tch_report_error(s) = t
    BY DEF tch_report_error, pe_report_error
  <1> HIDE DEF a
  <1>3. ASSUME s.owed.kind = "soft" PROVE Good(x) /\ Restart(s, x)
    <2>1. a.hr = "WAIT" /\ a.hr_flags = {} /\ Agree(s, a, {"phy", "sends", "out"})
      BY <1>1, <1>3 DEF ResetsOK, Agree, Fields
    <2>2. Good(x) /\ Restart(a, x)
      BY <1>1, <2>1, RestartAgrees, ExecuteOk
    <2> QED  BY <2>1, <2>2 DEF Restart, Agree
  <1> HIDE DEF x
  <1>4. Good(p)
    BY <1>1, <1>3
  <1>5. CASE s.owed.kind = "soft"
    <2>1. p = x
      BY <1>5
    <2>2. Agree(x, t, Fields \ ReportFields)
      BY <1>4, <2>1, AfterReportAgrees
    <2> HIDE DEF t
    <2>3. Restart(s, t)
      BY <1>3, <1>5, <2>2 DEF Restart, Agree, Fields, ReportFields
    <2> QED  BY <1>2, <2>3
  <1>6. CASE s.owed.kind # "soft"
    <2>1. p = a
      BY <1>6
    <2>2. /\ Agree(a, t, Fields \ ReportFields)
          /\ t.tch \in {"WAIT", "RECEIVED"} /\ ~t.tch_xmit
          /\ t.owed = None /\ t.answers = a.answers
      BY <1>1, <1>4, <2>1, AfterReportAgrees
    <2> HIDE DEF t
    <2>3. Agree(s, t, Fields \ ReportFields)
      BY <1>1, <2>2 DEF Agree, ReportFields
    <2> QED  BY <1>1, <1>2, <2>2, <2>3 DEF Reported
  <1> QED  BY <1>5, <1>6

\* What tch leaves alone, whatever it does for as long as it starts no hard reset.
TchKept ==
  {"phy", "tx", "xmit_status", "last_hard", "id", "unheard", "apart", "hr",
   "hr_flags", "clean", "sends"}

TchMoves(s, t) == Agree(s, t, TchKept) /\ t.out.n = s.out.n

\* Every state of tch.
LEMMA TchRunAgrees ==
  ASSUME NEW s, Good(s), ResetsOK(s)
  PROVE  Restart(s, tch_run(s)) \/ TchMoves(s, tch_run(s))
  <1>0. TchMoves(s, s)
    BY DEF TchMoves, Agree
  <1>1. ASSUME NEW u, Good(u), TchMoves(s, u)
        PROVE  TchMoves(s, tch_message_received(u))
    <2> DEFINE t == tch_message_received(u)
    <2>1. Agree(u, t, Fields \ ReportFields)
      BY <1>1, TchReceivedAgrees
    <2> HIDE DEF t
    <2>2. TchMoves(s, t)
      BY <1>1, <2>1 DEF TchMoves, Agree, Fields, TchKept, ReportFields
    <2> QED  BY <2>2 DEF t
  <1>2. ASSUME NEW u, Good(u), TchMoves(s, u)
        PROVE  TchMoves(s, tch_message_sent(u))
    <2> DEFINE t == tch_message_sent(u)
    <2>1. Agree(u, t, Fields \ ReportFields)
      BY <1>2, TchSentAgrees DEF Reported
    <2> HIDE DEF t
    <2>2. TchMoves(s, t)
      BY <1>2, <2>1 DEF TchMoves, Agree, Fields, TchKept, ReportFields
    <2> QED  BY <2>2 DEF t
  <1>3. ASSUME NEW u, Good(u), ResetsOK(u), TchMoves(s, u)
        PROVE  Restart(s, tch_report_error(u)) \/ TchMoves(s, tch_report_error(u))
    <2> DEFINE t == tch_report_error(u)
    <2>1. Restart(u, t) \/ Agree(u, t, Fields \ ReportFields)
      BY <1>3, TchErrorAgrees DEF Reported
    <2> HIDE DEF t
    <2>2. ASSUME Agree(u, t, Fields \ ReportFields) PROVE TchMoves(s, t)
      BY <1>3, <2>2 DEF TchMoves, Agree, Fields, TchKept, ReportFields
    <2>3. ASSUME Restart(u, t) PROVE Restart(s, t)
      BY <1>3, <2>3 DEF TchMoves, Agree, TchKept, Restart
    <2> QED  BY <2>1, <2>2, <2>3 DEF t
  <1>4. ASSUME NEW u, Good(u), TchMoves(s, u)
        PROVE  TchMoves(s, tch_construct(u))
    <2> DEFINE n == u.send_offset + 1
               m == [u.out EXCEPT !.num = u.chunk_number_to_send]
               x == u.expired \ {"tch"}
               c == [u EXCEPT !.tch = "CONSTRUCT", !.send_offset = n,
                              !.tx_xmit = TRUE, !.out = m, !.expired = x]
    <2>1. tch_construct(u) = IF u.tch_received THEN tch_message_received(u) ELSE c
      BY DEF tch_construct, Good, Layer, Fields
    <2> HIDE DEF n, m, x
    <2>2. DOMAIN u = Fields
      BY <1>4 DEF Good, Layer
    <2>3. /\ Agree(u, c, Fields \ {"tch", "send_offset", "tx_xmit", "out", "expired"})
          /\ c.out = m
      BY <2>2 DEF Agree, Fields
    <2>5. m.n = u.out.n
      BY <1>4 DEF Good, Layer, Message, m
    <2> HIDE DEF c
    <2>4. TchMoves(s, c)
      BY <1>4, <2>3, <2>5 DEF TchMoves, Agree, TchKept, Fields
    <2> QED  BY <1>1, <1>4, <2>1, <2>4
  <1>5. CASE s.tch = "WAIT"
    <2> DEFINE t == [s EXCEPT !.tch_xmit = FALSE]
               c == [t EXCEPT !.send_offset = 0, !.chunk_number_to_send = 0]
               x == [t EXCEPT !.tx_xmit = TRUE, !.tch = "TRANSMISSION"]
    <2>1. Good(t) /\ ResetsOK(t) /\ TchMoves(s, t) /\ t.tch = "WAIT"
      BY <1>5 DEF Good, Layer, Fields, ChunksOK, ResetsOK, TchMoves, Agree, TchKept
    <2> HIDE DEF t
    <2>2. 0 \in 0 .. CHUNKS /\ 0 \in 0 .. CHUNKS - 1
      BY PrlAssumption
    <2>3. Good(c)
      BY <2>1, <2>2 DEF Good, Layer, Fields, ChunksOK
    <2>4. TchMoves(s, c)
      BY <2>1 DEF TchMoves, Agree, TchKept
    <2>5. TchMoves(s, x)
      BY <2>1 DEF TchMoves, Agree, TchKept
    <2> HIDE DEF c, x
    <2>6. tch_wait_run(s) \in {s, tch_message_received(s), tch_report_error(t),
                               tch_construct(c), x}
      BY ZenonT(20) DEF tch_wait_run, t, c, x
    <2>7. Restart(s, tch_wait_run(s)) \/ TchMoves(s, tch_wait_run(s))
      BY <1>0, <1>1, <1>3, <1>4, <2>1, <2>3, <2>4, <2>5, <2>6
    <2> QED  BY <1>5, <2>7 DEF tch_run
  <1>6. CASE s.tch = "TRANSMISSION"
    <2> DEFINE c == [s EXCEPT !.tx_complete = FALSE]
               e == [s EXCEPT !.tx_error = FALSE]
    <2>1. Good(c) /\ TchMoves(s, c)
      BY DEF Good, Layer, Fields, ChunksOK, TchMoves, Agree, TchKept
    <2>2. Good(e) /\ ResetsOK(e) /\ TchMoves(s, e)
      BY DEF Good, Layer, Fields, ChunksOK, ResetsOK, TchMoves, Agree, TchKept
    <2>3. tch_transmission_run(s) \in
            {s, tch_message_received(s), tch_report_error(e), tch_message_sent(c)}
      BY ZenonT(20) DEF tch_transmission_run
    <2> HIDE DEF c, e
    <2>4. Restart(s, tch_transmission_run(s)) \/ TchMoves(s, tch_transmission_run(s))
      BY <1>0, <1>1, <1>2, <1>3, <2>1, <2>2, <2>3
    <2> QED  BY <1>6, <2>4 DEF tch_run
  <1>7. CASE s.tch = "CONSTRUCT"
    <2>1. TchMoves(s, [s EXCEPT !.tch = "SENDING"])
      BY DEF TchMoves, Agree, TchKept, Good, Layer, Fields
    <2> QED  BY <1>7, <2>1 DEF tch_run
  <1>8. CASE s.tch = "SENDING"
    <2> DEFINE n == s.chunk_number_to_send + 1
               t == [s EXCEPT !.tch = "REQUEST", !.chunk_number_to_send = n]
    <2>1. TchMoves(s, t)
      BY DEF TchMoves, Agree, TchKept, Good, Layer, Fields
    <2>2. tch_sending_run(s) \in
            {t, tch_message_received(s), tch_report_error(s), tch_message_sent(s)}
      BY ZenonT(20) DEF tch_sending_run
    <2> HIDE DEF t
    <2>3. Restart(s, tch_sending_run(s)) \/ TchMoves(s, tch_sending_run(s))
      BY <1>0, <1>1, <1>2, <1>3, <2>1, <2>2
    <2> QED  BY <1>8, <2>3 DEF tch_run
  <1>9. CASE s.tch = "REQUEST"
    <2> DEFINE r == [s EXCEPT !.tch_received = FALSE]
               a == r.accepted \ {s.rx.n}
               used == [r EXCEPT !.accepted = a]
    <2>1. Good(r) /\ ResetsOK(r) /\ TchMoves(s, r)
      BY DEF Good, Layer, Fields, ChunksOK, ResetsOK, TchMoves, Agree, TchKept
    <2>2. tch_wait_chunk_request_run(s) \in
            {s, tch_message_received(r), tch_report_error(used), tch_construct(used),
             tch_message_sent(s)}
      BY ZenonT(20) DEF tch_wait_chunk_request_run
    <2> HIDE DEF r, a
    <2>3. Good(used) /\ ResetsOK(used) /\ TchMoves(r, used)
      BY <2>1 DEF Good, Layer, Fields, ChunksOK, ResetsOK, TchMoves, Agree, TchKept
    <2> HIDE DEF used
    <2>4. TchMoves(s, used)
      BY <2>1, <2>3 DEF TchMoves, Agree
    <2>5. \/ Restart(s, tch_wait_chunk_request_run(s))
          \/ TchMoves(s, tch_wait_chunk_request_run(s))
      BY <1>0, <1>1, <1>2, <1>3, <1>4, <2>1, <2>2, <2>3, <2>4
    <2> QED  BY <1>9, <2>5 DEF tch_run
  <1>10. CASE s.tch = "RECEIVED"
    <2> DEFINE t == EnterTchWait(s)
    <2>1. Agree(s, t, Fields \ {"tch", "tch_received", "tch_xmit", "tch_chunking",
                                 "expired"})
      BY EnterTchAgrees
    <2> HIDE DEF t
    <2>2. TchMoves(s, t)
      BY <2>1 DEF TchMoves, Agree, TchKept, Fields
    <2> QED  BY <1>10, <2>2 DEF tch_run, t
  <1> QED  BY <1>5, <1>6, <1>7, <1>8, <1>9, <1>10 DEF Good, Layer

-----------------------------------------------------------------------------
\* What prl_tx sets when it hands a message to the PHY.
PhyFields ==
  {"sink_ng", "tx_xmit", "tx", "expired", "xmit_status", "last_hard",
   "tx_complete", "phy", "hard_requested", "apart", "rx_id", "era"}

\* The message goes to the PHY...
Constructed(s, t) ==
  /\ Agree(s, t, Fields \ PhyFields)
  /\ t.tx = "WAIT_PHY" /\ t.xmit_status = "UNSET" /\ "tx" \notin t.expired
  /\ ~t.tx_complete /\ t.phy = [s.out EXCEPT !.id = s.id]
  /\ t.last_hard = (s.out.kind = "hard")
  /\ t.apart = (s.apart \/ s.unheard = PD_MESSAGE_ID_COUNT)
  /\ t.tx_xmit => s.tx_xmit

\* ...a Soft_Reset after a state of its own...
Softened(s, t) ==
  /\ Agree(s, t, Fields \ {"sink_ng", "tx_xmit", "tx", "expired", "xmit_status",
                           "id", "rx_id", "era", "unheard", "apart",
                           "hard_requested"})
  /\ s.out.kind = "soft" /\ ~t.tx_xmit
  /\ t.tx = "LAYER_RESET" /\ t.id = 0 /\ t.unheard = 0 /\ t.apart

\* ...and prl_tx leaves the PHY with the result.
Ended(s, t) ==
  /\ Agree(s, t, Fields \ {"tx", "expired", "xmit_status", "id", "unheard",
                           "tx_complete", "tx_error"})
  /\ t.tx = "WAIT"
  /\ \/ /\ s.xmit_status = "SUCCESS" /\ t.tx_complete /\ t.unheard = 0
        /\ IF s.last_hard THEN t.id = s.id
           ELSE t.id = (s.id + 1) % (PD_MESSAGE_ID_COUNT + 1)
     \/ /\ s.xmit_status # "SUCCESS" /\ t.tx_error /\ Failed(s)
        /\ t.tx_complete = s.tx_complete
        /\ IF s.last_hard THEN IdKept(s, t) ELSE IdNext(s, t)

\* The states in which a message may wait to be sent.
TxWaits == {"WAIT", "START_AMS", "PENDING"}

\* The steps of prl_tx.
TxMoves(s, t) ==
  \/ /\ s.tx \in TxWaits /\ t.tx \in TxWaits
     /\ Agree(s, t, Fields \ {"sink_ng", "tx", "expired", "xmit_status"})
     /\ t.tx = "PENDING" => s.tx_xmit \/ s.tx = "PENDING"
  \/ /\ s.tx \in {"WAIT", "PENDING"} /\ (s.tx_xmit \/ s.tx = "PENDING")
     /\ Softened(s, t) \/ (s.out.kind # "soft" /\ ~t.tx_xmit /\ Constructed(s, t))
  \/ s.tx = "LAYER_RESET" /\ Constructed(s, t)
  \/ s.tx = "WAIT_PHY" /\ (t = s \/ Ended(s, t))

\* Transmit() is one of the first two.
LEMMA TransmitMoves ==
  ASSUME NEW s, NEW u, Good(u), Agree(s, u, Fields \ {"sink_ng"}), DOMAIN s = Fields
  PROVE  LET t == Transmit(u) IN
         Softened(s, t) \/ (s.out.kind # "soft" /\ ~t.tx_xmit /\ Constructed(s, t))
  <1> DEFINE t == Transmit(u)
  <1>1. /\ Agree(u, t, Fields \ {"tx_xmit", "tx", "expired", "xmit_status",
                                  "last_hard", "tx_complete", "phy", "hard_requested",
                                  "apart", "id", "rx_id", "era", "unheard"})
        /\ ~t.tx_xmit
        /\ u.out.kind = "soft" =>
             /\ Agree(u, t, {"phy", "tx_complete", "last_hard"})
             /\ t.tx = "LAYER_RESET" /\ t.id = 0 /\ t.unheard = 0 /\ t.apart
        /\ u.out.kind # "soft" =>
             /\ Agree(u, t, {"id", "unheard"})
             /\ t.tx = "WAIT_PHY" /\ t.xmit_status = "UNSET" /\ "tx" \notin t.expired
             /\ ~t.tx_complete /\ t.phy = [u.out EXCEPT !.id = u.id]
             /\ t.last_hard = (u.out.kind = "hard")
             /\ t.apart = (u.apart \/ u.unheard = PD_MESSAGE_ID_COUNT)
    BY TransmitAgrees
  <1> HIDE DEF t
  <1>2. /\ u.out = s.out /\ u.id = s.id /\ u.apart = s.apart /\ u.unheard = s.unheard
    BY DEF Agree, Fields
  <1>3. CASE s.out.kind = "soft"
    <2>1. Agree(s, t, Fields \ {"sink_ng", "tx_xmit", "tx", "expired", "xmit_status",
                                "id", "rx_id", "era", "unheard", "apart",
                                "hard_requested"})
      <3>1. Agree(u, t, {"phy", "tx_complete", "last_hard"})
        BY <1>1, <1>2, <1>3
      <3>2. Agree(u, t, Fields \ {"tx_xmit", "tx", "expired", "xmit_status",
                                  "last_hard", "tx_complete", "phy", "hard_requested",
                                  "apart", "id", "rx_id", "era", "unheard"})
        BY <1>1
      <3>3. Agree(u, t, Fields \ {"sink_ng", "tx_xmit", "tx", "expired",
                                  "xmit_status", "id", "rx_id", "era", "unheard",
                                  "apart", "hard_requested"})
        BY <3>1, <3>2, AgreeJoin
      <3> QED  BY <3>3 DEF Agree
    <2> QED  BY <1>1, <1>2, <1>3, <2>1 DEF Softened, t
  <1>4. CASE s.out.kind # "soft"
    <2>1. Agree(s, t, Fields \ PhyFields)
      <3>1. Agree(u, t, {"id", "unheard"})
        BY <1>1, <1>2, <1>4
      <3>2. Agree(u, t, Fields \ {"tx_xmit", "tx", "expired", "xmit_status",
                                  "last_hard", "tx_complete", "phy", "hard_requested",
                                  "apart", "id", "rx_id", "era", "unheard"})
        BY <1>1
      <3>3. Agree(u, t, Fields \ PhyFields)
        BY <3>1, <3>2, AgreeJoin DEF PhyFields
      <3> QED  BY <3>3 DEF Agree, PhyFields
    <2> QED  BY <1>1, <1>2, <1>4, <2>1 DEF Constructed, t
  <1> QED  BY <1>3, <1>4

\* Every state of prl_tx.
LEMMA TxRunMoves ==
  ASSUME NEW s, Good(s)
  PROVE  TxMoves(s, prl_tx_run(s))
  <1>0. DOMAIN s = Fields
    BY DEF Good, Layer
  <1>1. Agree(s, s, Fields \ {"sink_ng", "tx", "expired", "xmit_status"})
    BY DEF Agree
  <1>2. CASE s.tx = "WAIT"
    <2> DEFINE n == s.sink_ng /\ s.local_ams
               u == [s EXCEPT !.sink_ng = n]
               w == SetTx(u, "START_AMS")
               a == [w EXCEPT !.sink_ng = TRUE]
               t == prl_tx_wait_run(s)
    <2>1. Good(u) /\ Agree(s, u, Fields \ {"sink_ng"})
      BY DEF Good, Layer, Fields, ChunksOK, Agree
    <2>2. u.tx_xmit = s.tx_xmit
      BY <2>1 DEF Agree, Fields
    <2>3. (t = Transmit(u) /\ u.tx_xmit) \/ t \in {a, u}
      BY DEF prl_tx_wait_run
    <2> HIDE DEF n, u, t
    <2>4. Agree(u, w, Fields \ {"tx", "expired", "xmit_status"}) /\ w.tx = "START_AMS"
          /\ DOMAIN w = Fields
      BY <2>1, SetTxAgrees DEF Agree, Good, Layer
    <2> HIDE DEF w
    <2>5. /\ Agree(s, a, Fields \ {"sink_ng", "tx", "expired", "xmit_status"})
          /\ a.tx = "START_AMS"
      BY <2>1, <2>4 DEF Agree, Fields
    <2>6. Agree(s, u, Fields \ {"sink_ng", "tx", "expired", "xmit_status"})
          /\ u.tx = "WAIT"
      BY <1>2, <2>1 DEF Agree, Fields
    <2> HIDE DEF a
    <2>7. ASSUME t \in {a, u} PROVE TxMoves(s, t)
      BY <1>2, <2>5, <2>6, <2>7 DEF TxMoves, TxWaits
    <2>8. ASSUME t = Transmit(u), u.tx_xmit PROVE TxMoves(s, t)
      BY <1>0, <1>2, <2>1, <2>2, <2>8, TransmitMoves DEF TxMoves
    <2>9. TxMoves(s, t)
      BY <2>3, <2>7, <2>8
    <2> QED  BY <1>2, <2>9 DEF prl_tx_run, t
  <1>3. CASE s.tx = "LAYER_RESET"
    <2> DEFINE t == prl_tx_construct_message(s)
    <2>1. /\ Agree(s, t, Fields \ {"tx", "expired", "xmit_status", "last_hard",
                                    "tx_complete", "phy", "hard_requested", "apart"})
          /\ t.tx = "WAIT_PHY" /\ t.xmit_status = "UNSET" /\ "tx" \notin t.expired
          /\ ~t.tx_complete /\ t.phy = [s.out EXCEPT !.id = s.id]
          /\ t.last_hard = (s.out.kind = "hard")
          /\ t.apart = (s.apart \/ s.unheard = PD_MESSAGE_ID_COUNT)
      BY ConstructAgrees
    <2> HIDE DEF t
    <2>2. Agree(s, t, Fields \ PhyFields) /\ (t.tx_xmit => s.tx_xmit)
      BY <2>1 DEF Agree, PhyFields, Fields
    <2>3. TxMoves(s, t)
      BY <1>3, <2>1, <2>2 DEF TxMoves, Constructed
    <2> QED  BY <1>3, <2>3 DEF prl_tx_run, t
  <1>4. CASE s.tx = "WAIT_PHY"
    <2> DEFINE i == increment_msgid_counter(s)
               w == SetTx(i, "WAIT")
               c == [w EXCEPT !.tx_complete = TRUE, !.unheard = 0]
               e == [w EXCEPT !.tx_error = TRUE]
               t == prl_tx_wait_for_phy_response_run(s)
    <2>1. /\ Good(i) /\ Agree(s, i, Fields \ {"id", "unheard"})
          /\ IF s.last_hard THEN i = s ELSE IdNext(s, i)
      BY IncrementOk, IncrementAgrees, IncrementIds DEF Ok
    <2>2. IF s.xmit_status = "SUCCESS" THEN t = c
          ELSE t = s \/ (Failed(s) /\ t = e)
      BY DEF prl_tx_wait_for_phy_response_run
    <2> HIDE DEF i, t
    <2>3. Agree(i, w, Fields \ {"tx", "expired", "xmit_status"}) /\ w.tx = "WAIT"
          /\ DOMAIN w = Fields
      BY <2>1, SetTxAgrees DEF Agree, Good, Layer
    <2> HIDE DEF w
    <2>4. Agree(w, c, Fields \ {"tx_complete", "unheard"}) /\ c.tx_complete
          /\ c.unheard = 0
      BY <2>3 DEF Agree, Fields
    <2>5. Agree(w, e, Fields \ {"tx_error"}) /\ e.tx_error
      BY <2>3 DEF Agree, Fields
    <2> HIDE DEF c, e
    <2>6. ASSUME s.xmit_status = "SUCCESS" PROVE Ended(s, c)
      <3>1. Agree(s, c, Fields \ {"tx", "expired", "xmit_status", "id", "unheard",
                                   "tx_complete", "tx_error"})
        BY <2>1, <2>3, <2>4 DEF Agree
      <3>2. c.tx = "WAIT" /\ c.id = i.id
        BY <2>3, <2>4 DEF Agree, Fields
      <3> QED  BY <2>1, <2>4, <2>6, <3>1, <3>2 DEF Ended, IdNext
    <2>7. ASSUME s.xmit_status # "SUCCESS", Failed(s) PROVE Ended(s, e)
      <3>1. Agree(s, e, Fields \ {"tx", "expired", "xmit_status", "id", "unheard",
                                   "tx_complete", "tx_error"})
        BY <2>1, <2>3, <2>5 DEF Agree
      <3>2. e.tx = "WAIT" /\ e.id = i.id /\ e.unheard = i.unheard
            /\ e.tx_complete = s.tx_complete
        BY <2>1, <2>3, <2>5 DEF Agree, Fields
      <3> QED  BY <2>1, <2>5, <2>7, <3>1, <3>2 DEF Ended, IdNext, IdKept
    <2>8. TxMoves(s, t)
      BY <1>4, <2>2, <2>6, <2>7 DEF TxMoves
    <2> QED  BY <1>4, <2>8 DEF prl_tx_run, t
  <1>5. CASE s.tx = "START_AMS"
    <2> DEFINE w == SetTx(s, "PENDING")
    <2>1. Agree(s, w, Fields \ {"tx", "expired", "xmit_status"}) /\ w.tx = "PENDING"
      BY SetTxAgrees
    <2> HIDE DEF w
    <2>2. Agree(s, w, Fields \ {"sink_ng", "tx", "expired", "xmit_status"})
      BY <2>1 DEF Agree
    <2>3. s.tx_xmit => TxMoves(s, w)
      BY <1>5, <2>1, <2>2 DEF TxMoves, TxWaits
    <2>4. TxMoves(s, s)
      BY <1>1, <1>5 DEF TxMoves, TxWaits
    <2> QED  BY <1>5, <2>3, <2>4 DEF prl_tx_run, prl_tx_start_ams_run, w
  <1>6. CASE s.tx = "PENDING"
    <2>1. Agree(s, s, Fields \ {"sink_ng"})
      BY DEF Agree
    <2>2. TxMoves(s, Transmit(s))
      BY <1>0, <1>6, <2>1, TransmitMoves DEF TxMoves
    <2>3. TxMoves(s, s)
      BY <1>1, <1>6 DEF TxMoves, TxWaits
    <2> QED  BY <1>6, <2>2, <2>3 DEF prl_tx_run, prl_tx_pending_run
  <1> QED  BY <1>2, <1>3, <1>4, <1>5, <1>6 DEF Good, Layer, TxStates

-----------------------------------------------------------------------------
\* A message of the policy engine is handed over.
Given(s, t, kind) ==
  /\ Agree(s, t, Fields \ {"out", "owed", "tch_xmit", "sends", "answers", "heard",
                           "clean"})
  /\ t.out.kind = kind /\ t.out.n = s.sends + 1 /\ t.owed = t.out
  /\ t.tch_xmit /\ t.sends = s.sends + 1 /\ t.answers = <<>>
  /\ t.clean => /\ kind # "ext" /\ s.hr = "WAIT" /\ s.tch = "WAIT"
                /\ s.tx = "WAIT" /\ ~s.tx_xmit /\ ~s.tx_complete /\ ~s.tx_error
                /\ s.phy = None

\* prl_send() hands over a message.
LEMMA SendAgrees ==
  ASSUME NEW s, Good(s), NEW kind
  PROVE  Given(s, prl_send(s, kind), kind)
  <1> DEFINE m == [None EXCEPT !.kind = kind, !.n = s.sends + 1]
             n == s.sends + 1
             c == /\ kind # "ext" /\ s.hr = "WAIT"
                  /\ s.tch = "WAIT" /\ s.tx = "WAIT" /\ ~s.tx_xmit
                  /\ ~s.tx_complete /\ ~s.tx_error /\ s.phy = None
             t == [s EXCEPT !.out = m, !.owed = m, !.tch_xmit = TRUE, !.sends = n,
                            !.answers = <<>>, !.heard = FALSE, !.clean = c]
  <1>1. m.kind = kind /\ m.n = n
    BY DEF None
  <1>2. prl_send(s, kind) = t
    BY DEF prl_send
  <1> HIDE DEF m, n, c
  <1>3. /\ Agree(s, t, Fields \ {"out", "owed", "tch_xmit", "sends", "answers",
                                  "heard", "clean"})
        /\ t.out = m /\ t.owed = m /\ t.tch_xmit /\ t.sends = n
        /\ t.answers = <<>> /\ t.clean = c
    BY DEF Agree, Good, Layer, Fields
  <1> HIDE DEF t
  <1> QED  BY <1>1, <1>2, <1>3 DEF Given, n, c

\* A Soft_Reset of the partner is answered.
Reset(s, t) ==
  /\ Agree(s, t, {"phy", "hr", "hr_flags", "last_hard"})
  /\ t.id = 0 /\ t.unheard = 0 /\ t.tx = "WAIT"
  /\ t.apart = (s.apart \/ s.phy # None)
  /\ t.out.kind = "data" /\ t.out.n = s.sends + 1 /\ t.owed = t.out
  /\ t.tch_xmit /\ t.sends = s.sends + 1 /\ t.answers = <<>>
  /\ t.clean => /\ t.hr = "WAIT" /\ t.tch = "WAIT" /\ ~t.tx_xmit
                /\ NoFlags(t) /\ t.phy = None

\* The whole answer to a Soft_Reset of the partner.
LEMMA SoftResetAgrees ==
  ASSUME NEW s, Good(s)
  PROVE  Reset(s, SoftReset(s))
  <1> DEFINE a == s.apart \/ s.phy # None
             e == NextEra(s)
             x == [s EXCEPT !.id = 0, !.rx_id = -1, !.accepted = {}, !.era = e,
                            !.unheard = 0, !.apart = a]
             p == prl_tx_phy_layer_reset(x)
             w == ToWait(p)
             t == prl_send(w, "data")
  <1>1. SoftReset(s) = t
    BY DEF SoftReset, Good, Layer, Fields
  <1> HIDE DEF a, e
  <1>2. Good(x)
    BY PrlAssumption DEF Good, Layer, Fields, ChunksOK
  <1>3. /\ Agree(s, x, Fields \ {"id", "rx_id", "accepted", "era", "unheard",
                                  "apart"})
        /\ x.id = 0 /\ x.unheard = 0 /\ x.apart = a
    BY DEF Agree, Good, Layer, Fields
  <1> HIDE DEF x
  <1>4. Good(p) /\ Agree(x, p, Fields \ TxFields) /\ p.tx = "WAIT"
    BY <1>2, PhyLayerResetAgrees, PhyLayerResetOk DEF Ok, TxFields
  <1> HIDE DEF p
  <1>5. Good(w) /\ Agree(p, w, Fields \ (RchFields \cup TchFields))
    BY <1>4, ToWaitAgrees, ToWaitOk DEF Ok
  <1> HIDE DEF w
  <1>6. Given(w, t, "data")
    BY <1>5, SendAgrees
  <1> HIDE DEF t
  <1>7. /\ Agree(s, w, {"phy", "hr", "hr_flags", "last_hard", "sends"})
        /\ w.id = 0 /\ w.unheard = 0 /\ w.tx = "WAIT" /\ w.apart = a
    BY <1>3, <1>4, <1>5 DEF Agree, Fields, TxFields, RchFields, TchFields
  <1>8. /\ Agree(w, t, {"phy", "hr", "hr_flags", "last_hard", "id", "unheard", "tx",
                        "apart", "tch", "tx_xmit", "tx_complete", "tx_error"})
    BY <1>6 DEF Given, Agree, Fields
  <1>9. /\ Agree(s, t, {"phy", "hr", "hr_flags", "last_hard"})
        /\ t.id = 0 /\ t.unheard = 0 /\ t.tx = "WAIT" /\ t.apart = a
    BY <1>7, <1>8 DEF Agree
  <1>10. /\ t.out.kind = "data" /\ t.out.n = s.sends + 1 /\ t.owed = t.out
         /\ t.tch_xmit /\ t.sends = s.sends + 1 /\ t.answers = <<>>
    BY <1>6, <1>7 DEF Given, Agree
  <1>11. t.clean => /\ t.hr = "WAIT" /\ t.tch = "WAIT" /\ ~t.tx_xmit
                    /\ NoFlags(t) /\ t.phy = None
    BY <1>6, <1>8 DEF Given, Agree, NoFlags
  <1> QED  BY <1>1, <1>9, <1>10, <1>11 DEF Reset, a

\* Another message of the partner goes to tch or to rch...
Routed(s, t) ==
  IF s.tch # "WAIT" \/ s.tch_xmit
  THEN t.tch_received /\ t.rch_received = s.rch_received
  ELSE t.rch_received /\ t.tch_received = s.tch_received

\* ...what prl_tx is to send is discarded.
Discarded(s, t) ==
  /\ t.tx = "WAIT" /\ ~t.tx_xmit
  /\ IF s.tx_xmit
     THEN /\ t.owed = None
          /\ t.answers = IF s.owed = None THEN s.answers ELSE AnswersAfter(s, "discard")
          /\ IF s.last_hard THEN IdKept(s, t) ELSE IdNext(s, t)
     ELSE t.owed = s.owed /\ t.answers = s.answers /\ IdKept(s, t)

InFields == {"rx_id", "rx_era", "accepted", "overwritten", "passed", "heard",
             "tch_received", "rch_received"}
OutFields == {"tx", "expired", "xmit_status", "rx_enabled", "tx_xmit", "owed",
              "answers", "local_ams", "id", "unheard"}

AcceptMoves(s, t) ==
  \/ Agree(s, t, Fields \ {"rx_id", "rx_era", "accepted", "overwritten", "passed",
                        "heard"})
  \/ /\ s.tx = "WAIT_PHY" /\ ~s.tx_xmit
     /\ Agree(s, t, Fields \ InFields) /\ Routed(s, t)
  \/ /\ s.tx # "WAIT_PHY" \/ s.tx_xmit
     /\ Agree(s, t, Fields \ (InFields \cup OutFields))
     /\ Discarded(s, t) /\ Routed(s, t)

\* The whole reception of another new message.
LEMMA AcceptAgrees ==
  ASSUME NEW s, Good(s), NEW msg \in Message
  PROVE  AcceptMoves(s, Accept(s, msg))
  <1> DEFINE discard == msg.kind # "ping" /\ (s.tx # "WAIT_PHY" \/ s.tx_xmit)
             x == prl_tx_discard_message(s)
             d == IF discard THEN x ELSE s
             a == d.accepted \cup {msg.n}
             o == d.overwritten \/ s.accepted # {}
             e == s.era
             t == [d EXCEPT !.rx_id = msg.id, !.rx_era = e, !.accepted = a,
                            !.overwritten = o]
             p == pe_message_received(t)
             b == [t EXCEPT !.tch_received = TRUE]
             c == [t EXCEPT !.rch_received = TRUE]
  <1>1. Accept(s, msg) = IF msg.kind = "ping" THEN p
                         ELSE IF t.tch # "WAIT" \/ t.tch_xmit THEN b ELSE c
    BY DEF Accept
  <1>2. /\ Good(x) /\ Agree(s, x, Fields \ OutFields) /\ Discarded(s, x)
    <2>1. Good(x)
      BY TxDiscardOk DEF Ok
    <2>2. /\ Agree(s, x, Fields \ (TxFields \cup {"tx_xmit", "owed", "answers",
                                                   "local_ams", "id", "unheard"}))
          /\ x.tx = "WAIT" /\ ~x.tx_xmit
          /\ ~s.tx_xmit => Agree(s, x, Fields \ (TxFields \cup {"tx_xmit"}))
          /\ s.tx_xmit =>
               /\ x.owed = None
               /\ x.answers = IF s.owed = None THEN s.answers
                              ELSE AnswersAfter(s, "discard")
          /\ s.last_hard => IdKept(s, x)
          /\ s.tx_xmit /\ ~s.last_hard => IdNext(s, x)
      BY TxDiscardAgrees
    <2> HIDE DEF x
    <2>3. ~s.tx_xmit => x.owed = s.owed /\ x.answers = s.answers /\ IdKept(s, x)
      BY <2>2 DEF Agree, Fields, TxFields, IdKept
    <2>4. Agree(s, x, Fields \ OutFields)
      BY <2>2 DEF Agree, OutFields, TxFields
    <2>5. Discarded(s, x)
      BY <2>2, <2>3 DEF Discarded
    <2> QED  BY <2>1, <2>4, <2>5 DEF x
  <1> HIDE DEF x
  <1>3. Good(d)
    BY <1>2
  <1>4. \/ discard /\ d = x
        \/ ~discard /\ d = s
    OBVIOUS
  <1> HIDE DEF d, a, o, e
  <1>5. Good(t) /\ Agree(d, t, Fields \ {"rx_id", "rx_era", "accepted", "overwritten"})
    <2>1. msg.id \in -1 .. PD_MESSAGE_ID_COUNT
      BY PrlAssumption DEF Message
    <2>2. Good(t)
      BY <1>3, <2>1 DEF Good, Layer, Fields, ChunksOK
    <2>3. Agree(d, t, Fields \ {"rx_id", "rx_era", "accepted", "overwritten"})
      BY <1>3 DEF Good, Layer, Agree
    <2> QED  BY <2>2, <2>3
  <1> HIDE DEF t
  <1>6. Agree(t, p, Fields \ {"passed", "accepted", "heard"})
    BY <1>5, ReceivedAgrees
  <1>7. Agree(t, b, Fields \ {"tch_received"}) /\ b.tch_received
    BY <1>5 DEF Good, Layer, Fields, Agree
  <1>8. Agree(t, c, Fields \ {"rch_received"}) /\ c.rch_received
    BY <1>5 DEF Good, Layer, Fields, Agree
  <1> HIDE DEF p, b, c
  <1>9. CASE msg.kind = "ping"
    <2>1. d = s
      BY <1>4, <1>9
    <2>2. Agree(s, p, Fields \ {"rx_id", "rx_era", "accepted", "overwritten", "passed",
                        "heard"})
      BY <1>5, <1>6, <2>1 DEF Agree
    <2> QED  BY <1>1, <1>9, <2>2 DEF AcceptMoves
  <1>10. CASE msg.kind # "ping"
    <2> DEFINE y == IF t.tch # "WAIT" \/ t.tch_xmit THEN b ELSE c
    <2>1. Accept(s, msg) = y
      BY <1>1, <1>10
    <2>2. Agree(d, y, Fields \ InFields) /\ Routed(d, y)
      <3>1. t.tch = d.tch /\ t.tch_xmit = d.tch_xmit
            /\ t.rch_received = d.rch_received /\ t.tch_received = d.tch_received
        BY <1>5 DEF Agree, Fields
      <3>2. Agree(d, b, Fields \ InFields) /\ b.rch_received = d.rch_received
        BY <1>5, <1>7, <3>1 DEF Agree, InFields, Fields
      <3>3. Agree(d, c, Fields \ InFields) /\ c.tch_received = d.tch_received
        BY <1>5, <1>8, <3>1 DEF Agree, InFields, Fields
      <3> QED  BY <1>7, <1>8, <3>1, <3>2, <3>3 DEF Routed
    <2> HIDE DEF y
    <2>3. CASE ~discard
      BY <1>4, <1>10, <2>1, <2>2, <2>3 DEF AcceptMoves
    <2>4. CASE discard
      <3>1. d = x
        BY <1>4, <2>4
      <3>2. Agree(s, y, Fields \ (InFields \cup OutFields))
        BY <1>2, <2>2, <3>1 DEF Agree
      <3>3. Routed(s, y)
        BY <1>2, <2>2, <3>1 DEF Routed, Agree, Fields, OutFields
      <3>4. Agree(x, y, {"tx", "tx_xmit", "owed", "answers", "id", "unheard"})
        BY <2>2, <3>1 DEF Agree, Fields, InFields
      <3>5. Discarded(s, y)
        BY <1>2, <3>4 DEF Discarded, Agree, IdKept, IdNext
      <3> QED  BY <2>1, <2>4, <3>2, <3>3, <3>5 DEF AcceptMoves
    <2> QED  BY <2>3, <2>4
  <1> QED  BY <1>9, <1>10

\* The steps of prl_hr when no flag asks for a hard reset that is not under way.
HrMoves(s, t) ==
  \/ t = s
  \/ /\ s.hr \in {"RESET_LAYER", "PHY"} /\ t.hr # "WAIT"
     /\ Agree(s, t, {"phy", "tx", "xmit_status", "last_hard", "id", "unheard", "apart",
                     "hr_flags", "sends", "clean"})
     /\ t.out.n \in {s.out.n, 0}
  \/ /\ s.hr = "PE" /\ "COMPLETE" \in s.hr_flags
     /\ t.tx = "WAIT" /\ t.hr_flags = {} /\ t.apart = (s.apart \/ s.tx = "WAIT_PHY")
     /\ Agree(s, t, {"phy", "last_hard", "id", "unheard", "sends", "clean", "out"})

\* Every state of prl_hr.
LEMMA HrRunMoves ==
  ASSUME NEW s, Good(s), ResetsOK(s)
  PROVE  HrMoves(s, prl_hr_run(s))
  <1>0. DOMAIN s = Fields
    BY DEF Good, Layer
  <1>1. CASE s.hr = "WAIT"
    <2>1. prl_hr_run(s) = s
      BY <1>1 DEF prl_hr_run, ResetsOK
    <2> QED  BY <2>1 DEF HrMoves
  <1>2. CASE s.hr = "RESET_LAYER"
    <2> DEFINE m == [None EXCEPT !.kind = "hard"]
               a == [s EXCEPT !.hr = "PHY", !.tch_xmit = TRUE, !.out = m]
               b == [s EXCEPT !.hr = "PE", !.pe_reset = TRUE]
    <2>1. m.n = 0
      BY DEF None
    <2>2. prl_hr_run(s) \in {a, b}
      BY <1>2 DEF prl_hr_run
    <2> HIDE DEF m
    <2>3. Agree(s, a, Fields \ {"hr", "tch_xmit", "out"}) /\ a.hr = "PHY" /\ a.out = m
      BY <1>0 DEF Agree, Fields
    <2>4. Agree(s, b, Fields \ {"hr", "pe_reset"}) /\ b.hr = "PE"
      BY <1>0 DEF Agree, Fields
    <2> HIDE DEF a, b
    <2>5. HrMoves(s, a)
      BY <1>2, <2>1, <2>3 DEF HrMoves, Agree, Fields
    <2>6. HrMoves(s, b)
      BY <1>2, <2>4 DEF HrMoves, Agree, Fields
    <2> QED  BY <2>2, <2>5, <2>6
  <1>3. CASE s.hr = "PHY"
    <2> DEFINE x == s.expired \ {"hr"}
               b == [s EXCEPT !.hr = "PE", !.pe_reset = TRUE, !.expired = x]
    <2>1. prl_hr_run(s) \in {s, b}
      BY <1>3 DEF prl_hr_run
    <2> HIDE DEF x
    <2>2. Agree(s, b, Fields \ {"hr", "pe_reset", "expired"}) /\ b.hr = "PE"
      BY <1>0 DEF Agree, Fields
    <2> HIDE DEF b
    <2>3. HrMoves(s, b)
      BY <1>3, <2>2 DEF HrMoves, Agree, Fields
    <2> QED  BY <2>1, <2>3 DEF HrMoves
  <1>4. CASE s.hr = "PE"
    <2> DEFINE p == prl_tx_phy_layer_reset(s)
               w == ToWait(p)
               o == w.apart \/ s.tx = "WAIT_PHY"
               t == [w EXCEPT !.hr = "WAIT", !.hr_flags = {}, !.apart = o]
    <2>1. prl_hr_run(s) = IF "COMPLETE" \in s.hr_flags THEN t ELSE s
      BY <1>4 DEF prl_hr_run
    <2>2. Good(p) /\ Agree(s, p, Fields \ TxFields) /\ p.tx = "WAIT"
      BY PhyLayerResetAgrees, PhyLayerResetOk DEF Ok, TxFields
    <2> HIDE DEF p
    <2>3. Agree(p, w, Fields \ (RchFields \cup TchFields)) /\ DOMAIN w = Fields
      BY <2>2, ToWaitAgrees DEF Agree, Good, Layer
    <2> HIDE DEF w, o
    <2>4. Agree(w, t, Fields \ {"hr", "hr_flags", "apart"})
          /\ t.hr_flags = {} /\ t.apart = o
      BY <2>3 DEF Agree, Fields
    <2> HIDE DEF t
    <2>5. o = (s.apart \/ s.tx = "WAIT_PHY")
      BY <2>2, <2>3 DEF o, Agree, Fields, TxFields, RchFields, TchFields
    <2>6. t.tx = "WAIT"
      BY <2>2, <2>3, <2>4 DEF Agree, Fields, RchFields, TchFields
    <2>7. Agree(s, t, {"phy", "last_hard", "id", "unheard", "sends", "clean", "out"})
      BY <2>2, <2>3, <2>4 DEF Agree, Fields, TxFields, RchFields, TchFields
    <2>8. "COMPLETE" \in s.hr_flags => HrMoves(s, t)
      BY <1>4, <2>4, <2>5, <2>6, <2>7 DEF HrMoves
    <2> QED  BY <2>1, <2>8 DEF HrMoves
  <1> QED  BY <1>1, <1>2, <1>3, <1>4 DEF Good, Layer

-----------------------------------------------------------------------------
(* The message ids of the two sides.                                       *)

\* x is the id before s.id, or one before those that were not acknowledged.
Near(x, s) ==
  x = -1 \/ \E j \in 0 .. s.unheard :
              x + 1 + j \in {s.id, s.id + PD_MESSAGE_ID_COUNT + 1}

\* The id that the partner has seen last is such an id, or that of the message
\* it has received and not acknowledged.
SeenOK(s, seen) ==
  \/ Near(seen, s)
  \/ seen = s.id /\ s.tx = "WAIT_PHY" /\ s.phy = None /\ ~s.last_hard

\* The message that the PHY transmits has the next id, unless prl_tx has given
\* it up.
PhyOK(s) ==
  s.phy # None /\ s.phy.kind # "hard" =>
    Near(s.phy.id, s) \/ (s.tx = "WAIT_PHY" /\ s.phy.id = s.id)

\* A hard reset of the partner is under way.
Resetting(s, hard) == hard \/ "PARTNER" \in s.hr_flags

\* The ids while the two sides are in step.
InStep(s, seen, crosses) ==
  /\ s.tx = "WAIT_PHY" /\ s.phy # None /\ s.phy.kind \notin {"hard", "soft"} =>
       s.unheard < PD_MESSAGE_ID_COUNT
  /\ s.unheard < PD_MESSAGE_ID_COUNT =>
       SeenOK(s, seen) /\ ("PARTNER" \in s.hr_flags \/ PhyOK(s))
  /\ crosses => seen = -1

\* What prl_tx transmits has its id; when it was acknowledged the partner has seen
\* that id, or has started anew.
Transmitting(s, seen) ==
  s.tx = "WAIT_PHY" =>
    /\ s.phy # None => s.phy.id = s.id /\ s.last_hard = (s.phy.kind = "hard")
    /\ s.xmit_status = "SUCCESS" =>
         s.phy = None /\ (seen = -1 \/ (seen = s.id /\ ~s.last_hard))

\* The partner starts anew with its hard reset, and nothing of before a hard reset
\* is transmitted when it ends.
ResetsApart(s, st, seen, hard) ==
  /\ Resetting(s, hard) => seen = -1
  /\ "COMPLETE" \in s.hr_flags =>
       /\ s.hr = "PE"
       /\ s.phy = None \/ (s.tx = "WAIT_PHY" /\ st \in {"tch_again", "hr"})

IdsOK(s, st, seen, hard, crosses) ==
  /\ seen \in -1 .. PD_MESSAGE_ID_COUNT
  /\ s.apart \/ InStep(s, seen, crosses)
  /\ Transmitting(s, seen) /\ ResetsApart(s, st, seen, hard)

\* The fields it is about.
IdFields == {"phy", "tx", "xmit_status", "last_hard", "id", "unheard", "hr",
             "hr_flags"}

\* What leaves these fields alone keeps the ids.
LEMMA IdsFrame ==
  ASSUME NEW s, NEW t, Agree(s, t, IdFields), s.apart => t.apart,
         NEW st, NEW st2, NEW seen, NEW hard, NEW crosses,
         IdsOK(s, st, seen, hard, crosses),
         st \notin {"tch_again", "hr"} \/ st2 \in {"tch_again", "hr"}
  PROVE  IdsOK(t, st2, seen, hard, crosses)
  <1>1. /\ t.phy = s.phy /\ t.tx = s.tx /\ t.xmit_status = s.xmit_status
        /\ t.last_hard = s.last_hard /\ t.id = s.id /\ t.unheard = s.unheard
        /\ t.hr = s.hr /\ t.hr_flags = s.hr_flags
    BY DEF Agree, IdFields
  <1>2. SeenOK(s, seen) => SeenOK(t, seen)
    BY <1>1 DEF SeenOK, Near
  <1>3. PhyOK(s) => PhyOK(t)
    BY <1>1 DEF PhyOK, Near
  <1>4. InStep(s, seen, crosses) => InStep(t, seen, crosses)
    BY <1>1, <1>2, <1>3 DEF InStep, Resetting
  <1>5. Transmitting(t, seen) /\ ResetsApart(t, st2, seen, hard)
    BY <1>1 DEF IdsOK, Transmitting, ResetsApart, Resetting
  <1> QED  BY <1>1, <1>4, <1>5 DEF IdsOK

\* The next id leaves one more behind.
LEMMA NearNext ==
  ASSUME NEW s, NEW t, Good(s), IdNext(s, t), s.unheard < PD_MESSAGE_ID_COUNT,
         NEW x \in -1 .. PD_MESSAGE_ID_COUNT, Near(x, s) \/ x = s.id
  PROVE  Near(x, t)
  <1> DEFINE N == PD_MESSAGE_ID_COUNT
             n == s.id
             u == s.unheard
  <1>0. N \in Nat /\ n \in 0 .. N /\ u \in 0 .. N /\ u < N
    BY PrlAssumption DEF Good, Layer
  <1>1. t.unheard = u + 1 /\ t.id = (n + 1) % (N + 1)
    BY DEF IdNext
  <1>2. t.id = IF n = N THEN 0 ELSE n + 1
    BY <1>0, <1>1
  <1>3. ASSUME x = -1 PROVE Near(x, t)
    BY <1>3 DEF Near
  <1>4. ASSUME NEW j \in 0 .. u, x # -1, x + 1 + j \in {n, n + N + 1} PROVE Near(x, t)
    <2>1. j + 1 \in 0 .. u + 1
      BY <1>0
    <2>2. x + 1 + (j + 1) \in {t.id, t.id + N + 1}
      BY <1>0, <1>2, <1>4
    <2> QED  BY <1>1, <2>1, <2>2 DEF Near
  <1>5. ASSUME x = n PROVE Near(x, t)
    <2>1. 0 \in 0 .. u + 1
      BY <1>0
    <2>2. x + 1 + 0 \in {t.id, t.id + N + 1}
      BY <1>0, <1>2, <1>5
    <2> QED  BY <1>1, <2>1, <2>2 DEF Near
  <1> QED  BY <1>3, <1>4, <1>5 DEF Near

\* A result of prl_tx ends what is transmitted: the id is not used again.
LEMMA EndedIds ==
  ASSUME NEW s, NEW t, Good(s), Ended(s, t), s.tx = "WAIT_PHY",
         NEW seen, NEW hard, NEW crosses, IdsOK(s, "tx", seen, hard, crosses)
  PROVE  IdsOK(t, "tch_again", seen, hard, crosses)
  <1> DEFINE N == PD_MESSAGE_ID_COUNT
  <1>0. /\ N \in Nat /\ s.id \in 0 .. N /\ s.unheard \in 0 .. N
        /\ seen \in -1 .. N /\ s.phy.id \in 0 .. N
    BY PrlAssumption DEF Good, Layer, Message, IdsOK
  <1>1. /\ t.phy = s.phy /\ t.last_hard = s.last_hard /\ t.apart = s.apart
        /\ t.hr = s.hr /\ t.hr_flags = s.hr_flags /\ t.tx = "WAIT"
    BY DEF Ended, Agree, Fields
  <1>2. Transmitting(t, seen)
    BY <1>1 DEF Transmitting
  <1>3. ResetsApart(t, "tch_again", seen, hard)
    BY <1>1 DEF IdsOK, ResetsApart, Resetting
  <1>4. ASSUME ~t.apart PROVE InStep(t, seen, crosses)
    <2>1. InStep(s, seen, crosses) /\ Transmitting(s, seen)
      BY <1>1, <1>4 DEF IdsOK
    <2>2. ASSUME t.unheard < N
          PROVE  Near(seen, t) /\ ("PARTNER" \in s.hr_flags \/ PhyOK(t))
      <3>1. CASE s.xmit_status = "SUCCESS"
        <4>1. /\ s.phy = None /\ t.unheard = 0
              /\ seen = -1 \/ (seen = s.id /\ ~s.last_hard)
          BY <2>1, <3>1 DEF Ended, Transmitting
        <4>2. ASSUME seen = s.id, ~s.last_hard PROVE Near(seen, t)
          <5>1. t.id = (s.id + 1) % (N + 1)
            BY <3>1, <4>2 DEF Ended
          <5>2. t.id = IF s.id = N THEN 0 ELSE s.id + 1
            BY <1>0, <5>1
          <5>3. 0 \in 0 .. t.unheard /\ seen + 1 + 0 \in {t.id, t.id + N + 1}
            BY <1>0, <4>1, <4>2, <5>2
          <5> QED  BY <5>3 DEF Near
        <4>3. PhyOK(t)
          BY <1>1, <4>1 DEF PhyOK
        <4> QED  BY <4>1, <4>2, <4>3 DEF Near
      <3>2. CASE s.xmit_status # "SUCCESS" /\ s.last_hard
        <4>1. t.id = s.id /\ t.unheard = s.unheard
          BY <3>2 DEF Ended, IdKept
        <4>2. Near(seen, s)
          BY <2>1, <2>2, <3>2, <4>1 DEF InStep, SeenOK
        <4>3. PhyOK(t)
          BY <1>1, <2>1, <3>2 DEF PhyOK, Transmitting
        <4> QED  BY <4>1, <4>2, <4>3 DEF Near
      <3>3. CASE s.xmit_status # "SUCCESS" /\ ~s.last_hard
        <4>1. IdNext(s, t) /\ s.unheard < N
          BY <1>0, <2>2, <3>3 DEF Ended, IdNext
        <4>2. SeenOK(s, seen) /\ ("PARTNER" \in s.hr_flags \/ PhyOK(s))
          BY <2>1, <4>1 DEF InStep
        <4>3. Near(seen, t)
          BY <1>0, <4>1, <4>2, NearNext DEF SeenOK
        <4>4. PhyOK(s) => PhyOK(t)
          <5>1. ASSUME PhyOK(s), s.phy # None, s.phy.kind # "hard"
                PROVE  Near(s.phy.id, t)
            <6>1. s.phy.id \in -1 .. N
              BY <1>0
            <6>2. Near(s.phy.id, s) \/ s.phy.id = s.id
              BY <5>1 DEF PhyOK
            <6> QED  BY <4>1, <6>1, <6>2, NearNext
          <5> QED  BY <1>1, <5>1 DEF PhyOK
        <4> QED  BY <4>2, <4>3, <4>4
      <3> QED  BY <3>1, <3>2, <3>3
    <2> QED  BY <1>1, <2>1, <2>2 DEF InStep, SeenOK, Resetting
  <1> QED  BY <1>2, <1>3, <1>4 DEF IdsOK

\* What is handed to the PHY has the id of the layer.
LEMMA ConstructedIds ==
  ASSUME NEW s, NEW t, Good(s), Constructed(s, t), s.tx # "WAIT_PHY",
         NEW seen, NEW hard, NEW crosses, IdsOK(s, "tx", seen, hard, crosses)
  PROVE  IdsOK(t, "tch_again", seen, hard, crosses)
  <1>1. /\ t.id = s.id /\ t.unheard = s.unheard /\ t.hr = s.hr
        /\ t.hr_flags = s.hr_flags
    BY DEF Constructed, Agree, Fields, PhyFields
  <1>2. /\ t.tx = "WAIT_PHY" /\ t.xmit_status = "UNSET"
        /\ t.phy.id = s.id /\ t.phy.kind = s.out.kind
        /\ t.last_hard = (s.out.kind = "hard")
        /\ t.apart = (s.apart \/ s.unheard = PD_MESSAGE_ID_COUNT)
    BY DEF Constructed, Good, Layer, Message
  <1>3. Transmitting(t, seen) /\ ResetsApart(t, "tch_again", seen, hard)
    BY <1>1, <1>2 DEF IdsOK, Transmitting, ResetsApart, Resetting
  <1>4. ASSUME ~t.apart PROVE InStep(t, seen, crosses)
    <2>1. InStep(s, seen, crosses) /\ s.unheard < PD_MESSAGE_ID_COUNT
      <3>1. ~(s.apart \/ s.unheard = PD_MESSAGE_ID_COUNT)
        BY <1>2, <1>4
      <3>2. s.unheard < PD_MESSAGE_ID_COUNT
        BY <3>1, PrlAssumption DEF Good, Layer
      <3> QED  BY <3>1, <3>2 DEF IdsOK
    <2>2. Near(seen, t)
      BY <1>1, <2>1 DEF InStep, SeenOK, Near
    <2>3. PhyOK(t)
      BY <1>1, <1>2 DEF PhyOK
    <2> QED  BY <1>1, <2>1, <2>2, <2>3 DEF InStep, SeenOK, Resetting
  <1> QED  BY <1>3, <1>4 DEF IdsOK

\* prl_tx: it goes on waiting, transmits, or ends a transmission.
LEMMA TxIds ==
  ASSUME NEW s, Good(s), NEW seen, NEW hard, NEW crosses,
         IdsOK(s, "tx", seen, hard, crosses)
  PROVE  IdsOK(prl_tx_run(s), "tch_again", seen, hard, crosses)
  <1> DEFINE t == prl_tx_run(s)
  <1>1. TxMoves(s, t)
    BY TxRunMoves
  <1> HIDE DEF t
  <1>2. ASSUME s.tx \in TxWaits, t.tx \in TxWaits,
               Agree(s, t, Fields \ {"sink_ng", "tx", "expired", "xmit_status"})
        PROVE  IdsOK(t, "tch_again", seen, hard, crosses)
    <2>1. /\ t.phy = s.phy /\ t.apart = s.apart /\ t.hr = s.hr
          /\ t.hr_flags = s.hr_flags /\ t.id = s.id /\ t.unheard = s.unheard
          /\ t.tx # "WAIT_PHY" /\ s.tx # "WAIT_PHY"
      BY <1>2 DEF Agree, Fields, TxWaits
    <2>2. Transmitting(t, seen) /\ ResetsApart(t, "tch_again", seen, hard)
      BY <2>1 DEF IdsOK, Transmitting, ResetsApart, Resetting
    <2>3. SeenOK(s, seen) => SeenOK(t, seen)
      BY <2>1 DEF SeenOK, Near
    <2>4. PhyOK(s) => PhyOK(t)
      BY <2>1 DEF PhyOK, Near
    <2>5. InStep(s, seen, crosses) => InStep(t, seen, crosses)
      BY <2>1, <2>3, <2>4 DEF InStep, Resetting
    <2> QED  BY <2>1, <2>2, <2>5 DEF IdsOK
  <1>3. ASSUME Softened(s, t), s.tx # "WAIT_PHY"
        PROVE  IdsOK(t, "tch_again", seen, hard, crosses)
    <2>1. /\ t.phy = s.phy /\ t.hr = s.hr /\ t.hr_flags = s.hr_flags
          /\ t.apart /\ t.tx = "LAYER_RESET"
      BY <1>3 DEF Softened, Agree, Fields
    <2>2. Transmitting(t, seen) /\ ResetsApart(t, "tch_again", seen, hard)
      BY <1>3, <2>1 DEF IdsOK, Transmitting, ResetsApart, Resetting
    <2> QED  BY <2>1, <2>2 DEF IdsOK
  <1>4. IdsOK(s, "tch_again", seen, hard, crosses)
    BY IdsFrame DEF Agree
  <1>5. IdsOK(t, "tch_again", seen, hard, crosses)
    BY <1>1, <1>2, <1>3, <1>4, EndedIds, ConstructedIds DEF TxMoves
  <1> QED  BY <1>5 DEF t

\* A hard reset of the layer's own sets the ids apart.
LEMMA RestartIds ==
  ASSUME NEW s, NEW t, Restart(s, t), NEW st, NEW st2, NEW seen, NEW hard, NEW crosses,
         IdsOK(s, st, seen, hard, crosses)
  PROVE  IdsOK(t, st2, seen, hard, crosses)
  BY DEF Restart, IdsOK, Transmitting, ResetsApart, Resetting

\* rch and tch touch no id, unless they start a hard reset.
LEMMA RchIds ==
  ASSUME NEW s, Good(s), ResetsOK(s), NEW seen, NEW hard, NEW crosses,
         IdsOK(s, "rch", seen, hard, crosses)
  PROVE  IdsOK(rch_run(s), "tch", seen, hard, crosses)
  <1> DEFINE t == rch_run(s)
  <1>1. Restart(s, t) \/ RchMoves(s, t)
    BY RchRunAgrees
  <1> HIDE DEF t
  <1>2. RchMoves(s, t) => Agree(s, t, IdFields) /\ (s.apart => t.apart)
    BY DEF RchMoves, Agree, RchKept, IdFields
  <1>3. IdsOK(t, "tch", seen, hard, crosses)
    BY <1>1, <1>2, IdsFrame, RestartIds
  <1> QED  BY <1>3 DEF t

LEMMA TchIds ==
  ASSUME NEW s, Good(s), ResetsOK(s), NEW seen, NEW hard, NEW crosses, NEW st, NEW st2,
         IdsOK(s, st, seen, hard, crosses),
         (st = "tch" /\ st2 = "tx") \/ (st = "tch_again" /\ st2 = "hr")
  PROVE  IdsOK(tch_run(s), st2, seen, hard, crosses)
  <1> DEFINE t == tch_run(s)
  <1>1. Restart(s, t) \/ TchMoves(s, t)
    BY TchRunAgrees
  <1> HIDE DEF t
  <1>2. TchMoves(s, t) => Agree(s, t, IdFields) /\ (s.apart => t.apart)
    BY DEF TchMoves, Agree, TchKept, IdFields
  <1>3. IdsOK(t, st2, seen, hard, crosses)
    BY <1>1, <1>2, IdsFrame, RestartIds
  <1> QED  BY <1>3 DEF t

\* prl_hr: at the end of a hard reset what was being transmitted sets the ids apart.
LEMMA HrIds ==
  ASSUME NEW s, Good(s), ResetsOK(s), NEW seen, NEW hard, NEW crosses,
         IdsOK(s, "hr", seen, hard, crosses), "COMPLETE" \notin prl_hr_run(s).hr_flags
  PROVE  IdsOK(prl_hr_run(s), "tc", seen, hard, crosses)
  <1> DEFINE t == prl_hr_run(s)
  <1>1. HrMoves(s, t) /\ "COMPLETE" \notin t.hr_flags
    BY HrRunMoves
  <1> HIDE DEF t
  <1>2. ASSUME NEW u, "COMPLETE" \notin u.hr_flags,
               Agree(s, u, {"phy", "tx", "xmit_status", "last_hard", "id", "unheard",
                            "apart", "hr_flags"})
        PROVE  IdsOK(u, "tc", seen, hard, crosses)
    <2>1. /\ u.phy = s.phy /\ u.tx = s.tx /\ u.xmit_status = s.xmit_status
          /\ u.last_hard = s.last_hard /\ u.id = s.id /\ u.unheard = s.unheard
          /\ u.apart = s.apart /\ u.hr_flags = s.hr_flags
      BY <1>2 DEF Agree
    <2>2. SeenOK(s, seen) => SeenOK(u, seen)
      BY <2>1 DEF SeenOK, Near
    <2>3. PhyOK(s) => PhyOK(u)
      BY <2>1 DEF PhyOK, Near
    <2>4. InStep(s, seen, crosses) => InStep(u, seen, crosses)
      BY <2>1, <2>2, <2>3 DEF InStep, Resetting
    <2>5. Transmitting(u, seen) /\ ResetsApart(u, "tc", seen, hard)
      BY <1>2, <2>1 DEF IdsOK, Transmitting, ResetsApart, Resetting
    <2> QED  BY <2>1, <2>4, <2>5 DEF IdsOK
  <1>3. ASSUME s.hr = "PE", "COMPLETE" \in s.hr_flags, t.tx = "WAIT",
               t.hr_flags = {}, t.apart = (s.apart \/ s.tx = "WAIT_PHY"),
               Agree(s, t, {"phy", "last_hard", "id", "unheard", "sends", "clean",
                            "out"})
        PROVE  IdsOK(t, "tc", seen, hard, crosses)
    <2>1. t.phy = s.phy /\ t.id = s.id /\ t.unheard = s.unheard
      BY <1>3 DEF Agree
    <2>2. Transmitting(t, seen) /\ ResetsApart(t, "tc", seen, hard)
      BY <1>3 DEF IdsOK, Transmitting, ResetsApart, Resetting
    <2>3. ASSUME ~t.apart PROVE InStep(t, seen, crosses)
      <3>1. InStep(s, seen, crosses) /\ s.tx # "WAIT_PHY" /\ s.phy = None
        BY <1>3, <2>3 DEF IdsOK, ResetsApart
      <3>2. PhyOK(t)
        BY <2>1, <3>1 DEF PhyOK
      <3>3. SeenOK(s, seen) => SeenOK(t, seen)
        BY <2>1, <3>1 DEF SeenOK, Near
      <3> QED  BY <1>3, <2>1, <3>1, <3>2, <3>3 DEF InStep
    <2> QED  BY <2>2, <2>3 DEF IdsOK
  <1>4. IdsOK(t, "tc", seen, hard, crosses)
    <2>1. CASE t = s
      BY <1>1, <1>2, <2>1 DEF Agree
    <2>2. CASE /\ s.hr \in {"RESET_LAYER", "PHY"} /\ t.hr # "WAIT"
               /\ Agree(s, t, {"phy", "tx", "xmit_status", "last_hard", "id", "unheard",
                               "apart", "hr_flags", "sends", "clean"})
               /\ t.out.n \in {s.out.n, 0}
      BY <1>1, <1>2, <2>2 DEF Agree
    <2> QED  BY <1>1, <1>3, <2>1, <2>2 DEF HrMoves
  <1> QED  BY <1>4 DEF t

\* What the partner has seen and got after it has received msg.
LEMMA DeliveredTo ==
  ASSUME PartnerOK, NEW msg
  PROVE  LET p == Delivered(msg) IN
         /\ p.seen = IF msg.kind = "hard" THEN -1 ELSE msg.id
         /\ p.got = IF msg.kind = "hard" THEN partner.got
                    ELSE IF msg.kind = "soft" THEN msg.n
                    ELSE IF msg.id # partner.seen /\ msg.n > 0 THEN msg.n
                    ELSE partner.got
  <1> DEFINE p == [partner EXCEPT !.last = None]
             g == IF msg.n > 0 THEN msg.n ELSE p.got
             h == [p EXCEPT !.id = 0, !.seen = -1]
             f == [p EXCEPT !.id = 0, !.seen = msg.id, !.got = msg.n]
             o == [p EXCEPT !.seen = msg.id, !.got = g]
  <1>1. /\ DOMAIN p = {"id", "seen", "sends", "got", "last"}
        /\ p.seen = partner.seen /\ p.got = partner.got
    BY DEF PartnerOK, Partner
  <1>2. Delivered(msg) = IF msg.kind = "hard" THEN h
                         ELSE IF msg.kind = "soft" THEN f
                         ELSE IF msg.id = partner.seen THEN p ELSE o
    BY <1>1 DEF Delivered
  <1> HIDE DEF p
  <1>3. /\ h.seen = -1 /\ h.got = p.got /\ f.seen = msg.id /\ f.got = msg.n
        /\ o.seen = msg.id /\ o.got = g
    BY <1>1
  <1> QED  BY <1>1, <1>2, <1>3

\* The partner has received what the PHY transmitted.
Reached(s, hard, seen) ==
  /\ s.phy # None /\ ~Resetting(s, hard)
  /\ seen = IF s.phy.kind = "hard" THEN -1 ELSE s.phy.id

\* The PHY transmits nothing any more: the partner has received it, or starts anew,
\* or neither.
LEMMA SilentIds ==
  ASSUME NEW s, NEW t, Good(s), NEW st, NEW seen, NEW hard, NEW crosses,
         NEW seen2, NEW hard2, NEW crosses2, IdsOK(s, st, seen, hard, crosses),
         t.phy = None,
         Agree(s, t, {"tx", "last_hard", "id", "unheard", "hr", "hr_flags"}),
         hard2 => hard \/ seen2 = -1,
         crosses2 => crosses \/ seen2 = -1,
         seen2 \in {seen, -1} \/ Reached(s, hard, seen2),
         \/ t.apart \/ seen2 = -1 \/ (~s.apart /\ seen2 = seen)
         \/ ~s.apart /\ ~crosses
         \/ /\ Reached(s, hard, seen2) /\ s.phy.kind = "soft" /\ s.tx = "WAIT_PHY"
            /\ ~crosses,
         \/ t.xmit_status # "SUCCESS"
         \/ s.xmit_status = "SUCCESS" /\ seen2 \in {seen, -1}
         \/ Reached(s, hard, seen2)
  PROVE  IdsOK(t, st, seen2, hard2, crosses2)
  <1> DEFINE N == PD_MESSAGE_ID_COUNT
  <1>0. s.phy.id \in 0 .. N /\ seen \in -1 .. N /\ N \in Nat
    BY PrlAssumption DEF Good, Layer, Message, IdsOK
  <1>1. /\ t.tx = s.tx /\ t.last_hard = s.last_hard /\ t.id = s.id
        /\ t.unheard = s.unheard /\ t.hr = s.hr /\ t.hr_flags = s.hr_flags
    BY DEF Agree
  <1>2. seen2 \in -1 .. N
    BY <1>0 DEF Reached
  <1>3. ResetsApart(t, st, seen2, hard2)
    <2>1. Resetting(t, hard2) => seen2 = -1
      BY <1>1 DEF Resetting, Reached, IdsOK, ResetsApart
    <2> QED  BY <1>1, <2>1 DEF IdsOK, ResetsApart
  <1>4. Transmitting(t, seen2)
    BY <1>1 DEF Transmitting, IdsOK, Reached
  <1>5. ASSUME ~t.apart PROVE InStep(t, seen2, crosses2)
    <2>1. crosses2 => seen2 = -1
      BY <1>5 DEF IdsOK, InStep, Reached
    <2>2. ASSUME s.unheard < N PROVE SeenOK(t, seen2)
      <3>1. CASE seen2 = -1
        BY <3>1 DEF SeenOK, Near
      <3>2. CASE ~s.apart /\ seen2 = seen
        <4>1. SeenOK(s, seen)
          BY <2>2, <3>2 DEF IdsOK, InStep
        <4> QED  BY <1>1, <3>2, <4>1 DEF SeenOK, Near
      <3>3. CASE ~s.apart /\ Reached(s, hard, seen2) /\ seen2 # -1
        <4>1. PhyOK(s) /\ Transmitting(s, seen)
          BY <2>2, <3>3 DEF IdsOK, InStep, Reached, Resetting
        <4>2. Near(seen2, s) \/ (s.tx = "WAIT_PHY" /\ seen2 = s.id /\ ~s.last_hard)
          BY <3>3, <4>1 DEF PhyOK, Reached, Transmitting
        <4> QED  BY <1>1, <4>2 DEF SeenOK, Near
      <3>4. CASE Reached(s, hard, seen2) /\ s.phy.kind = "soft" /\ s.tx = "WAIT_PHY"
        <4>1. seen2 = s.id /\ ~s.last_hard
          BY <3>4 DEF IdsOK, Reached, Transmitting
        <4> QED  BY <1>1, <3>4, <4>1 DEF SeenOK
      <3> QED  BY <1>5, <3>1, <3>2, <3>3, <3>4
    <2>3. PhyOK(t)
      BY DEF PhyOK
    <2> QED  BY <1>1, <2>1, <2>2, <2>3 DEF InStep
  <1> QED  BY <1>2, <1>3, <1>4, <1>5 DEF IdsOK

\* The ids of the two sides in a state.
Ids == IdsOK(prl, stage, partner.seen, hard_rx, CrossesReset)

\* The PHY has a result: an acknowledged message is the last the partner has seen.
LEMMA CompleteIds ==
  ASSUME IInv, Ids, NEW status \in {"SUCCESS", "FAILED"}, pd_transmit_complete(status)
  PROVE  Ids'
  <1> DEFINE a == OutOfStep(status)
             s == prl
             t == prl'
  <1>1. /\ prl' = [prl EXCEPT !.phy = None, !.xmit_status = status, !.apart = a]
        /\ stage' = stage /\ hard_rx' = hard_rx /\ CrossesReset' = CrossesReset
        /\ s.phy # None /\ (PartnerResets => status = "FAILED")
        /\ \/ ~PartnerResets /\ partner' = Delivered(prl.phy)
           \/ status = "FAILED" /\ partner' = partner
    BY DEF pd_transmit_complete, CrossesReset
  <1>2. ~a => \/ s.phy.kind = "hard" /\ status = "SUCCESS"
              \/ ~CrossesReset /\ ~s.apart
              \/ /\ ~CrossesReset /\ s.phy.kind = "soft" /\ status = "SUCCESS"
                 /\ s.tx = "WAIT_PHY"
    BY DEF OutOfStep
  <1> HIDE DEF a
  <1>3. Good(s) /\ PartnerOK
    BY DEF IInv, QueueOK
  <1>4. /\ t.phy = None /\ t.xmit_status = status /\ t.apart = a
        /\ Agree(s, t, {"tx", "last_hard", "id", "unheard", "hr", "hr_flags"})
    BY <1>1, <1>3 DEF Agree, Good, Layer, Fields
  <1>5. PartnerResets <=> Resetting(s, hard_rx)
    BY DEF PartnerResets, Resetting
  <1>6. Delivered(prl.phy).seen = IF s.phy.kind = "hard" THEN -1 ELSE s.phy.id
    BY <1>3, DeliveredTo
  <1> HIDE DEF s, t
  <1>7. \/ Reached(s, hard_rx, partner'.seen)
        \/ status = "FAILED" /\ partner'.seen = partner.seen
    BY <1>1, <1>5, <1>6 DEF Reached, s
  <1>8. \/ t.apart \/ partner'.seen = -1 \/ (~s.apart /\ ~CrossesReset)
        \/ /\ Reached(s, hard_rx, partner'.seen) /\ s.phy.kind = "soft"
           /\ s.tx = "WAIT_PHY" /\ ~CrossesReset
    BY <1>2, <1>4, <1>7 DEF Reached
  <1>9. IdsOK(t, stage, partner'.seen, hard_rx, CrossesReset)
    BY <1>3, <1>4, <1>7, <1>8, SilentIds DEF Ids, s
  <1> QED  BY <1>1, <1>9 DEF Ids, t

\* The timeout of prl_tx: the partner may have received the message or not.
LEMMA ExpireIds ==
  ASSUME IInv, Ids, NEW timer \in Timers, Expire(timer)
  PROVE  Ids'
  <1> DEFINE p == IF timer = "tx" THEN None ELSE prl.phy
             a == prl.apart \/ (timer = "tx" /\ CrossesReset)
             x == prl.expired \cup {timer}
             s == prl
             t == prl'
  <1>1. /\ prl' = [prl EXCEPT !.expired = x, !.phy = p, !.apart = a]
        /\ stage' = stage /\ hard_rx' = hard_rx /\ CrossesReset' = CrossesReset
        /\ \/ partner' = partner
           \/ timer = "tx" /\ ~PartnerResets /\ prl.phy # None
                /\ partner' = Delivered(prl.phy)
    BY DEF Expire, CrossesReset
  <1>2. Good(s) /\ PartnerOK
    BY DEF IInv, QueueOK
  <1> HIDE DEF p, a, x
  <1>3. /\ t.phy = p /\ t.apart = a
        /\ Agree(s, t, {"tx", "last_hard", "id", "unheard", "hr", "hr_flags",
                        "xmit_status"})
    BY <1>1, <1>2 DEF Agree, Good, Layer, Fields
  <1>4. PartnerResets <=> Resetting(s, hard_rx)
    BY DEF PartnerResets, Resetting
  <1>5. Delivered(prl.phy).seen = IF s.phy.kind = "hard" THEN -1 ELSE s.phy.id
    BY <1>2, DeliveredTo
  <1>6. CASE timer = "tx"
    <2>1. p = None /\ a = (prl.apart \/ CrossesReset)
      BY <1>6 DEF p, a
    <2> HIDE DEF t
    <2>2. Reached(s, hard_rx, partner'.seen) \/ partner'.seen = partner.seen
      BY <1>1, <1>4, <1>5 DEF Reached
    <2>3. t.apart \/ (~s.apart /\ ~CrossesReset)
      BY <1>3, <2>1
    <2>4. t.xmit_status = s.xmit_status
      BY <1>3 DEF Agree
    <2> HIDE DEF s
    <2>5. Agree(s, t, {"tx", "last_hard", "id", "unheard", "hr", "hr_flags"})
      BY <1>3, AgreeSub
    <2>6. IdsOK(t, stage, partner'.seen, hard_rx, CrossesReset)
      BY <1>2, <1>3, <2>1, <2>2, <2>3, <2>4, <2>5, SilentIds DEF Ids, s
    <2> QED  BY <1>1, <2>6 DEF Ids, t
  <1>7. CASE timer # "tx"
    <2>1. p = prl.phy /\ partner' = partner /\ (s.apart => a)
      BY <1>1, <1>7 DEF p, a
    <2>2. Agree(s, t, IdFields) /\ (s.apart => t.apart)
      BY <1>3, <2>1 DEF Agree, IdFields
    <2> HIDE DEF s, t
    <2>3. IdsOK(t, stage, partner.seen, hard_rx, CrossesReset)
      BY <2>2, IdsFrame DEF Ids, s
    <2> QED  BY <1>1, <2>1, <2>3 DEF Ids, t
  <1> QED  BY <1>6, <1>7

\* A message arrives: what the PHY was to transmit is discarded.
LEMMA ArriveIds ==
  ASSUME IInv, Ids, NEW msg, Arrive(msg), stage' = stage, hard_rx' = hard_rx,
         partner'.seen \in {partner.seen, -1},
         msg.kind = "soft" => CrossesReset \/ partner'.seen = -1
  PROVE  Ids'
  <1> DEFINE s == prl
             t == prl'
             failed == [prl EXCEPT !.phy = None, !.xmit_status = "FAILED"]
  <1>1. Good(s) /\ queue \in Seq(Message)
    BY DEF IInv, QueueOK
  <1>2. IF s.phy = None THEN t = s ELSE t = failed
    BY DEF Arrive
  <1>3. queue' \in {queue, Append(queue, msg)}
    BY DEF Arrive
  <1>4. CrossesReset' => CrossesReset \/ partner'.seen = -1
    <2>1. CASE queue' = queue
      BY <2>1 DEF CrossesReset
    <2>2. CASE queue' = Append(queue, msg)
      <3> SUFFICES ASSUME NEW i \in 1 .. Len(queue'), queue'[i].kind = "soft"
                   PROVE  CrossesReset \/ partner'.seen = -1
        BY DEF CrossesReset
      <3>1. CASE i \in 1 .. Len(queue)
        <4>1. queue'[i] = queue[i]
          BY <1>1, <2>2, <3>1
        <4> QED  BY <3>1, <4>1 DEF CrossesReset
      <3>2. CASE i \notin 1 .. Len(queue)
        <4>1. queue'[i] = msg
          BY <1>1, <2>2, <3>2
        <4> QED  BY <4>1
      <3> QED  BY <3>1, <3>2
    <2> QED  BY <1>3, <2>1, <2>2
  <1>5. /\ failed.phy = None /\ failed.xmit_status = "FAILED"
        /\ Agree(s, failed, {"tx", "last_hard", "id", "unheard", "hr", "hr_flags",
                             "apart"})
    BY <1>1 DEF Agree, Good, Layer, Fields
  <1> HIDE DEF failed
  <1>6. /\ t.phy = None
        /\ Agree(s, t, {"tx", "last_hard", "id", "unheard", "hr", "hr_flags", "apart"})
        /\ t.xmit_status # "SUCCESS" \/ s.xmit_status = "SUCCESS"
    BY <1>2, <1>5 DEF Agree
  <1> HIDE DEF s, t
  <1>7. Agree(s, t, {"tx", "last_hard", "id", "unheard", "hr", "hr_flags"})
    BY <1>6, AgreeSub
  <1>8. t.apart \/ partner'.seen = -1 \/ (~s.apart /\ partner'.seen = partner.seen)
    BY <1>6 DEF Agree
  <1>9. IdsOK(t, stage, partner'.seen, hard_rx, CrossesReset')
    BY <1>1, <1>4, <1>6, <1>7, <1>8, SilentIds DEF Ids, s
  <1> QED  BY <1>9 DEF Ids, t

\* The partner sends, repeats or starts a hard reset.
LEMMA SendIds ==
  ASSUME IInv, Ids, NEW kind \in PartnerKinds, NEW num, PartnerSend(kind, num)
  PROVE  Ids'
  <1> DEFINE id == IF kind = "soft" THEN 0 ELSE partner.id
             msg == [kind |-> kind, n |-> partner.sends + 1, num |-> num, id |-> id]
             i == (id + 1) % (PD_MESSAGE_ID_COUNT + 1)
             n == partner.sends + 1
             seen == IF kind = "soft" THEN -1 ELSE partner.seen
  <1>1. /\ stage' = stage /\ hard_rx' = hard_rx /\ Arrive(msg) /\ msg.kind = kind
        /\ partner' = [partner EXCEPT !.id = i, !.sends = n, !.seen = seen,
                                      !.last = msg]
    BY DEF PartnerSend
  <1>2. PartnerOK
    BY DEF IInv, QueueOK
  <1> HIDE DEF msg, i, n, seen
  <1>3. partner'.seen = seen
    BY <1>1, <1>2 DEF PartnerOK, Partner
  <1>4. seen \in {partner.seen, -1} /\ (kind = "soft" => seen = -1)
    BY DEF seen
  <1> QED  BY <1>1, <1>3, <1>4, ArriveIds

\* The Soft_Reset that the partner repeats has not been followed by a message of ours.
RetryOK == partner.last.kind = "soft" => partner.seen = -1

LEMMA RetriedSeen == ASSUME IInv, RetryOK, [Next]_vars PROVE RetryOK'
  <1> DEFINE none == [partner EXCEPT !.id = 0, !.seen = -1, !.last = None]
  <1>1. PartnerOK /\ prl.phy \in Message /\ None.kind # "soft"
    BY DEF IInv, QueueOK, Good, Layer, None
  <1>2. ASSUME partner'.last = None PROVE RetryOK'
    BY <1>1, <1>2 DEF RetryOK
  <1>3. none.last = None
    BY <1>1 DEF PartnerOK, Partner
  <1> HIDE DEF none
  <1>4. CASE partner' \in {partner, none, Delivered(prl.phy)}
    <2>1. Delivered(prl.phy).last = None
      BY <1>1, DeliveredOk
    <2> QED  BY <1>2, <1>3, <1>4, <2>1 DEF RetryOK
  <1>5. CASE pd_task
    <2>1. partner' \in {partner, none}
      BY <1>5 DEF pd_task, tc_event_check, PE, PeSend, PeIdle, PeHardReset, PeStartup,
        PeSoftReset, prl_hard_reset_complete, prl_rx_wait_for_phy_message, prl_run,
        prl_run_init, env, none
    <2> QED  BY <1>4, <2>1
  <1>6. ASSUME NEW kind \in PartnerKinds, NEW num, PartnerSend(kind, num)
        PROVE  RetryOK'
    <2> DEFINE id == IF kind = "soft" THEN 0 ELSE partner.id
               msg == [kind |-> kind, n |-> partner.sends + 1, num |-> num, id |-> id]
               i == (id + 1) % (PD_MESSAGE_ID_COUNT + 1)
               n == partner.sends + 1
               seen == IF kind = "soft" THEN -1 ELSE partner.seen
    <2>1. /\ partner' = [partner EXCEPT !.id = i, !.sends = n, !.seen = seen,
                                        !.last = msg]
          /\ msg.kind = kind /\ (kind = "soft" => seen = -1)
      BY <1>6 DEF PartnerSend
    <2> HIDE DEF i, n, seen, msg
    <2>2. partner'.last = msg /\ partner'.seen = seen
      BY <1>1, <2>1 DEF PartnerOK, Partner
    <2> QED  BY <2>1, <2>2 DEF RetryOK
  <1>7. CASE PartnerRetry
    <2> DEFINE n == partner.sends + 1
    <2>1. partner' = [partner EXCEPT !.sends = n]
      BY <1>7 DEF PartnerRetry
    <2> HIDE DEF n
    <2>2. partner'.last = partner.last /\ partner'.seen = partner.seen
      BY <1>1, <2>1 DEF PartnerOK, Partner
    <2> QED  BY <2>2 DEF RetryOK
  <1>8. CASE PartnerHardReset
    BY <1>4, <1>8 DEF PartnerHardReset, none
  <1>9. CASE \E timer \in Timers : Expire(timer)
    BY <1>4, <1>9 DEF Expire
  <1>10. CASE \E status \in {"SUCCESS", "FAILED"} : pd_transmit_complete(status)
    BY <1>4, <1>10 DEF pd_transmit_complete
  <1>11. CASE UNCHANGED vars
    BY <1>4, <1>11 DEF vars
  <1> QED  BY <1>5, <1>6, <1>7, <1>8, <1>9, <1>10, <1>11 DEF Next

LEMMA RetryIds == ASSUME IInv, Ids, RetryOK, PartnerRetry PROVE Ids'
  <1> DEFINE msg == partner.last
             n == partner.sends + 1
  <1>1. /\ stage' = stage /\ hard_rx' = hard_rx /\ Arrive(msg)
        /\ partner' = [partner EXCEPT !.sends = n]
    BY DEF PartnerRetry
  <1>2. PartnerOK
    BY DEF IInv, QueueOK
  <1> HIDE DEF n
  <1>3. partner'.seen = partner.seen
    BY <1>1, <1>2 DEF PartnerOK, Partner
  <1>4. msg.kind = "soft" => partner'.seen = -1
    BY <1>3 DEF RetryOK
  <1> HIDE DEF msg
  <1> QED  BY <1>1, <1>3, <1>4, ArriveIds

LEMMA PartnerResetIds == ASSUME IInv, Ids, PartnerHardReset PROVE Ids'
  <1> DEFINE s == prl
             t == prl'
  <1>1. /\ prl' = [prl EXCEPT !.phy = None] /\ stage' = stage
        /\ partner' = [partner EXCEPT !.id = 0, !.seen = -1, !.last = None]
        /\ CrossesReset' = CrossesReset /\ hard_rx' = TRUE
    BY DEF PartnerHardReset, CrossesReset
  <1>2. Good(s) /\ PartnerOK
    BY DEF IInv, QueueOK
  <1>3. partner'.seen = -1
    BY <1>1, <1>2 DEF PartnerOK, Partner
  <1>4. /\ t.phy = None /\ t.xmit_status = s.xmit_status
        /\ Agree(s, t, {"tx", "last_hard", "id", "unheard", "hr", "hr_flags"})
    BY <1>1, <1>2 DEF Agree, Good, Layer, Fields
  <1> HIDE DEF s, t
  <1>5. IdsOK(t, stage, -1, TRUE, CrossesReset)
    BY <1>2, <1>4, SilentIds DEF Ids, s
  <1> QED  BY <1>1, <1>3, <1>5 DEF Ids, t

-----------------------------------------------------------------------------
\* A layer that has no id of before, as the partner.
LEMMA AnewIds ==
  ASSUME NEW t, t.tx = "WAIT", t.id = 0, t.unheard = 0, NEW st, NEW hard, NEW crosses,
         "COMPLETE" \in t.hr_flags => t.hr = "PE" /\ t.phy = None,
         t.apart \/ t.phy = None \/ "PARTNER" \in t.hr_flags
  PROVE  IdsOK(t, st, -1, hard, crosses)
  <1>1. Near(-1, t)
    BY DEF Near
  <1>2. t.phy = None => PhyOK(t)
    BY DEF PhyOK
  <1>3. ~t.apart => InStep(t, -1, crosses)
    BY <1>1, <1>2 DEF InStep, SeenOK
  <1>4. -1 \in -1 .. PD_MESSAGE_ID_COUNT
    BY PrlAssumption
  <1> QED  BY <1>3, <1>4 DEF IdsOK, Transmitting, ResetsApart

\* A hard reset of the partner is handled, or nothing happens.
LEMMA CheckIds == ASSUME IInv, Ids, tc_event_check PROVE Ids'
  <1> DEFINE t == execute_hard_reset(prl, "PARTNER")
  <1>1. /\ stage = "tc" /\ stage' = "pe" /\ hard_rx' = FALSE /\ partner' = partner
        /\ CrossesReset' = CrossesReset
        /\ (hard_rx /\ prl' = t) \/ prl' = prl
    BY DEF tc_event_check, Execute, Goto, CrossesReset
  <1>2. Good(prl) /\ prl.hr # "RESET_LAYER" /\ "COMPLETE" \notin prl.hr_flags
    BY <1>1 DEF IInv, StageOK
  <1>3. CASE hard_rx /\ prl' = t
    <2>1. /\ t.hr_flags = prl.hr_flags \cup {"PARTNER"}
          /\ t.tx = "WAIT" /\ t.id = 0 /\ t.unheard = 0
      BY <1>2, ExecuteAgrees
    <2> HIDE DEF t
    <2>2. partner.seen = -1
      BY <1>3 DEF Ids, IdsOK, ResetsApart, Resetting
    <2>3. "PARTNER" \in t.hr_flags /\ "COMPLETE" \notin t.hr_flags
      BY <1>2, <2>1
    <2>4. IdsOK(t, "pe", -1, FALSE, CrossesReset)
      BY <2>1, <2>3, AnewIds
    <2> QED  BY <1>1, <1>3, <2>2, <2>4 DEF Ids
  <1>4. CASE prl' = prl
    <2>1. IdsOK(prl, "pe", partner.seen, hard_rx, CrossesReset)
      BY <1>1, IdsFrame DEF Ids, Agree
    <2>2. IdsOK(prl, "pe", partner.seen, FALSE, CrossesReset)
      BY <2>1 DEF IdsOK, ResetsApart, Resetting
    <2> QED  BY <1>1, <1>4, <2>2 DEF Ids
  <1> QED  BY <1>1, <1>3, <1>4

\* The policy engine: only its resets concern the ids.
LEMMA PeIds == ASSUME IInv, Ids, PE PROVE Ids'
  <1>1. /\ stage = "pe" /\ stage' = "rx" /\ hard_rx' = hard_rx
        /\ CrossesReset' = CrossesReset
    BY DEF PE, PeSend, PeIdle, PeHardReset, prl_hard_reset_complete, PeStartup,
      PeSoftReset, Goto, env, CrossesReset
  <1>2. Good(prl) /\ "COMPLETE" \notin prl.hr_flags /\ PartnerOK /\ HardOK(prl)
    BY <1>1 DEF IInv, StageOK, QueueOK, HrOK
  <1>3. ASSUME NEW t, Agree(prl, t, IdFields), prl.apart => t.apart
        PROVE  IdsOK(t, "rx", partner.seen, hard_rx, CrossesReset)
    BY <1>1, <1>3, IdsFrame DEF Ids
  <1>9. IdsOK(prl, "rx", partner.seen, hard_rx, CrossesReset)
    BY <1>3 DEF Agree
  <1>4. ASSUME NEW kind \in PeKinds, NEW ams \in BOOLEAN, PeSend(kind, ams) PROVE Ids'
    <2> DEFINE g == prl_send(prl, kind)
               t == [g EXCEPT !.local_ams = ams]
    <2>1. prl' = t /\ partner' = partner
      BY <1>4 DEF PeSend, env
    <2>2. Given(prl, g, kind)
      BY <1>2, SendAgrees
    <2> HIDE DEF g
    <2>4. DOMAIN g = Fields
      BY <1>2, <2>2 DEF Given, Agree, Good, Layer
    <2>5. Agree(g, t, Fields \ {"local_ams"})
      BY <2>4 DEF Agree
    <2> HIDE DEF t
    <2>3. Agree(prl, t, IdFields) /\ (prl.apart => t.apart)
      BY <2>2, <2>5 DEF Given, Agree, Fields, IdFields
    <2> QED  BY <1>1, <1>3, <2>1, <2>3 DEF Ids, t
  <1>5. ASSUME NEW ams \in BOOLEAN, PeIdle(ams) PROVE Ids'
    <2> DEFINE t == [prl EXCEPT !.local_ams = ams]
    <2>1. prl' = t /\ partner' = partner
      BY <1>5 DEF PeIdle, env
    <2>2. Agree(prl, t, IdFields) /\ (prl.apart => t.apart)
      BY <1>2 DEF Agree, Good, Layer, Fields, IdFields
    <2> QED  BY <1>1, <1>3, <2>1, <2>2 DEF Ids
  <1>6. ASSUME PeHardReset PROVE Ids'
    <2> DEFINE t == execute_hard_reset(prl, "PE")
    <2>1. prl' \in {prl, t} /\ partner' = partner
      BY <1>6 DEF PeHardReset, Execute
    <2>2. /\ Agree(prl, t, Untouched) /\ t.apart = TRUE
          /\ t.hr_flags = prl.hr_flags \cup {"PE"}
          /\ prl.hr # "RESET_LAYER" => t.tx = "WAIT"
          /\ prl.hr = "RESET_LAYER" =>
              /\ t.tx = prl.tx /\ t.id = prl.id /\ t.xmit_status = prl.xmit_status
      BY <1>2, ExecuteAgrees
    <2> HIDE DEF t
    <2>3. t.phy = prl.phy /\ t.last_hard = prl.last_hard
      BY <2>2 DEF Agree, Untouched
    <2>4. Transmitting(t, partner.seen)
      BY <2>2, <2>3 DEF Ids, IdsOK, Transmitting
    <2>5. ResetsApart(t, "rx", partner.seen, hard_rx)
      BY <1>2, <2>2 DEF Ids, IdsOK, ResetsApart, Resetting
    <2>6. IdsOK(t, "rx", partner.seen, hard_rx, CrossesReset)
      BY <2>2, <2>4, <2>5 DEF Ids, IdsOK
    <2> QED  BY <1>1, <1>9, <2>1, <2>6 DEF Ids
  <1>7. ASSUME NEW startup \in BOOLEAN, prl_hard_reset_complete(startup) PROVE Ids'
    <2> DEFINE f == prl.hr_flags \cup {"COMPLETE"}
               t == [prl EXCEPT !.pe_reset = FALSE, !.hr_flags = f]
    <2>1. prl' = t /\ partner' = partner /\ prl.pe_reset /\ prl.phy = None
      BY <1>7 DEF prl_hard_reset_complete, env
    <2>2. prl.hr = "PE"
      BY <1>2, <2>1 DEF HardOK
    <2> HIDE DEF f
    <2>3. Agree(prl, t, IdFields \ {"hr_flags"}) /\ t.hr_flags = f
          /\ t.apart = prl.apart
      <3>1. DOMAIN prl = Fields
        BY <1>2 DEF Good, Layer
      <3> QED  BY <3>1 DEF Agree, Fields, IdFields
    <2> HIDE DEF t
    <2>4. /\ t.phy = prl.phy /\ t.tx = prl.tx /\ t.xmit_status = prl.xmit_status
          /\ t.last_hard = prl.last_hard /\ t.id = prl.id /\ t.unheard = prl.unheard
          /\ t.hr = prl.hr
      BY <2>3 DEF Agree, IdFields
    <2>5. Resetting(t, hard_rx) <=> Resetting(prl, hard_rx)
      BY <2>3 DEF Resetting, f
    <2>6. SeenOK(prl, partner.seen) => SeenOK(t, partner.seen)
      BY <2>4 DEF SeenOK, Near
    <2>7. PhyOK(t)
      BY <2>1, <2>4 DEF PhyOK
    <2>8. ~t.apart => InStep(t, partner.seen, CrossesReset)
      BY <2>1, <2>3, <2>4, <2>6, <2>7 DEF Ids, IdsOK, InStep
    <2>9. Transmitting(t, partner.seen) /\ ResetsApart(t, "rx", partner.seen, hard_rx)
      BY <2>1, <2>2, <2>4, <2>5 DEF Ids, IdsOK, Transmitting, ResetsApart
    <2>10. IdsOK(t, "rx", partner.seen, hard_rx, CrossesReset)
      BY <2>8, <2>9 DEF Ids, IdsOK
    <2> QED  BY <1>1, <2>1, <2>10 DEF Ids
  <1>8. CASE PeStartup \/ PeSoftReset
    BY <1>1, <1>8, <1>9 DEF PeStartup, PeSoftReset, Ids
  <1> QED  BY <1>4, <1>5, <1>6, <1>7, <1>8 DEF PE

\* What prl_tx was to send is discarded when a message comes in: the id of one that
\* was transmitted is not used again.
LEMMA DiscardedIds ==
  ASSUME NEW s, NEW t, Good(s), NEW seen, NEW hard, NEW crosses,
         IdsOK(s, "rch", seen, hard, crosses), s.tx # "WAIT_PHY" \/ s.tx_xmit,
         Agree(s, t, Fields \ (InFields \cup OutFields)), Discarded(s, t)
  PROVE  IdsOK(t, "rch", seen, hard, crosses)
  <1> DEFINE N == PD_MESSAGE_ID_COUNT
  <1>0. s.phy.id \in -1 .. N /\ seen \in -1 .. N /\ s.unheard \in 0 .. N /\ N \in Nat
    BY PrlAssumption DEF Good, Layer, Message, IdsOK
  <1>1. /\ t.phy = s.phy /\ t.apart = s.apart /\ t.hr = s.hr
        /\ t.hr_flags = s.hr_flags /\ t.tx = "WAIT"
    BY DEF Agree, Fields, InFields, OutFields, Discarded
  <1>2. Transmitting(t, seen) /\ ResetsApart(t, "rch", seen, hard)
    BY <1>1 DEF IdsOK, Transmitting, ResetsApart, Resetting
  <1>3. Transmitting(s, seen)
    BY DEF IdsOK
  <1>4. ASSUME InStep(s, seen, crosses), t.unheard < N
        PROVE  Near(seen, t) /\ ("PARTNER" \in s.hr_flags \/ PhyOK(t))
    <2>1. CASE IdKept(s, t) /\ (s.tx = "WAIT_PHY" => s.last_hard)
      <3>1. t.id = s.id /\ t.unheard = s.unheard
        BY <2>1 DEF IdKept
      <3>2. Near(seen, s) /\ ("PARTNER" \in s.hr_flags \/ PhyOK(s))
        BY <1>4, <2>1, <3>1 DEF InStep, SeenOK
      <3>3. PhyOK(s) => PhyOK(t)
        BY <1>1, <1>3, <2>1, <3>1 DEF PhyOK, Near, Transmitting
      <3>4. Near(seen, t)
        BY <3>1, <3>2 DEF Near
      <3> QED  BY <3>2, <3>3, <3>4
    <2>2. CASE IdNext(s, t)
      <3>1. s.unheard < N
        BY <1>0, <1>4, <2>2 DEF IdNext
      <3>2. SeenOK(s, seen) /\ ("PARTNER" \in s.hr_flags \/ PhyOK(s))
        BY <1>4, <3>1 DEF InStep
      <3>3. Near(seen, t)
        BY <1>0, <2>2, <3>1, <3>2, NearNext DEF SeenOK
      <3>4. ASSUME PhyOK(s), s.phy # None, s.phy.kind # "hard"
            PROVE  Near(s.phy.id, t)
        <4>1. Near(s.phy.id, s) \/ s.phy.id = s.id
          BY <3>4 DEF PhyOK
        <4> QED  BY <1>0, <2>2, <3>1, <4>1, NearNext
      <3>5. PhyOK(s) => PhyOK(t)
        BY <1>1, <3>4 DEF PhyOK
      <3> QED  BY <3>2, <3>3, <3>5
    <2> QED  BY <2>1, <2>2 DEF Discarded
  <1>5. InStep(s, seen, crosses) => InStep(t, seen, crosses)
    BY <1>1, <1>4 DEF InStep, SeenOK, Resetting
  <1> QED  BY <1>1, <1>2, <1>5 DEF IdsOK

\* A Soft_Reset of the partner starts the ids anew, unless one is underway.
LEMMA ResetIds ==
  ASSUME NEW s, NEW t, Reset(s, t), NEW seen, NEW hard, NEW crosses,
         IdsOK(s, "rch", seen, hard, crosses), crosses
  PROVE  IdsOK(t, "rch", seen, hard, crosses)
  <1>1. /\ t.phy = s.phy /\ t.hr = s.hr /\ t.hr_flags = s.hr_flags /\ t.tx = "WAIT"
        /\ t.id = 0 /\ t.unheard = 0 /\ t.apart = (s.apart \/ s.phy # None)
    BY DEF Reset, Agree
  <1>2. Transmitting(t, seen) /\ ResetsApart(t, "rch", seen, hard)
    BY <1>1 DEF IdsOK, Transmitting, ResetsApart, Resetting
  <1>3. CASE t.apart
    BY <1>2, <1>3 DEF IdsOK
  <1>4. CASE ~t.apart
    <2>1. ~s.apart /\ s.phy = None
      BY <1>1, <1>4
    <2>2. seen = -1
      BY <2>1 DEF IdsOK, InStep
    <2>3. Near(seen, t) /\ PhyOK(t)
      BY <1>1, <2>1, <2>2 DEF Near, PhyOK
    <2>4. InStep(t, seen, crosses)
      BY <1>1, <2>2, <2>3 DEF InStep, SeenOK
    <2> QED  BY <1>2, <2>4 DEF IdsOK
  <1> QED  BY <1>3, <1>4

\* A message is received.
LEMMA RxIds == ASSUME IInv, Ids, prl_rx_wait_for_phy_message PROVE Ids'
  <1>1. /\ stage = "rx" /\ stage' = "rch" /\ hard_rx' = hard_rx /\ partner' = partner
        /\ Good(prl) /\ queue \in Seq(Message)
    BY DEF IInv, QueueOK, prl_rx_wait_for_phy_message, Goto
  <1>2. CASE Busy(prl) \/ queue = <<>>
    <2>1. prl' = prl /\ CrossesReset' = CrossesReset
      BY <1>2 DEF prl_rx_wait_for_phy_message, CrossesReset
    <2>2. IdsOK(prl, "rch", partner.seen, hard_rx, CrossesReset)
      BY <1>1, IdsFrame DEF Ids, Agree
    <2> QED  BY <1>1, <2>1, <2>2 DEF Ids
  <1>3. CASE ~(Busy(prl) \/ queue = <<>>)
    <2> DEFINE msg == Head(queue)
               t == [prl EXCEPT !.rx = msg, !.unhindered = FALSE]
               u == prl'
    <2>1. prl' = Receive(prl, msg) /\ queue' = Tail(queue) /\ queue # <<>>
      BY <1>3 DEF prl_rx_wait_for_phy_message
    <2>2. /\ msg \in Message /\ msg = queue[1] /\ 1 \in 1 .. Len(queue)
          /\ \A i \in 1 .. Len(queue') :
               i + 1 \in 1 .. Len(queue) /\ queue'[i] = queue[i + 1]
      BY <1>1, <2>1
    <2>3. (CrossesReset' => CrossesReset) /\ (msg.kind = "soft" => CrossesReset)
      BY <2>2 DEF CrossesReset
    <2>4. (prl' = SoftReset(t) /\ CrossesReset) \/ prl' \in {Accept(t, msg), t}
      BY <2>1, <2>3 DEF Receive
    <2> HIDE DEF msg
    <2>5. Good(t) /\ Agree(prl, t, Fields \ {"rx", "unhindered"})
      <3>1. msg.num < CHUNKS
        BY <1>1, <2>2 DEF IInv, QueueOK
      <3>2. Good(t)
        BY <1>1, <2>2, <3>1 DEF Good, Layer, Fields, ChunksOK
      <3> QED  BY <1>1, <3>2 DEF Agree, Good, Layer, Fields
    <2> HIDE DEF t, u
    <2>6. IdsOK(t, "rch", partner.seen, hard_rx, CrossesReset)
      <3>1. Agree(prl, t, IdFields) /\ (prl.apart => t.apart)
        BY <2>5 DEF Agree, Fields, IdFields
      <3> QED  BY <1>1, <3>1, IdsFrame DEF Ids
    <2>7. ASSUME u = SoftReset(t), CrossesReset
          PROVE  IdsOK(u, "rch", partner.seen, hard_rx, CrossesReset)
      BY <2>5, <2>6, <2>7, SoftResetAgrees, ResetIds
    <2>8. ASSUME u = Accept(t, msg)
          PROVE  IdsOK(u, "rch", partner.seen, hard_rx, CrossesReset)
      <3>1. AcceptMoves(t, u)
        BY <2>2, <2>5, <2>8, AcceptAgrees
      <3>2. ASSUME Agree(t, u, IdFields \cup {"apart"})
            PROVE  IdsOK(u, "rch", partner.seen, hard_rx, CrossesReset)
        <4>1. Agree(t, u, IdFields) /\ (t.apart => u.apart)
          BY <3>2 DEF Agree
        <4> QED  BY <2>6, <4>1, IdsFrame
      <3>3. CASE Agree(t, u, Fields \ {"rx_id", "rx_era", "accepted", "overwritten",
                                       "passed", "heard"})
        BY <3>2, <3>3 DEF Agree, Fields, IdFields
      <3>4. CASE Agree(t, u, Fields \ InFields)
        BY <3>2, <3>4 DEF Agree, Fields, IdFields, InFields
      <3> QED  BY <2>5, <2>6, <3>1, <3>3, <3>4, DiscardedIds DEF AcceptMoves
    <2>9. IdsOK(u, "rch", partner.seen, hard_rx, CrossesReset)
      BY <2>4, <2>6, <2>7, <2>8 DEF u
    <2>10. IdsOK(u, "rch", partner.seen, hard_rx, CrossesReset')
      BY <2>3, <2>9 DEF IdsOK, InStep
    <2> QED  BY <1>1, <2>10 DEF Ids, u
  <1> QED  BY <1>2, <1>3

\* The layer starts: the next id is 0, which the partner may have seen last, if it
\* does not start anew as well.
LEMMA StartIds ==
  ASSUME IInv, Ids, NEW anew \in BOOLEAN, prl_run_init(anew)
  PROVE  Ids'
  <1> DEFINE t == Started(prl, anew)
             p == prl_init
             both == [partner EXCEPT !.id = 0, !.seen = -1, !.last = None]
  <1>1. /\ stage = "rx" /\ stage' = stage /\ hard_rx' = hard_rx
        /\ CrossesReset' = CrossesReset /\ prl' = t
        /\ anew => prl.phy = None /\ partner' = both
        /\ ~anew => partner' = partner
    BY DEF prl_run_init, CrossesReset
  <1>2. /\ t.phy = prl.phy /\ t.apart = (~anew /\ (prl.apart \/ ~Unused(prl)))
        /\ \A f \in Fields \ {"sends", "phy", "rx", "passed", "overwritten", "era",
                              "rx_era", "clean", "apart"} : t[f] = p[f]
    BY StartedIs DEF IInv
  <1>3. p.tx = "WAIT" /\ p.id = 0 /\ p.unheard = 0 /\ p.hr_flags = {}
    BY DEF prl_init
  <1> HIDE DEF t, p
  <1>4. t.tx = "WAIT" /\ t.id = 0 /\ t.unheard = 0 /\ t.hr_flags = {}
    BY <1>2, <1>3 DEF Fields
  <1>5. CASE anew
    <2>1. partner'.seen = -1
      BY <1>1, <1>5 DEF IInv, QueueOK, PartnerOK, Partner
    <2>2. IdsOK(t, "rx", -1, hard_rx, CrossesReset)
      BY <1>1, <1>2, <1>4, <1>5, AnewIds
    <2> QED  BY <1>1, <2>1, <2>2 DEF Ids
  <1>6. CASE ~anew
    <2>1. Transmitting(t, partner.seen) /\ ResetsApart(t, "rx", partner.seen, hard_rx)
      BY <1>4 DEF Ids, IdsOK, Transmitting, ResetsApart, Resetting
    <2>2. ASSUME ~t.apart PROVE InStep(t, partner.seen, CrossesReset)
      <3>1. ~prl.apart /\ Unused(prl)
        BY <1>2, <1>6, <2>2
      <3>2. t.phy = None /\ prl.id = 0 /\ prl.unheard = 0 /\ prl.tx # "WAIT_PHY"
        BY <1>2, <3>1 DEF Unused
      <3>3. InStep(prl, partner.seen, CrossesReset)
        BY <3>1 DEF Ids, IdsOK
      <3>4. SeenOK(prl, partner.seen) => SeenOK(t, partner.seen)
        BY <1>4, <3>2 DEF SeenOK, Near
      <3>5. PhyOK(t)
        BY <3>2 DEF PhyOK
      <3> QED  BY <1>4, <3>2, <3>3, <3>4, <3>5 DEF InStep
    <2>3. IdsOK(t, "rx", partner.seen, hard_rx, CrossesReset)
      BY <2>1, <2>2 DEF Ids, IdsOK
    <2> QED  BY <1>1, <1>6, <2>3 DEF Ids
  <1> QED  BY <1>5, <1>6

\* The machines run.
LEMMA MachineIds == ASSUME IInv, IInv', Ids, prl_run PROVE Ids'
  <1>1. /\ CrossesReset' = CrossesReset /\ hard_rx' = hard_rx /\ partner' = partner
        /\ \/ stage = "rch" /\ stage' = "tch" /\ prl' = rch_run(prl)
           \/ stage = "tch" /\ stage' = "tx" /\ prl' = tch_run(prl)
           \/ stage = "tx" /\ stage' = "tch_again" /\ prl' = prl_tx_run(prl)
           \/ stage = "tch_again" /\ stage' = "hr" /\ prl' = tch_run(prl)
           \/ stage = "hr" /\ stage' = "tc" /\ prl' = prl_hr_run(prl)
    BY DEF prl_run, Goto, env, CrossesReset
  <1>2. Good(prl) /\ ResetsOK(prl)
    BY DEF IInv, HrOK
  <1>3. stage = "hr" => "COMPLETE" \notin prl'.hr_flags
    BY <1>1 DEF IInv, StageOK
  <1> QED  BY <1>1, <1>2, <1>3, RchIds, TchIds, TxIds, HrIds DEF Ids

\* Every step keeps the ids, and they are so at first.
LEMMA IdsStep == ASSUME IInv, IInv', Ids, RetryOK, [Next]_vars PROVE Ids'
  <1>1. CASE pd_task
    BY <1>1, CheckIds, PeIds, RxIds, MachineIds, StartIds DEF pd_task
  <1>2. ASSUME NEW timer \in Timers, Expire(timer) PROVE Ids'
    BY <1>2, ExpireIds
  <1>3. ASSUME NEW status \in {"SUCCESS", "FAILED"}, pd_transmit_complete(status)
        PROVE  Ids'
    BY <1>3, CompleteIds
  <1>4. ASSUME NEW kind \in PartnerKinds, NEW num \in 0 .. CHUNKS - 1,
               PartnerSend(kind, num)
        PROVE  Ids'
    BY <1>4, SendIds
  <1>5. CASE PartnerRetry
    BY <1>5, RetryIds
  <1>6. CASE PartnerHardReset
    BY <1>6, PartnerResetIds
  <1>7. CASE UNCHANGED vars
    BY <1>7 DEF vars, Ids, CrossesReset
  <1> QED  BY <1>1, <1>2, <1>3, <1>4, <1>5, <1>6, <1>7 DEF Next

LEMMA InitIds == Init => Ids
  <1> SUFFICES ASSUME Init PROVE Ids
    OBVIOUS
  <1>1. prl = prl_init /\ partner.seen = -1
    BY DEF Init
  <1>2. /\ prl.tx = "WAIT" /\ prl.id = 0 /\ prl.unheard = 0 /\ prl.hr_flags = {}
        /\ prl.phy = None
    BY <1>1 DEF prl_init
  <1> QED  BY <1>1, <1>2, AnewIds DEF Ids

-----------------------------------------------------------------------------
(* What becomes of a message that the policy engine handed over with       *)
(* nothing of an earlier one left (clean).                                 *)

\* A message of the policy engine, and what else prl_tx may have to send by then.
Own(m) == m.kind \in {"data", "soft"}
Aux(m) == m.kind \in {"none", "request"} /\ m.n = 0
OwnOrAux(m, n) == Aux(m) \/ (Own(m) /\ m.n = n)

\* The policy engine waits to hear of it, and the partner has not received it...
Unheard(s) == s.owed # None /\ s.answers = <<>>
Undelivered(s, got) == Unheard(s) /\ got # s.sends

\* ...tch has not taken it up, and perhaps will not: rch may have become busy...
Handed(s, st, got) ==
  /\ s.tch_xmit /\ s.tch = "WAIT" /\ s.tx = "WAIT" /\ s.phy = None
  /\ NoFlags(s) /\ Undelivered(s, got)
  /\ \/ /\ Own(s.out) /\ ~s.tx_xmit
        /\ \/ st \in {"rx", "rch"}
           \/ st = "tch" /\ (s.rch = "WAIT" => ~s.rch_received)
     \/ st = "tch" /\ s.out.kind = "request" /\ s.rch = "REQUESTING"

\* ...or tch waits for prl_tx to send it.
InTransmission(s) == s.tch = "TRANSMISSION" /\ ~s.tch_xmit /\ RchIdle(s)

Waits(s, got) ==
  /\ InTransmission(s) /\ ~s.tch_received /\ Own(s.out) /\ s.phy = None
  /\ \/ s.tx_xmit /\ s.tx \in TxWaits
     \/ ~s.tx_xmit /\ s.tx = "LAYER_RESET"
  /\ NoFlags(s) /\ Undelivered(s, got)

\* The PHY transmits it, or has a result...
Sending(s, got) ==
  /\ InTransmission(s) /\ ~s.tx_xmit /\ Unheard(s) /\ s.tx = "WAIT_PHY" /\ NoFlags(s)
  /\ s.phy = None \/ Own(s.phy)
  /\ s.xmit_status # "UNSET" \/ "tx" \in s.expired => s.phy = None
  /\ s.xmit_status = "SUCCESS" /\ ~s.apart => got = s.sends

\* ...that prl_tx has passed on to tch.
Done(s, st, got) ==
  /\ InTransmission(s) /\ ~s.tx_xmit /\ Unheard(s) /\ s.tx = "WAIT" /\ s.phy = None
  /\ st = "tch_again" /\ (s.tx_complete \/ s.tx_error)
  /\ s.tx_complete /\ ~s.apart => got = s.sends

\* It is not sent any more, by prl_tx or by tch, which may still hold a message of
\* the partner that came instead.
Spent(s, st, got) ==
  /\ ~s.tch_xmit /\ s.tch \in {"WAIT", "TRANSMISSION", "RECEIVED"} /\ Aux(s.phy)
  /\ s.tx # "LAYER_RESET" /\ (Own(s.out) => ~s.tx_xmit)
  /\ s.tx = "PENDING" => s.tx_xmit
  /\ s.tch = "TRANSMISSION" =>
       /\ st \in {"rch", "tch"} /\ s.tch_received /\ NoFlags(s) /\ RchIdle(s)
       /\ s.tx = "WAIT" /\ ~s.tx_xmit
  /\ s.owed # None => Undelivered(s, got)
  /\ s.answers = <<"discard">> => got # s.sends
  /\ s.answers = <<"sent">> /\ ~s.apart => got = s.sends

FateOK(s, st, got) ==
  s.clean =>
    /\ s.hr = "WAIT" /\ OwnOrAux(s.out, s.sends) /\ OwnOrAux(s.phy, s.sends)
    /\ \/ Handed(s, st, got) \/ Waits(s, got) \/ Sending(s, got)
       \/ Done(s, st, got) \/ Spent(s, st, got)

\* The message numbers in use are those of messages handed over.
NumbersOK(s, got) ==
  /\ s.out.n <= s.sends /\ s.phy.n <= s.sends /\ got <= s.sends
  /\ got \in Nat

-----------------------------------------------------------------------------
\* The fields it is about; what leaves these alone keeps it.
FateFields ==
  {"clean", "hr", "out", "sends", "tch", "tch_xmit", "tch_received", "rch",
   "rch_received", "tx", "tx_xmit", "tx_complete", "tx_error", "owed", "answers"}

\* A stage that the cases do not name may change.
LEMMA FateFrame ==
  ASSUME NEW s, NEW t, Agree(s, t, FateFields \cup {"phy", "xmit_status"}),
         s.apart => t.apart, "tx" \in t.expired => "tx" \in s.expired,
         NEW st, NEW st2, NEW got, FateOK(s, st, got),
         st2 = st \/ st \in {"hr", "tc", "pe"} \/ (st = "rx" /\ st2 = "rch")
  PROVE  FateOK(t, st2, got)
  <1>1. /\ t.clean = s.clean /\ t.hr = s.hr /\ t.out = s.out /\ t.sends = s.sends
        /\ t.phy = s.phy /\ t.tch = s.tch /\ t.tch_xmit = s.tch_xmit
        /\ t.tch_received = s.tch_received /\ t.rch = s.rch
        /\ t.rch_received = s.rch_received /\ t.tx = s.tx /\ t.tx_xmit = s.tx_xmit
        /\ t.tx_complete = s.tx_complete /\ t.tx_error = s.tx_error
        /\ t.owed = s.owed /\ t.answers = s.answers
        /\ t.xmit_status = s.xmit_status
    BY DEF Agree, FateFields
  <1>2. /\ NoFlags(t) <=> NoFlags(s)
        /\ RchIdle(t) <=> RchIdle(s)
        /\ InTransmission(t) <=> InTransmission(s)
        /\ Unheard(t) <=> Unheard(s)
        /\ Undelivered(t, got) <=> Undelivered(s, got)
    BY <1>1 DEF NoFlags, RchIdle, InTransmission, Unheard, Undelivered
  <1>3. Handed(s, st, got) => Handed(t, st2, got)
    BY <1>1, <1>2 DEF Handed
  <1>4. Waits(s, got) => Waits(t, got)
    BY <1>1, <1>2 DEF Waits
  <1>5. Sending(s, got) => Sending(t, got)
    BY <1>1, <1>2 DEF Sending
  <1>6. Done(s, st, got) => Done(t, st2, got)
    BY <1>1, <1>2 DEF Done
  <1>7. Spent(s, st, got) => Spent(t, st2, got)
    BY <1>1, <1>2 DEF Spent
  <1> QED  BY <1>1, <1>3, <1>4, <1>5, <1>6, <1>7 DEF FateOK

\* rch either does nothing, or has been given a message that makes tch give up.
LEMMA RchFate ==
  ASSUME NEW s, Good(s), ResetsOK(s), NEW got, FateOK(s, "rch", got)
  PROVE  FateOK(rch_run(s), "tch", got)
  <1> DEFINE t == rch_run(s)
  <1>1. Restart(s, t) \/ RchMoves(s, t)
    BY RchRunAgrees
  <1>2. RchIdle(s) => t = s
    BY RchRests DEF RchIdle
  <1> HIDE DEF t
  <1>3. ASSUME ~t.clean PROVE FateOK(t, "tch", got)
    BY <1>3 DEF FateOK
  <1>4. ASSUME RchMoves(s, t), s.clean PROVE FateOK(t, "tch", got)
    <2>1. /\ t.phy = s.phy /\ t.tx = s.tx /\ t.hr = s.hr /\ t.owed = s.owed
          /\ t.answers = s.answers /\ t.sends = s.sends /\ t.tch = s.tch
          /\ t.tch_xmit = s.tch_xmit /\ t.tch_received = s.tch_received
          /\ t.tx_error = s.tx_error /\ t.apart = s.apart
          /\ t.tx_complete => s.tx_complete
          /\ \/ t.out = s.out /\ t.tx_xmit = s.tx_xmit
             \/ /\ t.rch = "REQUESTING" /\ t.tx_xmit
                /\ t.out.kind = "request" /\ t.out.n = 0
          /\ t.rch = "WAIT" => ~t.rch_received
      BY <1>4 DEF RchMoves, Agree, RchKept
    <2>2. /\ t.hr = "WAIT" /\ OwnOrAux(s.out, s.sends) /\ OwnOrAux(t.phy, t.sends)
      BY <1>4, <2>1 DEF FateOK
    <2>3. OwnOrAux(t.out, t.sends)
      BY <2>1, <2>2 DEF OwnOrAux, Aux
    <2>4. CASE Handed(s, "rch", got)
      <3>1. NoFlags(t) /\ Undelivered(t, got)
        BY <2>1, <2>4 DEF Handed, NoFlags, Undelivered, Unheard
      <3>2. Handed(t, "tch", got)
        BY <2>1, <2>4, <3>1 DEF Handed
      <3> QED  BY <2>2, <2>3, <3>2 DEF FateOK
    <2>5. CASE Spent(s, "rch", got) /\ s.tch # "TRANSMISSION"
      <3>1. Undelivered(s, got) => Undelivered(t, got)
        BY <2>1 DEF Undelivered, Unheard
      <3>2. Own(t.out) => ~t.tx_xmit
        BY <2>1, <2>5 DEF Spent, Own
      <3>3. Spent(t, "tch", got)
        BY <2>1, <2>5, <3>1, <3>2 DEF Spent
      <3> QED  BY <2>2, <2>3, <3>3 DEF FateOK
    <2>6. CASE RchIdle(s) /\ ~Handed(s, "rch", got)
      <3>1. t = s
        BY <1>2, <2>6
      <3>2. Spent(s, "rch", got) => Spent(s, "tch", got)
        BY DEF Spent
      <3>3. ~Done(s, "rch", got)
        BY DEF Done
      <3> QED  BY <1>4, <2>6, <3>1, <3>2, <3>3 DEF FateOK
    <2>7. Waits(s, got) \/ Sending(s, got) => RchIdle(s)
      BY DEF Waits, Sending, InTransmission
    <2>8. Spent(s, "rch", got) /\ s.tch = "TRANSMISSION" => RchIdle(s)
      BY DEF Spent
    <2>9. ~Done(s, "rch", got)
      BY DEF Done
    <2> QED  BY <1>4, <2>4, <2>5, <2>6, <2>7, <2>8, <2>9 DEF FateOK
  <1>5. RchMoves(s, t) => t.clean = s.clean
    BY DEF RchMoves, Agree, RchKept
  <1>6. FateOK(t, "tch", got)
    BY <1>1, <1>3, <1>4, <1>5 DEF Restart
  <1> QED  BY <1>6 DEF t

\* prl_hr does nothing without a hard reset.
LEMMA HrFate ==
  ASSUME NEW s, Good(s), ResetsOK(s), NEW got, FateOK(s, "hr", got)
  PROVE  FateOK(prl_hr_run(s), "tc", got)
  <1> DEFINE t == prl_hr_run(s)
  <1>1. HrMoves(s, t)
    BY HrRunMoves
  <1> HIDE DEF t
  <1>2. CASE ~s.clean
    <2>1. ~t.clean
      BY <1>1, <1>2 DEF HrMoves, Agree
    <2> QED  BY <2>1 DEF FateOK, t
  <1>3. CASE s.clean
    <2>1. t = s
      BY <1>1, <1>3 DEF FateOK, HrMoves
    <2>2. FateOK(t, "tc", got)
      BY <2>1, FateFrame DEF Agree
    <2> QED  BY <2>2 DEF t
  <1> QED  BY <1>2, <1>3

\* The answer to a message that had none.
LEMMA FirstAnswer ==
  ASSUME NEW s, s.hr = "WAIT", s.answers = <<>>, NEW a
  PROVE  AnswersAfter(s, a) = <<a>>
  BY DEF AnswersAfter

\* The answers differ.
LEMMA AnswersDiffer ==
  /\ <<"sent">> # <<"discard">> /\ <<"error">> # <<"discard">>
  /\ <<"error">> # <<"sent">> /\ <<>> # <<"sent">> /\ <<>> # <<"discard">>
  <1>1. <<"sent">>[1] = "sent" /\ <<"discard">>[1] = "discard" /\ <<"error">>[1] = "error"
    OBVIOUS
  <1>2. Len(<<"sent">>) = 1 /\ Len(<<"discard">>) = 1 /\ Len(<<>>) = 0
    OBVIOUS
  <1> QED  BY <1>1, <1>2

\* tch has no message of the policy engine any more.
LEMMA ReportFate ==
  ASSUME NEW s, NEW t, NEW st, NEW got, Agree(s, t, Fields \ ReportFields),
         s.hr = "WAIT", OwnOrAux(s.out, s.sends), Aux(s.phy), s.tx # "LAYER_RESET",
         Own(s.out) => ~s.tx_xmit, s.tx = "PENDING" => s.tx_xmit,
         t.tch \in {"WAIT", "RECEIVED"}, ~t.tch_xmit,
         t.owed # None => t.answers = <<>> /\ got # s.sends,
         t.answers = <<"discard">> => got # s.sends,
         t.answers = <<"sent">> /\ ~s.apart => got = s.sends
  PROVE  FateOK(t, st, got)
  <1>1. /\ t.hr = s.hr /\ t.out = s.out /\ t.sends = s.sends /\ t.phy = s.phy
        /\ t.tx = s.tx /\ t.tx_xmit = s.tx_xmit /\ t.apart = s.apart
    BY DEF Agree, Fields, ReportFields
  <1>2. t.owed # None => Undelivered(t, got)
    BY <1>1 DEF Undelivered, Unheard
  <1>3. Spent(t, st, got)
    BY <1>1, <1>2 DEF Spent
  <1> QED  BY <1>1, <1>3 DEF FateOK, OwnOrAux

\* tch takes up the message of the policy engine, or discards it.
LEMMA HandedFate ==
  ASSUME NEW s, Good(s), ResetsOK(s), NEW got, s.clean, FateOK(s, "tch", got),
         Handed(s, "tch", got)
  PROVE  FateOK(tch_run(s), "tx", got)
  <1> DEFINE t == tch_run(s)
             r == [s EXCEPT !.tch_xmit = FALSE]
             w == [r EXCEPT !.tx_xmit = TRUE, !.tch = "TRANSMISSION"]
  <1>1. /\ s.tch = "WAIT" /\ s.tch_xmit /\ s.tx = "WAIT" /\ s.phy = None
        /\ NoFlags(s) /\ s.owed # None /\ s.answers = <<>> /\ got # s.sends
        /\ s.hr = "WAIT" /\ OwnOrAux(s.out, s.sends)
        /\ Own(s.out) => ~s.tx_xmit
        /\ s.rch = "WAIT" => Own(s.out) /\ ~s.rch_received
    BY DEF Handed, FateOK, Undelivered, Unheard, Own
  <1>2. t = IF s.tch_received THEN tch_message_received(s)
            ELSE IF s.rch # "WAIT" THEN tch_report_error(r) ELSE w
    BY <1>1 DEF tch_run, tch_wait_run, Own
  <1>3. /\ Good(r) /\ Agree(s, r, Fields \ {"tch_xmit"})
    BY DEF Good, Layer, Fields, ChunksOK, Agree
  <1>4. Aux(s.phy)
    BY <1>1 DEF Aux, None
  <1>5. ASSUME NEW u, Agree(s, u, Fields \ ReportFields), u.tch \in {"WAIT", "RECEIVED"},
               ~u.tch_xmit, u.owed = None, NEW a \in {"discard", "error"},
               u.answers = AnswersAfter(s, a)
        PROVE  FateOK(u, "tx", got)
    <2>1. u.answers = <<a>>
      BY <1>1, <1>5, FirstAnswer
    <2>2. u.answers # <<"sent">>
      BY <2>1, AnswersDiffer
    <2> QED  BY <1>1, <1>4, <1>5, <2>2, ReportFate
  <1> HIDE DEF t
  <1>6. CASE s.tch_received
    <2> DEFINE u == tch_message_received(s)
    <2>1. /\ Agree(s, u, Fields \ ReportFields) /\ u.tch = "RECEIVED" /\ ~u.tch_xmit
          /\ u.owed = None /\ u.answers = AnswersAfter(s, "discard")
      BY <1>1, TchReceivedAgrees
    <2> HIDE DEF u
    <2> QED  BY <1>2, <1>5, <1>6, <2>1 DEF t, u
  <1>7. CASE ~s.tch_received /\ s.rch # "WAIT"
    <2> DEFINE u == tch_report_error(r)
    <2>1. ResetsOK(r)
      BY <1>3 DEF ResetsOK, Agree, Fields
    <2> HIDE DEF r
    <2>2. Restart(r, u) \/ Reported(r, u, "error")
      BY <1>3, <2>1, TchErrorAgrees
    <2> HIDE DEF u
    <2>3. ASSUME Reported(r, u, "error") PROVE FateOK(u, "tx", got)
      <3>1. Agree(s, u, Fields \ ReportFields)
        BY <1>3, <2>3 DEF Reported, Agree, ReportFields
      <3>2. u.answers = AnswersAfter(s, "error")
        BY <1>3, <2>3 DEF Reported, Agree, Fields, AnswersAfter
      <3>3. u.tch \in {"WAIT", "RECEIVED"} /\ ~u.tch_xmit /\ u.owed = None
        BY <2>3 DEF Reported
      <3> QED  BY <1>5, <3>1, <3>2, <3>3
    <2>4. ASSUME Restart(r, u) PROVE FateOK(u, "tx", got)
      BY <2>4 DEF Restart, FateOK
    <2> QED  BY <1>2, <1>7, <2>2, <2>3, <2>4 DEF t, u
  <1>8. CASE ~s.tch_received /\ s.rch = "WAIT"
    <2>1. /\ Agree(s, w, Fields \ {"tch_xmit", "tx_xmit", "tch"})
          /\ w.tch = "TRANSMISSION" /\ ~w.tch_xmit /\ w.tx_xmit
      <3>1. DOMAIN r = Fields
        BY <1>3 DEF Good, Layer
      <3>2. Agree(r, w, Fields \ {"tx_xmit", "tch"})
            /\ w.tch = "TRANSMISSION" /\ w.tch_xmit = r.tch_xmit /\ w.tx_xmit
        BY <3>1 DEF Agree, Fields
      <3>3. ~r.tch_xmit
        BY DEF Good, Layer, Fields
      <3> HIDE DEF w, r
      <3> QED  BY <1>3, <3>2, <3>3 DEF Agree
    <2> HIDE DEF w
    <2>2. /\ w.tch_received = s.tch_received /\ w.rch = s.rch /\ w.hr = s.hr
          /\ w.rch_received = s.rch_received /\ w.out = s.out /\ w.phy = s.phy
          /\ w.tx = s.tx /\ w.owed = s.owed /\ w.answers = s.answers
          /\ w.sends = s.sends /\ w.tx_complete = s.tx_complete
          /\ w.tx_error = s.tx_error
      BY <2>1 DEF Agree, Fields
    <2>3. InTransmission(w) /\ NoFlags(w) /\ Undelivered(w, got)
      BY <1>1, <1>8, <2>1, <2>2 DEF InTransmission, RchIdle, NoFlags, Undelivered, Unheard
    <2>4. Waits(w, got)
      BY <1>1, <1>8, <2>1, <2>2, <2>3 DEF Waits, TxWaits
    <2>5. FateOK(w, "tx", got)
      BY <1>1, <1>4, <2>2, <2>4 DEF FateOK, OwnOrAux
    <2> QED  BY <1>2, <1>8, <2>5 DEF t
  <1> QED  BY <1>6, <1>7, <1>8

\* tch reports the result of prl_tx.
LEMMA DoneFate ==
  ASSUME NEW s, Good(s), ResetsOK(s), NEW got, s.clean, FateOK(s, "tch_again", got),
         Done(s, "tch_again", got)
  PROVE  FateOK(tch_run(s), "hr", got)
  <1> DEFINE t == tch_run(s)
             c == [s EXCEPT !.tx_complete = FALSE]
             e == [s EXCEPT !.tx_error = FALSE]
             x == tch_message_sent(c)
             y == tch_report_error(e)
  <1>1. /\ s.tch = "TRANSMISSION" /\ ~s.tx_xmit /\ s.owed # None /\ s.answers = <<>>
        /\ s.tx = "WAIT" /\ Aux(s.phy) /\ (s.tx_complete \/ s.tx_error)
        /\ s.tx_complete /\ ~s.apart => got = s.sends
        /\ s.hr = "WAIT" /\ OwnOrAux(s.out, s.sends)
    BY DEF Done, FateOK, InTransmission, Unheard, Aux, None
  <1>2. t = IF s.tx_complete THEN x ELSE y
    BY <1>1 DEF tch_run, tch_transmission_run
  <1>3. Good(c) /\ Agree(s, c, Fields \ {"tx_complete"})
    BY DEF Good, Layer, Fields, ChunksOK, Agree
  <1>4. Good(e) /\ Agree(s, e, Fields \ {"tx_error"})
    BY DEF Good, Layer, Fields, ChunksOK, Agree
  <1>5. ResetsOK(e)
    BY <1>4 DEF ResetsOK, Agree, Fields
  <1> HIDE DEF c, e, t
  <1>6. ASSUME NEW u, NEW v, Agree(s, u, Fields \ {"tx_complete", "tx_error"}),
               NEW a \in {"sent", "error"}, Reported(u, v, a),
               a = "sent" => s.tx_complete
        PROVE  FateOK(v, "hr", got)
    <2>1. /\ u.hr = s.hr /\ u.answers = s.answers /\ u.out = s.out /\ u.phy = s.phy
          /\ u.sends = s.sends /\ u.tx = s.tx /\ u.tx_xmit = s.tx_xmit
          /\ u.apart = s.apart
      BY <1>6 DEF Agree, Fields
    <2>2. /\ Agree(u, v, Fields \ ReportFields) /\ v.tch \in {"WAIT", "RECEIVED"}
          /\ ~v.tch_xmit /\ v.owed = None /\ v.answers = AnswersAfter(u, a)
      BY <1>6 DEF Reported
    <2>3. v.answers = <<a>>
      BY <1>1, <2>1, <2>2, FirstAnswer
    <2>4. /\ v.answers # <<"discard">>
          /\ v.answers = <<"sent">> => s.tx_complete
      BY <1>6, <2>3, AnswersDiffer
    <2>5. v.answers = <<"sent">> /\ ~u.apart => got = u.sends
      BY <1>1, <2>1, <2>4
    <2>6. /\ u.hr = "WAIT" /\ OwnOrAux(u.out, u.sends) /\ Aux(u.phy) /\ ~u.tx_xmit
          /\ u.tx # "LAYER_RESET" /\ u.tx # "PENDING"
      BY <1>1, <2>1
    <2>7. v.owed # None => v.answers = <<>> /\ got # u.sends
      BY <2>2
    <2> QED  BY <2>2, <2>4, <2>5, <2>6, <2>7, ReportFate
  <1>7. CASE s.tx_complete
    <2>1. Reported(c, x, "sent")
      BY <1>3, TchSentAgrees
    <2>2. Agree(s, c, Fields \ {"tx_complete", "tx_error"})
      BY <1>3 DEF Agree
    <2> HIDE DEF x
    <2>3. FateOK(x, "hr", got)
      BY <1>6, <1>7, <2>1, <2>2
    <2> QED  BY <1>2, <1>7, <2>3 DEF t
  <1>8. CASE ~s.tx_complete
    <2>1. Restart(e, y) \/ Reported(e, y, "error")
      BY <1>4, <1>5, TchErrorAgrees
    <2>2. Agree(s, e, Fields \ {"tx_complete", "tx_error"})
      BY <1>4 DEF Agree
    <2> HIDE DEF y
    <2>3. ASSUME Restart(e, y) PROVE FateOK(y, "hr", got)
      BY <2>3 DEF Restart, FateOK
    <2>4. FateOK(y, "hr", got)
      BY <1>6, <2>1, <2>2, <2>3
    <2> QED  BY <1>2, <1>8, <2>4 DEF t
  <1> QED  BY <1>7, <1>8

\* tch passes on a message of the partner that came instead.
LEMMA SpentTch ==
  ASSUME NEW s, Good(s), NEW st, NEW st2, NEW got, s.clean, FateOK(s, st, got),
         Spent(s, st, got), st2 \in {"tx", "hr"}
  PROVE  FateOK(tch_run(s), st2, got)
  <1> DEFINE t == tch_run(s)
             m == tch_message_received(s)
             w == EnterTchWait(s)
  <1>1. /\ ~s.tch_xmit /\ s.tch \in {"WAIT", "TRANSMISSION", "RECEIVED"}
        /\ s.tch = "TRANSMISSION" => NoFlags(s) /\ s.tx = "WAIT" /\ s.tch_received
        /\ Aux(s.phy) /\ s.tx # "LAYER_RESET" /\ (Own(s.out) => ~s.tx_xmit)
        /\ s.tx = "PENDING" => s.tx_xmit
        /\ s.owed # None => s.answers = <<>> /\ got # s.sends
        /\ s.answers = <<"discard">> => got # s.sends
        /\ s.answers = <<"sent">> /\ ~s.apart => got = s.sends
        /\ s.hr = "WAIT" /\ OwnOrAux(s.out, s.sends)
    BY DEF Spent, FateOK, Undelivered, Unheard
  <1>2. \/ t = m
        \/ s.tch = "WAIT" /\ t = s
        \/ t = w
    BY <1>1 DEF tch_run, tch_wait_run, tch_transmission_run, NoFlags
  <1>3. ASSUME NEW u, Agree(s, u, Fields \ ReportFields), u.tch \in {"WAIT", "RECEIVED"},
               ~u.tch_xmit, u.owed = s.owed, u.answers = s.answers
        PROVE  FateOK(u, st2, got)
    BY <1>1, <1>3, ReportFate
  <1>4. /\ Agree(s, m, Fields \ ReportFields) /\ m.tch = "RECEIVED" /\ ~m.tch_xmit
        /\ m.owed = s.owed /\ m.answers = s.answers
    BY <1>1, TchReceivedAgrees
  <1>5. /\ Agree(s, w, Fields \ {"tch", "tch_received", "tch_xmit", "tch_chunking",
                                  "expired"})
        /\ w.tch = "WAIT" /\ ~w.tch_xmit
    BY EnterTchAgrees
  <1> HIDE DEF m, w, t
  <1>6. Agree(s, w, Fields \ ReportFields) /\ w.owed = s.owed /\ w.answers = s.answers
    BY <1>5 DEF Agree, Fields, ReportFields
  <1>7. s.tch = "WAIT" => FateOK(s, st2, got)
    BY <1>1, <1>3 DEF Agree
  <1>8. FateOK(t, st2, got)
    BY <1>2, <1>3, <1>4, <1>5, <1>6, <1>7
  <1> QED  BY <1>8 DEF t

\* tch in every case.
LEMMA TchFate ==
  ASSUME NEW s, Good(s), ResetsOK(s), NEW st, NEW st2, NEW got, FateOK(s, st, got),
         (st = "tch" /\ st2 = "tx") \/ (st = "tch_again" /\ st2 = "hr")
  PROVE  FateOK(tch_run(s), st2, got)
  <1> DEFINE t == tch_run(s)
  <1>1. CASE ~s.clean
    <2>1. Restart(s, t) \/ TchMoves(s, t)
      BY TchRunAgrees
    <2> HIDE DEF t
    <2>2. ~t.clean
      BY <1>1, <2>1 DEF Restart, TchMoves, Agree, TchKept
    <2>3. FateOK(t, st2, got)
      BY <2>2 DEF FateOK
    <2> QED  BY <2>3 DEF t
  <1>2. CASE s.clean
    <2>1. CASE Handed(s, st, got)
      <3>1. st = "tch" /\ st2 = "tx"
        BY <2>1 DEF Handed
      <3> QED  BY <1>2, <2>1, <3>1, HandedFate
    <2>2. CASE Waits(s, got) \/ Sending(s, got)
      <3>1. t = s
        BY <2>2 DEF Waits, Sending, InTransmission, NoFlags, tch_run,
          tch_transmission_run
      <3>2. FateOK(s, st2, got)
        BY <1>2, <2>2 DEF FateOK
      <3> QED  BY <3>1, <3>2
    <2>3. CASE Done(s, st, got)
      <3>1. st = "tch_again" /\ st2 = "hr"
        BY <2>3 DEF Done
      <3> QED  BY <1>2, <2>3, <3>1, DoneFate
    <2>4. CASE Spent(s, st, got)
      BY <1>2, <2>4, SpentTch
    <2> QED  BY <1>2, <2>1, <2>2, <2>3, <2>4 DEF FateOK
  <1> QED  BY <1>1, <1>2

\* prl_tx sends the message of the policy engine, while it waits for it, and then
\* has its result; and no other message of the policy engine.
LEMMA WaitsFate ==
  ASSUME NEW s, NEW t, NEW got, s.clean, FateOK(s, "tx", got), TxMoves(s, t),
         s.out \in Message, Waits(s, got)
  PROVE  FateOK(t, "tch_again", got)
  <1>1. /\ InTransmission(s) /\ ~s.tch_received /\ Own(s.out) /\ s.phy = None
        /\ (s.tx_xmit /\ s.tx \in TxWaits) \/ (~s.tx_xmit /\ s.tx = "LAYER_RESET")
        /\ NoFlags(s) /\ Undelivered(s, got)
        /\ s.hr = "WAIT" /\ OwnOrAux(s.out, s.sends) /\ OwnOrAux(s.phy, s.sends)
    BY DEF Waits, FateOK
  <1>2. ASSUME Agree(s, t, {"tch", "tch_xmit", "tch_received", "rch", "rch_received",
                            "out", "tx_error", "owed", "answers", "sends", "hr"})
        PROVE  /\ InTransmission(t) /\ ~t.tch_received /\ Own(t.out)
               /\ Undelivered(t, got) /\ ~t.tx_error /\ t.hr = "WAIT"
               /\ OwnOrAux(t.out, t.sends)
    <2>1. /\ t.tch = s.tch /\ t.tch_xmit = s.tch_xmit /\ t.rch = s.rch
          /\ t.tch_received = s.tch_received /\ t.rch_received = s.rch_received
          /\ t.out = s.out /\ t.tx_error = s.tx_error /\ t.owed = s.owed
          /\ t.answers = s.answers /\ t.sends = s.sends /\ t.hr = s.hr
      BY <1>2 DEF Agree
    <2>2. InTransmission(t) /\ ~t.tch_received
      BY <1>1, <2>1 DEF InTransmission, RchIdle
    <2>3. Undelivered(t, got) /\ ~t.tx_error
      BY <1>1, <2>1 DEF Undelivered, Unheard, NoFlags
    <2> QED  BY <1>1, <2>1, <2>2, <2>3
  <1>3. CASE /\ s.tx \in TxWaits /\ t.tx \in TxWaits
             /\ Agree(s, t, Fields \ {"sink_ng", "tx", "expired", "xmit_status"})
    <2>1. Agree(s, t, {"tch", "tch_xmit", "tch_received", "rch", "rch_received",
                       "out", "tx_error", "owed", "answers", "sends", "hr"})
      BY <1>3 DEF Agree, Fields
    <2>2. t.phy = s.phy /\ t.tx_xmit = s.tx_xmit /\ t.tx_complete = s.tx_complete
          /\ t.sends = s.sends
      BY <1>3 DEF Agree, Fields
    <2>3. s.tx_xmit
      BY <1>1, <1>3 DEF TxWaits
    <2>4. Waits(t, got)
      BY <1>1, <1>2, <1>3, <2>1, <2>2, <2>3 DEF Waits, NoFlags
    <2> QED  BY <1>1, <1>2, <2>1, <2>2, <2>4 DEF FateOK
  <1>4. CASE Softened(s, t)
    <2>1. Agree(s, t, {"tch", "tch_xmit", "tch_received", "rch", "rch_received",
                       "out", "tx_error", "owed", "answers", "sends", "hr"})
      BY <1>4 DEF Softened, Agree, Fields
    <2>2. /\ t.phy = s.phy /\ t.tx_complete = s.tx_complete /\ t.sends = s.sends
          /\ ~t.tx_xmit /\ t.tx = "LAYER_RESET"
      BY <1>4 DEF Softened, Agree, Fields
    <2>3. Waits(t, got)
      BY <1>1, <1>2, <2>1, <2>2 DEF Waits, NoFlags
    <2> QED  BY <1>1, <1>2, <2>1, <2>2, <2>3 DEF FateOK
  <1>5. CASE Constructed(s, t) /\ ~t.tx_xmit
    <2>1. Agree(s, t, {"tch", "tch_xmit", "tch_received", "rch", "rch_received",
                       "out", "tx_error", "owed", "answers", "sends", "hr"})
      BY <1>5 DEF Constructed, Agree, Fields, PhyFields
    <2>2. /\ t.tx = "WAIT_PHY" /\ t.xmit_status = "UNSET" /\ "tx" \notin t.expired
          /\ ~t.tx_complete /\ t.phy = [s.out EXCEPT !.id = s.id]
      BY <1>5 DEF Constructed
    <2>3. t.phy.kind = s.out.kind /\ t.phy.n = s.out.n /\ t.sends = s.sends
      BY <2>1, <2>2 DEF Message, Agree
    <2>4. Own(t.phy) /\ OwnOrAux(t.phy, t.sends)
      BY <1>1, <2>3 DEF Own, OwnOrAux, Aux
    <2>5. Sending(t, got)
      BY <1>2, <1>5, <2>1, <2>2, <2>4 DEF Sending, NoFlags, Undelivered
    <2> QED  BY <1>2, <2>1, <2>4, <2>5 DEF FateOK
  <1>6. s.tx = "LAYER_RESET" => ~s.tx_xmit
    BY <1>1 DEF TxWaits
  <1>7. s.tx # "WAIT_PHY"
    BY <1>1 DEF TxWaits
  <1>8. Constructed(s, t) /\ s.tx = "LAYER_RESET" => ~t.tx_xmit
    BY <1>6 DEF Constructed
  <1> QED  BY <1>3, <1>4, <1>5, <1>7, <1>8 DEF TxMoves

\* The PHY transmits, or there is a result, with nothing left to transmit.
LEMMA SendingFate ==
  ASSUME NEW s, NEW t, NEW got, s.clean, FateOK(s, "tx", got), TxMoves(s, t),
         Sending(s, got)
  PROVE  FateOK(t, "tch_again", got)
  <1>1. /\ InTransmission(s) /\ ~s.tx_xmit /\ Unheard(s) /\ s.tx = "WAIT_PHY"
        /\ NoFlags(s)
        /\ s.xmit_status # "UNSET" \/ "tx" \in s.expired => s.phy = None
        /\ s.xmit_status = "SUCCESS" /\ ~s.apart => got = s.sends
        /\ s.hr = "WAIT" /\ OwnOrAux(s.out, s.sends) /\ OwnOrAux(s.phy, s.sends)
    BY DEF Sending, FateOK
  <1>2. t = s \/ Ended(s, t)
    BY <1>1 DEF TxMoves, TxWaits
  <1>3. CASE t = s
    BY <1>1, <1>3 DEF FateOK
  <1>4. CASE Ended(s, t)
    <2>1. /\ t.tch = s.tch /\ t.tch_xmit = s.tch_xmit /\ t.rch = s.rch
          /\ t.rch_received = s.rch_received /\ t.out = s.out /\ t.owed = s.owed
          /\ t.answers = s.answers /\ t.sends = s.sends /\ t.hr = s.hr
          /\ t.phy = s.phy /\ t.tx_xmit = s.tx_xmit /\ t.apart = s.apart
      BY <1>4 DEF Ended, Agree, Fields
    <2>2. /\ t.tx = "WAIT" /\ s.phy = None /\ (t.tx_complete \/ t.tx_error)
          /\ t.tx_complete => s.xmit_status = "SUCCESS"
      BY <1>1, <1>4 DEF Ended, Failed, NoFlags
    <2>3. InTransmission(t) /\ Unheard(t)
      BY <1>1, <2>1 DEF InTransmission, RchIdle, Unheard
    <2>4. Done(t, "tch_again", got)
      BY <1>1, <2>1, <2>2, <2>3 DEF Done
    <2> QED  BY <1>1, <2>1, <2>4 DEF FateOK
  <1> QED  BY <1>2, <1>3, <1>4

\* prl_tx may have a request for a chunk to send, and nothing of the policy engine.
LEMMA SpentTx ==
  ASSUME NEW s, NEW t, NEW got, s.clean, FateOK(s, "tx", got), TxMoves(s, t),
         s.out \in Message, Spent(s, "tx", got)
  PROVE  FateOK(t, "tch_again", got)
  <1>1. /\ ~s.tch_xmit /\ s.tch \in {"WAIT", "RECEIVED"} /\ Aux(s.phy)
        /\ s.tx # "LAYER_RESET" /\ (Own(s.out) => ~s.tx_xmit)
        /\ s.tx = "PENDING" => s.tx_xmit
        /\ s.owed # None => Undelivered(s, got)
        /\ s.answers = <<"discard">> => got # s.sends
        /\ s.answers = <<"sent">> /\ ~s.apart => got = s.sends
        /\ s.hr = "WAIT" /\ OwnOrAux(s.out, s.sends)
    BY DEF Spent, FateOK
  <1>2. ASSUME Agree(s, t, {"tch", "tch_xmit", "out", "owed", "answers", "sends", "hr"}),
               s.apart => t.apart, Aux(t.phy), t.tx # "LAYER_RESET",
               Own(t.out) => ~t.tx_xmit, t.tx = "PENDING" => t.tx_xmit
        PROVE  FateOK(t, "tch_again", got)
    <2>1. /\ t.tch = s.tch /\ t.tch_xmit = s.tch_xmit /\ t.out = s.out
          /\ t.owed = s.owed /\ t.answers = s.answers /\ t.sends = s.sends
          /\ t.hr = s.hr
      BY <1>2 DEF Agree
    <2>2. Undelivered(s, got) => Undelivered(t, got)
      BY <2>1 DEF Undelivered, Unheard
    <2>3. Spent(t, "tch_again", got)
      BY <1>1, <1>2, <2>1, <2>2 DEF Spent
    <2> QED  BY <1>1, <1>2, <2>1, <2>3 DEF FateOK, OwnOrAux
  <1>3. CASE /\ s.tx \in TxWaits /\ t.tx \in TxWaits
             /\ Agree(s, t, Fields \ {"sink_ng", "tx", "expired", "xmit_status"})
             /\ t.tx = "PENDING" => s.tx_xmit \/ s.tx = "PENDING"
    <2>1. Agree(s, t, {"tch", "tch_xmit", "out", "owed", "answers", "sends", "hr"})
      BY <1>3 DEF Agree, Fields
    <2>2. t.phy = s.phy /\ t.tx_xmit = s.tx_xmit /\ t.apart = s.apart /\ t.out = s.out
      BY <1>3 DEF Agree, Fields
    <2>3. t.tx # "LAYER_RESET"
      BY <1>3 DEF TxWaits
    <2> QED  BY <1>1, <1>2, <1>3, <2>1, <2>2, <2>3
  <1>4. CASE /\ s.tx_xmit \/ s.tx = "PENDING"
             /\ \/ Softened(s, t)
                \/ s.out.kind # "soft" /\ ~t.tx_xmit /\ Constructed(s, t)
    <2>1. ~Own(s.out) /\ Aux(s.out)
      BY <1>1, <1>4 DEF OwnOrAux
    <2>2. ~Softened(s, t)
      BY <2>1 DEF Softened, Own
    <2>3. /\ ~t.tx_xmit /\ t.tx = "WAIT_PHY" /\ t.phy = [s.out EXCEPT !.id = s.id]
          /\ t.apart = (s.apart \/ s.unheard = PD_MESSAGE_ID_COUNT)
      BY <1>4, <2>2 DEF Constructed
    <2>4. Agree(s, t, {"tch", "tch_xmit", "out", "owed", "answers", "sends", "hr"})
      BY <1>4, <2>2 DEF Constructed, Agree, Fields, PhyFields
    <2>5. Aux(t.phy)
      BY <2>1, <2>3 DEF Aux, Message
    <2>6. s.apart => t.apart
      BY <2>3
    <2> QED  BY <1>2, <2>3, <2>4, <2>5, <2>6
  <1>5. CASE t = s
    BY <1>1, <1>2, <1>5 DEF Agree
  <1>6. CASE Ended(s, t)
    <2>1. Agree(s, t, {"tch", "tch_xmit", "out", "owed", "answers", "sends", "hr"})
      BY <1>6 DEF Ended, Agree, Fields
    <2>2. /\ t.phy = s.phy /\ t.tx_xmit = s.tx_xmit /\ t.apart = s.apart
          /\ t.out = s.out /\ t.tx = "WAIT"
      BY <1>6 DEF Ended, Agree, Fields
    <2> QED  BY <1>1, <1>2, <2>1, <2>2
  <1> QED  BY <1>1, <1>3, <1>4, <1>5, <1>6 DEF TxMoves

\* prl_tx in every case.
LEMMA TxFate ==
  ASSUME NEW s, Good(s), ResetsOK(s), NEW got, FateOK(s, "tx", got)
  PROVE  FateOK(prl_tx_run(s), "tch_again", got)
  <1> DEFINE t == prl_tx_run(s)
  <1>1. TxMoves(s, t)
    BY TxRunMoves
  <1> HIDE DEF t
  <1>2. t.clean = s.clean
    BY <1>1 DEF TxMoves, Softened, Constructed, Ended, Agree, Fields, PhyFields
  <1>3. s.out \in Message
    BY DEF Good, Layer
  <1>4. ~Handed(s, "tx", got) /\ ~Done(s, "tx", got)
    BY DEF Handed, Done
  <1>5. FateOK(t, "tch_again", got)
    <2>1. CASE ~s.clean
      BY <1>2, <2>1 DEF FateOK
    <2>2. CASE s.clean
      BY <1>1, <1>3, <1>4, <2>2, WaitsFate, SendingFate, SpentTx DEF FateOK
    <2> QED  BY <2>1, <2>2
  <1> QED  BY <1>5 DEF t

-----------------------------------------------------------------------------
\* What every step does to the message numbers.
NumbersKept(s, t) ==
  /\ t.sends \in {s.sends, s.sends + 1} /\ t.phy.n \in {s.phy.n, s.out.n, 0}
  /\ t.out.n \in {s.out.n, 0, t.sends}

\* That is enough.
LEMMA NumbersFrame ==
  ASSUME NEW s, NEW t, Good(s), NumbersKept(s, t), NEW got, NumbersOK(s, got)
  PROVE  NumbersOK(t, got)
  <1>1. s.sends \in Nat /\ s.out.n \in Nat /\ s.phy.n \in Nat
    BY PrlAssumption DEF Good, Layer, Message
  <1> QED  BY <1>1 DEF NumbersKept, NumbersOK

\* The machines only copy the numbers.
LEMMA MachineNumbers ==
  ASSUME NEW s, Good(s), ResetsOK(s)
  PROVE  /\ NumbersKept(s, rch_run(s)) /\ NumbersKept(s, tch_run(s))
         /\ NumbersKept(s, prl_tx_run(s)) /\ NumbersKept(s, prl_hr_run(s))
  <1>1. ASSUME NEW t, Restart(s, t) PROVE NumbersKept(s, t)
    BY <1>1 DEF Restart, Agree, NumbersKept
  <1>2. ASSUME NEW t, RchMoves(s, t) PROVE NumbersKept(s, t)
    BY <1>2 DEF RchMoves, Agree, RchKept, NumbersKept
  <1>3. ASSUME NEW t, TchMoves(s, t) PROVE NumbersKept(s, t)
    BY <1>3 DEF TchMoves, Agree, TchKept, NumbersKept
  <1>4. ASSUME NEW t, TxMoves(s, t) PROVE NumbersKept(s, t)
    <2>1. ASSUME Constructed(s, t) PROVE NumbersKept(s, t)
      <3>1. t.sends = s.sends /\ t.out = s.out /\ t.phy = [s.out EXCEPT !.id = s.id]
        BY <2>1 DEF Constructed, Agree, Fields, PhyFields
      <3>2. t.phy.n = s.out.n
        BY <3>1 DEF Good, Layer, Message
      <3> QED  BY <3>1, <3>2 DEF NumbersKept
    <2>2. ASSUME t.sends = s.sends, t.out = s.out, t.phy = s.phy PROVE NumbersKept(s, t)
      BY <2>2 DEF NumbersKept
    <2>3. Softened(s, t) => NumbersKept(s, t)
      BY <2>2 DEF Softened, Agree, Fields
    <2>4. Ended(s, t) => NumbersKept(s, t)
      BY <2>2 DEF Ended, Agree, Fields
    <2>5. Agree(s, t, Fields \ {"sink_ng", "tx", "expired", "xmit_status"})
            => NumbersKept(s, t)
      BY <2>2 DEF Agree, Fields
    <2> QED  BY <1>4, <2>1, <2>2, <2>3, <2>4, <2>5 DEF TxMoves
  <1>5. ASSUME NEW t, HrMoves(s, t) PROVE NumbersKept(s, t)
    BY <1>5 DEF HrMoves, Agree, NumbersKept
  <1> QED  BY <1>1, <1>2, <1>3, <1>4, <1>5, RchRunAgrees, TchRunAgrees, TxRunMoves,
           HrRunMoves

\* A hard reset, whoever begins it.
LEMMA ExecuteNumbers ==
  ASSUME NEW s, Good(s), NEW who \in {"PE", "PARTNER"}
  PROVE  NumbersKept(s, execute_hard_reset(s, who))
  <1> DEFINE t == execute_hard_reset(s, who)
  <1>1. Agree(s, t, Untouched)
    BY ExecuteAgrees
  <1> HIDE DEF t
  <1>2. NumbersKept(s, t)
    BY <1>1 DEF Agree, Untouched, NumbersKept
  <1> QED  BY <1>2 DEF t

\* The reception gives a number to the answer to a Soft_Reset only.
LEMMA ReceiveNumbers ==
  ASSUME NEW s, Good(s), NEW msg \in Message
  PROVE  NumbersKept(s, SoftReset(s)) /\ NumbersKept(s, Accept(s, msg))
  <1>1. ASSUME NEW t, Reset(s, t) PROVE NumbersKept(s, t)
    BY <1>1 DEF Reset, Agree, NumbersKept
  <1>2. ASSUME NEW t, AcceptMoves(s, t) PROVE NumbersKept(s, t)
    <2>1. t.sends = s.sends /\ t.out = s.out /\ t.phy = s.phy
      BY <1>2 DEF AcceptMoves, Agree, Fields, InFields, OutFields
    <2> QED  BY <2>1 DEF NumbersKept
  <1> QED  BY <1>1, <1>2, SoftResetAgrees, AcceptAgrees

\* The message numbers of a state.
Numbers == NumbersOK(prl, partner.got)

\* The policy engine numbers its messages one after the other.
LEMMA PeNumbers == ASSUME IInv, Numbers, PE PROVE Numbers'
  <1>1. Good(prl) /\ PartnerOK
    BY DEF IInv, QueueOK
  <1>2. DOMAIN prl = Fields
    BY <1>1 DEF Good, Layer
  <1>3. ASSUME NumbersKept(prl, prl'), partner'.got = partner.got PROVE Numbers'
    BY <1>1, <1>3, NumbersFrame DEF Numbers
  <1>4. ASSUME NEW kind \in PeKinds, NEW ams \in BOOLEAN, PeSend(kind, ams)
        PROVE  Numbers'
    <2> DEFINE g == prl_send(prl, kind)
               t == [g EXCEPT !.local_ams = ams]
    <2>1. prl' = t /\ partner' = partner
      BY <1>4 DEF PeSend, env
    <2>2. Given(prl, g, kind) /\ DOMAIN g = Fields
      BY <1>1, <1>2, SendAgrees DEF Given, Agree
    <2> HIDE DEF g
    <2>3. t.phy = prl.phy /\ t.sends = prl.sends + 1 /\ t.out.n = prl.sends + 1
      BY <2>2 DEF Given, Agree, Fields
    <2> HIDE DEF t
    <2> QED  BY <1>3, <2>1, <2>3 DEF NumbersKept
  <1>5. ASSUME NEW t, prl' = t, Agree(prl, t, {"phy", "sends", "out"}), partner' = partner
        PROVE  Numbers'
    BY <1>3, <1>5 DEF NumbersKept, Agree
  <1>6. ASSUME NEW ams \in BOOLEAN, PeIdle(ams) PROVE Numbers'
    <2>1. prl' = [prl EXCEPT !.local_ams = ams] /\ partner' = partner
      BY <1>6 DEF PeIdle, env
    <2>2. Agree(prl, prl', {"phy", "sends", "out"})
      BY <1>2, <2>1 DEF Agree, Fields
    <2> QED  BY <1>5, <2>1, <2>2
  <1>7. ASSUME PeHardReset PROVE Numbers'
    <2>1. prl' \in {prl, execute_hard_reset(prl, "PE")} /\ partner' = partner
      BY <1>7 DEF PeHardReset, Execute
    <2>2. NumbersKept(prl, prl)
      BY DEF NumbersKept
    <2> QED  BY <1>1, <1>3, <2>1, <2>2, ExecuteNumbers
  <1>8. ASSUME NEW startup \in BOOLEAN, prl_hard_reset_complete(startup) PROVE Numbers'
    <2> DEFINE f == prl.hr_flags \cup {"COMPLETE"}
    <2>1. prl' = [prl EXCEPT !.pe_reset = FALSE, !.hr_flags = f] /\ partner' = partner
      BY <1>8 DEF prl_hard_reset_complete, env
    <2> HIDE DEF f
    <2>2. Agree(prl, prl', {"phy", "sends", "out"})
      BY <1>2, <2>1 DEF Agree, Fields
    <2> QED  BY <1>5, <2>1, <2>2
  <1>9. CASE PeStartup \/ PeSoftReset
    <2>1. prl' = prl /\ partner' = partner
      BY <1>9 DEF PeStartup, PeSoftReset
    <2> QED  BY <2>1 DEF Numbers
  <1> QED  BY <1>4, <1>6, <1>7, <1>8, <1>9 DEF PE

\* A layer that starts has nothing to send.
LEMMA StartNumbers ==
  ASSUME IInv, Numbers, NEW anew \in BOOLEAN, prl_run_init(anew)
  PROVE  Numbers'
  <1> DEFINE t == Started(prl, anew)
             p == prl_init
  <1>1. /\ prl' = t
        /\ partner' \in {partner, [partner EXCEPT !.id = 0, !.seen = -1, !.last = None]}
    BY DEF prl_run_init
  <1>2. /\ t.phy = prl.phy /\ t.sends = prl.sends
        /\ \A f \in Fields \ {"sends", "phy", "rx", "passed", "overwritten", "era",
                              "rx_era", "clean", "apart"} : t[f] = p[f]
    BY StartedIs DEF IInv
  <1>3. p.out.n = 0
    BY DEF prl_init, None
  <1> HIDE DEF t, p
  <1>4. NumbersKept(prl, t)
    BY <1>2, <1>3 DEF NumbersKept, Fields
  <1>5. partner'.got = partner.got
    BY <1>1 DEF IInv, QueueOK, PartnerOK, Partner
  <1> QED  BY <1>1, <1>4, <1>5, NumbersFrame DEF IInv, Numbers

\* A message is received.
LEMMA RxNumbers == ASSUME IInv, Numbers, prl_rx_wait_for_phy_message PROVE Numbers'
  <1>1. Good(prl) /\ queue \in Seq(Message) /\ partner' = partner
    BY DEF IInv, QueueOK, prl_rx_wait_for_phy_message
  <1>2. ASSUME NumbersKept(prl, prl') PROVE Numbers'
    BY <1>1, <1>2, NumbersFrame DEF Numbers
  <1>3. CASE Busy(prl) \/ queue = <<>>
    BY <1>2, <1>3 DEF prl_rx_wait_for_phy_message, NumbersKept
  <1>4. CASE ~(Busy(prl) \/ queue = <<>>)
    <2> DEFINE msg == Head(queue)
               t == [prl EXCEPT !.rx = msg, !.unhindered = FALSE]
    <2>1. prl' \in {SoftReset(t), Accept(t, msg), t}
      BY <1>4 DEF prl_rx_wait_for_phy_message, Receive
    <2>2. msg \in Message /\ msg.num < CHUNKS
      <3>1. msg = queue[1] /\ 1 \in 1 .. Len(queue)
        BY <1>1, <1>4
      <3> QED  BY <1>1, <3>1 DEF IInv, QueueOK
    <2> HIDE DEF msg
    <2>3. Good(t) /\ Agree(prl, t, Fields \ {"rx", "unhindered"})
      <3>1. Good(t)
        BY <1>1, <2>2 DEF Good, Layer, Fields, ChunksOK
      <3> QED  BY <1>1, <3>1 DEF Agree, Good, Layer, Fields
    <2> HIDE DEF t
    <2>4. t.phy = prl.phy /\ t.out = prl.out /\ t.sends = prl.sends
      BY <2>3 DEF Agree, Fields
    <2>5. NumbersKept(t, prl')
      <3>1. NumbersKept(t, t)
        BY DEF NumbersKept
      <3> QED  BY <2>1, <2>2, <2>3, <3>1, ReceiveNumbers
    <2> QED  BY <1>2, <2>4, <2>5 DEF NumbersKept
  <1> QED  BY <1>3, <1>4

\* The PHY transmits what it was given, or nothing.
LEMMA PhyNumbers ==
  ASSUME IInv, Numbers, Agree(prl, prl', {"out", "sends"}), prl'.phy \in {prl.phy, None},
         partner'.got \in {partner.got, prl.phy.n}
  PROVE  Numbers'
  <1>1. Good(prl)
    BY DEF IInv
  <1>2. NumbersKept(prl, prl')
    BY DEF NumbersKept, Agree, None
  <1>3. NumbersOK(prl', partner.got)
    BY <1>1, <1>2, NumbersFrame DEF Numbers
  <1>4. prl.phy.n \in Nat /\ prl.phy.n <= prl.sends /\ prl'.sends = prl.sends
    BY <1>1, PrlAssumption DEF Numbers, NumbersOK, Good, Layer, Message, Agree
  <1> QED  BY <1>3, <1>4 DEF Numbers, NumbersOK

-----------------------------------------------------------------------------
\* The fate of the last message in a state.
Fate == FateOK(prl, stage, partner.got)

\* A message is handed over with nothing of an earlier one left.
LEMMA GivenFate ==
  ASSUME NEW t, t.clean => /\ t.hr = "WAIT" /\ t.tch = "WAIT" /\ t.tx = "WAIT"
                           /\ ~t.tx_xmit /\ NoFlags(t) /\ t.phy = None /\ Own(t.out),
         t.tch_xmit, t.owed = t.out, t.out.n = t.sends, t.answers = <<>>,
         NEW st \in {"rx", "rch"}, NEW got, got # t.sends
  PROVE  FateOK(t, st, got)
  <1> SUFFICES ASSUME t.clean PROVE FateOK(t, st, got)
    BY DEF FateOK
  <1>1. t.owed # None
    BY DEF Own, None
  <1>2. Handed(t, st, got)
    BY <1>1 DEF Handed, Undelivered, Unheard
  <1> QED  BY <1>2 DEF FateOK, OwnOrAux, Aux, None

\* A hard reset of the partner is handled, or nothing happens.
LEMMA CheckFate == ASSUME IInv, Fate, tc_event_check PROVE Fate'
  <1>1. /\ stage = "tc" /\ stage' = "pe" /\ partner' = partner
        /\ prl' \in {prl, execute_hard_reset(prl, "PARTNER")}
    BY DEF tc_event_check, Execute, Goto
  <1>2. CASE prl' = execute_hard_reset(prl, "PARTNER")
    <2>1. ~execute_hard_reset(prl, "PARTNER").clean
      BY ExecuteAgrees DEF IInv
    <2> QED  BY <1>1, <1>2, <2>1 DEF Fate, FateOK
  <1>3. CASE prl' = prl
    BY <1>1, <1>3, FateFrame DEF Fate, Agree
  <1> QED  BY <1>1, <1>2, <1>3

\* The policy engine hands over a message, or starts anew.
LEMMA PeFate == ASSUME IInv, Numbers, Fate, PE PROVE Fate'
  <1>1. stage = "pe" /\ stage' = "rx"
    BY DEF PE, PeSend, PeIdle, PeHardReset, prl_hard_reset_complete, PeStartup,
      PeSoftReset, Goto
  <1>2. /\ Good(prl) /\ DOMAIN prl = Fields /\ HardOK(prl) /\ PartnerOK
    BY DEF IInv, Good, Layer, HrOK, QueueOK
  <1>3. partner.got \in Nat /\ prl.sends \in Nat /\ partner.got <= prl.sends
    BY <1>2, PrlAssumption DEF Numbers, NumbersOK, Good, Layer
  <1>4. ASSUME NEW kind \in PeKinds, NEW ams \in BOOLEAN, PeSend(kind, ams)
        PROVE  Fate'
    <2> DEFINE g == prl_send(prl, kind)
               t == [g EXCEPT !.local_ams = ams]
    <2>1. prl' = t /\ partner' = partner
      BY <1>4 DEF PeSend, env
    <2>2. Given(prl, g, kind)
      BY <1>2, SendAgrees
    <2> HIDE DEF g
    <2>3. DOMAIN g = Fields
      BY <1>2, <2>2 DEF Given, Agree
    <2>4. Agree(g, t, Fields \ {"local_ams"})
      BY <2>3 DEF Agree
    <2> HIDE DEF t
    <2>5. /\ g.hr = prl.hr /\ g.tch = prl.tch /\ g.tx = prl.tx /\ g.phy = prl.phy
          /\ g.tx_xmit = prl.tx_xmit /\ g.tx_complete = prl.tx_complete
          /\ g.tx_error = prl.tx_error
      BY <2>2 DEF Given, Agree, Fields
    <2>6. kind # "ext" => kind \in {"data", "soft"}
      BY PrlAssumption
    <2>7. /\ g.clean => /\ g.hr = "WAIT" /\ g.tch = "WAIT" /\ g.tx = "WAIT"
                        /\ ~g.tx_xmit /\ NoFlags(g) /\ g.phy = None /\ Own(g.out)
          /\ g.tch_xmit /\ g.owed = g.out /\ g.out.n = g.sends /\ g.answers = <<>>
          /\ g.sends = prl.sends + 1
      BY <2>2, <2>5, <2>6 DEF Given, NoFlags, Own
    <2>8. FateOK(g, "rx", partner.got)
      BY <1>3, <2>7, GivenFate
    <2>9. Agree(g, t, FateFields \cup {"phy", "xmit_status"})
          /\ t.apart = g.apart /\ t.expired = g.expired
      BY <2>4 DEF Agree, Fields, FateFields
    <2>10. FateOK(t, "rx", partner.got)
      BY <2>8, <2>9, FateFrame
    <2> QED  BY <1>1, <2>1, <2>10 DEF Fate
  <1>5. ASSUME NEW t, prl' = t, partner' = partner,
               Agree(prl, t, FateFields \cup {"phy", "xmit_status", "apart", "expired"})
        PROVE  Fate'
    <2>1. Agree(prl, t, FateFields \cup {"phy", "xmit_status"})
          /\ t.apart = prl.apart /\ t.expired = prl.expired
      BY <1>5 DEF Agree
    <2> QED  BY <1>1, <1>5, <2>1, FateFrame DEF Fate
  <1>6. ASSUME NEW ams \in BOOLEAN, PeIdle(ams) PROVE Fate'
    <2> DEFINE t == [prl EXCEPT !.local_ams = ams]
    <2>1. prl' = t /\ partner' = partner
      BY <1>6 DEF PeIdle, env
    <2>2. Agree(prl, t, FateFields \cup {"phy", "xmit_status", "apart", "expired"})
      BY <1>2 DEF Agree, Fields, FateFields
    <2> QED  BY <1>5, <2>1, <2>2
  <1>7. ASSUME PeHardReset PROVE Fate'
    <2> DEFINE t == execute_hard_reset(prl, "PE")
    <2>1. ~t.clean
      BY <1>2, ExecuteAgrees
    <2>2. prl' \in {prl, t} /\ partner' = partner
      BY <1>7 DEF PeHardReset, Execute
    <2> HIDE DEF t
    <2>3. CASE prl' = t
      BY <2>1, <2>3 DEF Fate, FateOK
    <2>4. CASE prl' = prl
      BY <1>5, <2>2, <2>4 DEF Agree
    <2> QED  BY <2>2, <2>3, <2>4
  <1>8. ASSUME NEW startup \in BOOLEAN, prl_hard_reset_complete(startup) PROVE Fate'
    <2> DEFINE f == prl.hr_flags \cup {"COMPLETE"}
               t == [prl EXCEPT !.pe_reset = FALSE, !.hr_flags = f]
    <2>1. prl' = t /\ partner' = partner
      BY <1>8 DEF prl_hard_reset_complete, env
    <2> HIDE DEF f
    <2>2. Agree(prl, t, FateFields \cup {"phy", "xmit_status", "apart", "expired"})
      BY <1>2 DEF Agree, Fields, FateFields
    <2> QED  BY <1>5, <2>1, <2>2
  <1>9. CASE PeStartup \/ PeSoftReset
    <2>1. prl' = prl /\ partner' = partner
      BY <1>9 DEF PeStartup, PeSoftReset
    <2> QED  BY <1>5, <2>1 DEF Agree
  <1> QED  BY <1>4, <1>6, <1>7, <1>8, <1>9 DEF PE

\* A layer that starts is not clean: what the PHY transmits may be of before.
LEMMA StartFate ==
  ASSUME IInv, NEW anew \in BOOLEAN, prl_run_init(anew)
  PROVE  Fate'
  <1>1. prl' = Started(prl, anew)
    BY DEF prl_run_init
  <1>2. ~prl'.clean
    BY <1>1, StartedIs DEF IInv
  <1> QED  BY <1>2 DEF Fate, FateOK

\* The pending message is discarded; without one the message of the partner waits
\* in tch until prl_tx has a result.
LEMMA AcceptFate ==
  ASSUME NEW s, NEW t, NEW got, FateOK(s, "rx", got), AcceptMoves(s, t)
  PROVE  FateOK(t, "rch", got)
  <1>1. CASE Agree(s, t, Fields \ {"rx_id", "rx_era", "accepted", "overwritten", "passed",
                                   "heard"})
    <2>1. Agree(s, t, FateFields \cup {"phy", "xmit_status"})
          /\ t.apart = s.apart /\ t.expired = s.expired
      BY <1>1 DEF Agree, Fields, FateFields
    <2> QED  BY <2>1, FateFrame
  <1>2. CASE /\ s.tx = "WAIT_PHY" /\ ~s.tx_xmit
             /\ Agree(s, t, Fields \ InFields) /\ Routed(s, t)
    <2>1. /\ t.clean = s.clean /\ t.hr = s.hr /\ t.out = s.out /\ t.sends = s.sends
          /\ t.phy = s.phy /\ t.tch = s.tch /\ t.tch_xmit = s.tch_xmit
          /\ t.rch = s.rch /\ t.tx = s.tx /\ t.tx_xmit = s.tx_xmit
          /\ t.tx_complete = s.tx_complete /\ t.tx_error = s.tx_error
          /\ t.owed = s.owed /\ t.answers = s.answers /\ t.apart = s.apart
          /\ t.xmit_status = s.xmit_status /\ t.expired = s.expired
      BY <1>2 DEF Agree, Fields, InFields
    <2> SUFFICES ASSUME s.clean PROVE FateOK(t, "rch", got)
      BY <2>1 DEF FateOK
    <2>2. CASE Sending(s, got)
      <3>1. t.rch_received = s.rch_received
        BY <1>2, <2>2 DEF Routed, Sending, InTransmission
      <3>2. InTransmission(t) /\ Unheard(t) /\ NoFlags(t)
        BY <2>1, <2>2, <3>1 DEF Sending, InTransmission, RchIdle, Unheard, NoFlags
      <3>3. Sending(t, got)
        BY <2>1, <2>2, <3>2 DEF Sending
      <3> QED  BY <2>1, <3>3 DEF FateOK
    <2>3. CASE Spent(s, "rx", got)
      <3>1. Undelivered(s, got) => Undelivered(t, got)
        BY <2>1 DEF Undelivered, Unheard
      <3>2. Spent(t, "rch", got)
        BY <2>1, <2>3, <3>1 DEF Spent
      <3> QED  BY <2>1, <3>2 DEF FateOK
    <2>4. ~Handed(s, "rx", got) /\ ~Waits(s, got) /\ ~Done(s, "rx", got)
      BY <1>2 DEF Handed, Waits, Done, TxWaits
    <2> QED  BY <2>2, <2>3, <2>4 DEF FateOK
  <1>3. CASE /\ s.tx # "WAIT_PHY" \/ s.tx_xmit
             /\ Agree(s, t, Fields \ (InFields \cup OutFields))
             /\ Discarded(s, t) /\ Routed(s, t)
    <2>1. /\ t.clean = s.clean /\ t.hr = s.hr /\ t.out = s.out /\ t.sends = s.sends
          /\ t.phy = s.phy /\ t.tch = s.tch /\ t.tch_xmit = s.tch_xmit
          /\ t.rch = s.rch /\ t.tx_complete = s.tx_complete
          /\ t.tx_error = s.tx_error /\ t.apart = s.apart
      BY <1>3 DEF Agree, Fields, InFields, OutFields
    <2>2. /\ t.tx = "WAIT" /\ ~t.tx_xmit
          /\ s.tx_xmit =>
               /\ t.owed = None
               /\ t.answers = IF s.owed = None THEN s.answers
                              ELSE AnswersAfter(s, "discard")
          /\ ~s.tx_xmit => t.owed = s.owed /\ t.answers = s.answers
      BY <1>3 DEF Discarded
    <2> SUFFICES ASSUME s.clean PROVE FateOK(t, "rch", got)
      BY <2>1 DEF FateOK
    <2>3. /\ s.hr = "WAIT" /\ OwnOrAux(s.out, s.sends) /\ OwnOrAux(s.phy, s.sends)
      BY DEF FateOK
    <2>4. ASSUME s.owed # None => Undelivered(s, got),
                 s.answers = <<"discard">> => got # s.sends,
                 s.answers = <<"sent">> /\ ~s.apart => got = s.sends
          PROVE  /\ t.owed # None => Undelivered(t, got)
                 /\ t.answers = <<"discard">> => got # t.sends
                 /\ t.answers = <<"sent">> /\ ~t.apart => got = t.sends
      <3>1. CASE ~s.tx_xmit \/ s.owed = None
        BY <2>1, <2>2, <2>4, <3>1 DEF Undelivered, Unheard
      <3>2. CASE s.tx_xmit /\ s.owed # None
        <4>1. t.answers = <<"discard">> /\ got # s.sends
          BY <2>2, <2>3, <2>4, <3>2, FirstAnswer DEF Undelivered, Unheard
        <4> QED  BY <2>1, <2>2, <3>2, <4>1, AnswersDiffer
      <3> QED  BY <3>1, <3>2
    <2>5. CASE Handed(s, "rx", got)
      <3>1. ~s.tx_xmit /\ Own(s.out)
        BY <2>5 DEF Handed
      <3>2. NoFlags(t) /\ Undelivered(t, got)
        BY <2>1, <2>2, <2>5, <3>1 DEF Handed, NoFlags, Undelivered, Unheard
      <3>3. Handed(t, "rch", got)
        BY <2>1, <2>2, <2>5, <3>1, <3>2 DEF Handed
      <3> QED  BY <2>1, <2>3, <3>3 DEF FateOK
    <2>6. CASE Waits(s, got)
      <3>1. /\ InTransmission(s) /\ NoFlags(s) /\ Undelivered(s, got) /\ s.phy = None
        BY <2>6 DEF Waits
      <3>2. s.answers # <<"discard">> /\ s.answers # <<"sent">>
        BY <3>1, AnswersDiffer DEF Undelivered, Unheard
      <3>3. t.tch_received /\ t.rch_received = s.rch_received
        BY <1>3, <3>1 DEF Routed, InTransmission
      <3>4. NoFlags(t) /\ RchIdle(t) /\ t.tch = "TRANSMISSION" /\ ~t.tch_xmit
        BY <2>1, <3>1, <3>3 DEF InTransmission, NoFlags, RchIdle
      <3>5. Aux(t.phy)
        BY <2>1, <3>1 DEF Aux, None
      <3>6. Spent(t, "rch", got)
        BY <2>2, <2>4, <3>1, <3>2, <3>3, <3>4, <3>5 DEF Spent
      <3> QED  BY <2>1, <2>3, <3>6 DEF FateOK
    <2>7. CASE Spent(s, "rx", got)
      <3>1. /\ ~t.tch_xmit /\ t.tch \in {"WAIT", "RECEIVED"} /\ Aux(t.phy)
        BY <2>1, <2>7 DEF Spent
      <3>2. /\ t.owed # None => Undelivered(t, got)
            /\ t.answers = <<"discard">> => got # t.sends
            /\ t.answers = <<"sent">> /\ ~t.apart => got = t.sends
        BY <2>4, <2>7 DEF Spent
      <3>3. Spent(t, "rch", got)
        BY <2>2, <3>1, <3>2 DEF Spent
      <3> QED  BY <2>1, <2>3, <3>3 DEF FateOK
    <2>8. ~Sending(s, got) /\ ~Done(s, "rx", got)
      BY <1>3 DEF Sending, Done
    <2> QED  BY <2>5, <2>6, <2>7, <2>8 DEF FateOK
  <1> QED  BY <1>1, <1>2, <1>3 DEF AcceptMoves

\* A Soft_Reset of the partner is answered by a message of our own.
LEMMA ResetFate ==
  ASSUME NEW s, NEW t, Reset(s, t), NEW got, got \in Nat, s.sends \in Nat, got <= s.sends
  PROVE  FateOK(t, "rch", got)
  <1>1. /\ t.tx = "WAIT" /\ t.out.kind = "data" /\ t.out.n = t.sends /\ t.owed = t.out
        /\ t.tch_xmit /\ t.sends = s.sends + 1 /\ t.answers = <<>>
        /\ t.clean => /\ t.hr = "WAIT" /\ t.tch = "WAIT" /\ ~t.tx_xmit
                      /\ NoFlags(t) /\ t.phy = None
    BY DEF Reset
  <1>2. got # t.sends
    BY <1>1
  <1>3. Own(t.out)
    BY <1>1 DEF Own
  <1> QED  BY <1>1, <1>2, <1>3, GivenFate

\* A message is received.
LEMMA RxFate == ASSUME IInv, Numbers, Fate, prl_rx_wait_for_phy_message PROVE Fate'
  <1>1. /\ stage = "rx" /\ stage' = "rch" /\ partner' = partner
        /\ Good(prl) /\ queue \in Seq(Message)
    BY DEF IInv, QueueOK, prl_rx_wait_for_phy_message, Goto
  <1>2. CASE Busy(prl) \/ queue = <<>>
    <2>1. prl' = prl
      BY <1>2 DEF prl_rx_wait_for_phy_message
    <2> QED  BY <1>1, <2>1, FateFrame DEF Fate, Agree
  <1>3. CASE ~(Busy(prl) \/ queue = <<>>)
    <2> DEFINE msg == Head(queue)
               t == [prl EXCEPT !.rx = msg, !.unhindered = FALSE]
    <2>1. prl' \in {SoftReset(t), Accept(t, msg), t}
      BY <1>3 DEF prl_rx_wait_for_phy_message, Receive
    <2>2. msg \in Message /\ msg.num < CHUNKS
      <3>1. msg = queue[1] /\ 1 \in 1 .. Len(queue)
        BY <1>1, <1>3
      <3> QED  BY <1>1, <3>1 DEF IInv, QueueOK
    <2> HIDE DEF msg
    <2>3. Good(t) /\ Agree(prl, t, Fields \ {"rx", "unhindered"})
      <3>1. Good(t)
        BY <1>1, <2>2 DEF Good, Layer, Fields, ChunksOK
      <3> QED  BY <1>1, <3>1 DEF Agree, Good, Layer, Fields
    <2> HIDE DEF t
    <2>4. Agree(prl, t, FateFields \cup {"phy", "xmit_status"})
          /\ t.apart = prl.apart /\ t.expired = prl.expired /\ t.sends = prl.sends
      BY <2>3 DEF Agree, Fields, FateFields
    <2>5. FateOK(t, "rx", partner.got) /\ FateOK(t, "rch", partner.got)
      BY <1>1, <2>4, FateFrame DEF Fate
    <2>6. Reset(t, SoftReset(t)) /\ AcceptMoves(t, Accept(t, msg))
      BY <2>2, <2>3, SoftResetAgrees, AcceptAgrees
    <2>7. partner.got \in Nat /\ t.sends \in Nat /\ partner.got <= t.sends
      BY <1>1, <2>4, PrlAssumption DEF Numbers, NumbersOK, Good, Layer
    <2>8. FateOK(prl', "rch", partner.got)
      BY <2>1, <2>5, <2>6, <2>7, ResetFate, AcceptFate
    <2> QED  BY <1>1, <2>8 DEF Fate
  <1> QED  BY <1>2, <1>3

\* The machines run.
LEMMA MachineFate == ASSUME IInv, Fate, prl_run PROVE Fate'
  <1>1. /\ partner' = partner
        /\ \/ stage = "rch" /\ stage' = "tch" /\ prl' = rch_run(prl)
           \/ stage = "tch" /\ stage' = "tx" /\ prl' = tch_run(prl)
           \/ stage = "tx" /\ stage' = "tch_again" /\ prl' = prl_tx_run(prl)
           \/ stage = "tch_again" /\ stage' = "hr" /\ prl' = tch_run(prl)
           \/ stage = "hr" /\ stage' = "tc" /\ prl' = prl_hr_run(prl)
    BY DEF prl_run, Goto, env
  <1>2. Good(prl) /\ ResetsOK(prl)
    BY DEF IInv, HrOK
  <1> QED  BY <1>1, <1>2, RchFate, TchFate, TxFate, HrFate DEF Fate

\* The PHY has done with what it transmitted, and the partner may have received it.
LEMMA SilentFate ==
  ASSUME NEW s, NEW t, Agree(s, t, FateFields), t.phy = None,
         NEW st, NEW got, NEW got2, FateOK(s, st, got),
         Aux(s.phy) => got2 = got /\ (s.apart => t.apart),
         s.clean /\ Sending(s, got) /\ t.xmit_status = "SUCCESS" /\ ~t.apart =>
           got2 = s.sends
  PROVE  FateOK(t, st, got2)
  <1>1. /\ t.clean = s.clean /\ t.hr = s.hr /\ t.out = s.out /\ t.sends = s.sends
        /\ t.tch = s.tch /\ t.tch_xmit = s.tch_xmit /\ t.tch_received = s.tch_received
        /\ t.rch = s.rch /\ t.rch_received = s.rch_received /\ t.tx = s.tx
        /\ t.tx_xmit = s.tx_xmit /\ t.tx_complete = s.tx_complete
        /\ t.tx_error = s.tx_error /\ t.owed = s.owed /\ t.answers = s.answers
    BY DEF Agree, FateFields
  <1>2. /\ NoFlags(t) <=> NoFlags(s)
        /\ RchIdle(t) <=> RchIdle(s)
        /\ InTransmission(t) <=> InTransmission(s)
        /\ Unheard(t) <=> Unheard(s)
    BY <1>1 DEF NoFlags, RchIdle, InTransmission, Unheard
  <1>3. Aux(None)
    BY DEF Aux, None
  <1> SUFFICES ASSUME s.clean PROVE FateOK(t, st, got2)
    BY <1>1 DEF FateOK
  <1>4. CASE Sending(s, got)
    <2>1. Sending(t, got2)
      BY <1>1, <1>2, <1>4 DEF Sending
    <2> QED  BY <1>1, <1>3, <2>1 DEF FateOK, OwnOrAux
  <1>5. CASE Aux(s.phy)
    <2>1. got2 = got /\ (s.apart => t.apart)
      BY <1>5
    <2>2. Undelivered(s, got) => Undelivered(t, got2)
      BY <1>1, <1>2, <2>1 DEF Undelivered
    <2>3. Handed(s, st, got) => Handed(t, st, got2)
      BY <1>1, <1>2, <2>2 DEF Handed
    <2>4. Waits(s, got) => Waits(t, got2)
      BY <1>1, <1>2, <2>2 DEF Waits
    <2>5. Done(s, st, got) => Done(t, st, got2)
      BY <1>1, <1>2, <2>1 DEF Done
    <2>6. Spent(s, st, got) => Spent(t, st, got2)
      BY <1>1, <1>2, <1>3, <2>1, <2>2 DEF Spent
    <2> QED  BY <1>1, <1>3, <1>4, <2>3, <2>4, <2>5, <2>6 DEF FateOK, OwnOrAux
  <1>6. Handed(s, st, got) \/ Waits(s, got) \/ Done(s, st, got) \/ Spent(s, st, got)
          => Aux(s.phy)
    BY <1>3 DEF Handed, Waits, Done, Spent
  <1> QED  BY <1>4, <1>5, <1>6 DEF FateOK

\* What the partner has of it.
LEMMA DeliveredGot ==
  ASSUME PartnerOK, NEW msg, Aux(msg)
  PROVE  Delivered(msg).got = partner.got
  BY DeliveredTo DEF Aux

\* An acknowledged message was a new one for the partner while the ids are in step.
LEMMA DeliveredNew ==
  ASSUME IInv, Ids, Numbers, ~prl.apart, prl.tx = "WAIT_PHY", prl.phy # None,
         prl.phy.kind = "data", prl.phy.n = prl.sends
  PROVE  Delivered(prl.phy).got = prl.sends
  <1> DEFINE s == prl
             seen == partner.seen
             N == PD_MESSAGE_ID_COUNT
  <1>1. PartnerOK /\ Good(s)
    BY DEF IInv, QueueOK
  <1>2. s.unheard < N /\ s.phy.id = s.id
    BY DEF Ids, IdsOK, InStep, Transmitting
  <1>3. Near(seen, s)
    BY <1>2 DEF Ids, IdsOK, InStep, SeenOK
  <1>4. s.id \in 0 .. N /\ s.unheard \in 0 .. N /\ N \in Nat /\ seen \in -1 .. N
    BY <1>1, PrlAssumption DEF Good, Layer, Ids, IdsOK
  <1> HIDE DEF s, seen
  <1>5. seen # s.id
    <2>1. CASE seen = -1
      BY <1>4, <2>1
    <2>2. CASE seen # -1
      <3>1. PICK j \in 0 .. s.unheard : seen + 1 + j \in {s.id, s.id + N + 1}
        BY <1>3, <2>2 DEF Near
      <3> QED  BY <1>2, <1>4, <3>1
    <2> QED  BY <2>1, <2>2
  <1>6. Delivered(prl.phy).got = IF prl.phy.n > 0 THEN prl.phy.n ELSE partner.got
    BY <1>1, <1>2, <1>5, DeliveredTo DEF s, seen
  <1>7. s.sends \in Nat /\ partner.got \in Nat /\ partner.got <= s.sends
    BY <1>1, PrlAssumption DEF Good, Layer, Numbers, NumbersOK, s
  <1> QED  BY <1>6, <1>7 DEF s

\* The PHY has a result.
LEMMA CompleteFate ==
  ASSUME IInv, Ids, Numbers, Fate, NEW status \in {"SUCCESS", "FAILED"},
         pd_transmit_complete(status)
  PROVE  Fate' /\ Numbers'
  <1> DEFINE a == OutOfStep(status)
             t == prl'
  <1>1. /\ prl' = [prl EXCEPT !.phy = None, !.xmit_status = status, !.apart = a]
        /\ stage' = stage /\ prl.phy # None
        /\ \/ partner' = Delivered(prl.phy)
           \/ status = "FAILED" /\ partner' = partner
    BY DEF pd_transmit_complete
  <1>2. PartnerOK /\ DOMAIN prl = Fields
    BY DEF IInv, QueueOK, Good, Layer
  <1>3. ~a /\ prl.phy.kind \notin {"hard", "soft"} => ~prl.apart
    BY DEF OutOfStep
  <1> HIDE DEF a
  <1>4. /\ t.phy = None /\ t.xmit_status = status /\ t.apart = a
        /\ Agree(prl, t, FateFields)
    BY <1>1, <1>2 DEF Agree, Fields, FateFields
  <1>5. Aux(prl.phy) => partner'.got = partner.got /\ (prl.apart => t.apart)
    BY <1>1, <1>2, <1>3, <1>4, DeliveredGot DEF Aux
  <1>6. ASSUME prl.clean, Sending(prl, partner.got), t.xmit_status = "SUCCESS", ~t.apart
        PROVE  partner'.got = prl.sends
    <2>1. prl.tx = "WAIT_PHY" /\ Own(prl.phy) /\ prl.phy.n = prl.sends
      BY <1>1, <1>6 DEF Sending, Fate, FateOK, OwnOrAux, Aux, Own
    <2>2. partner' = Delivered(prl.phy)
      BY <1>1, <1>4, <1>6
    <2>3. CASE prl.phy.kind = "soft"
      BY <1>2, <2>1, <2>2, <2>3, DeliveredTo
    <2>4. CASE prl.phy.kind = "data"
      <3>1. ~prl.apart
        BY <1>3, <1>4, <1>6, <2>4
      <3> QED  BY <1>1, <2>1, <2>2, <2>4, <3>1, DeliveredNew
    <2> QED  BY <2>1, <2>3, <2>4 DEF Own
  <1> HIDE DEF t
  <1>7. FateOK(t, stage, partner'.got)
    BY <1>4, <1>5, <1>6, SilentFate DEF Fate
  <1>8. partner'.got \in {partner.got, prl.phy.n}
    BY <1>1, <1>2, DeliveredTo
  <1>9. Agree(prl, prl', {"out", "sends"}) /\ prl'.phy \in {prl.phy, None}
    BY <1>4 DEF Agree, FateFields, t
  <1>10. Numbers'
    BY <1>8, <1>9, PhyNumbers
  <1> QED  BY <1>1, <1>7, <1>10 DEF Fate, t

\* A timer expires: without a result the partner may have the message or not.
LEMMA ExpireFate ==
  ASSUME IInv, Numbers, Fate, NEW timer \in Timers, Expire(timer)
  PROVE  Fate' /\ Numbers'
  <1> DEFINE p == IF timer = "tx" THEN None ELSE prl.phy
             a == prl.apart \/ (timer = "tx" /\ CrossesReset)
             x == prl.expired \cup {timer}
             t == prl'
  <1>1. /\ prl' = [prl EXCEPT !.expired = x, !.phy = p, !.apart = a]
        /\ stage' = stage
        /\ \/ partner' = partner
           \/ timer = "tx" /\ prl.phy # None /\ partner' = Delivered(prl.phy)
    BY DEF Expire
  <1>2. PartnerOK /\ DOMAIN prl = Fields
    BY DEF IInv, QueueOK, Good, Layer
  <1>3. prl.apart => a
    OBVIOUS
  <1> HIDE DEF p, a, x
  <1>4. /\ t.phy = p /\ t.xmit_status = prl.xmit_status /\ t.apart = a
        /\ t.expired = x /\ Agree(prl, t, FateFields)
    BY <1>1, <1>2 DEF Agree, Fields, FateFields
  <1>5. CASE timer = "tx"
    <2>1. p = None
      BY <1>5 DEF p
    <2>2. Aux(prl.phy) => partner'.got = partner.got /\ (prl.apart => t.apart)
      BY <1>1, <1>2, <1>3, <1>4, DeliveredGot
    <2>3. ASSUME Sending(prl, partner.got), t.xmit_status = "SUCCESS", ~t.apart
          PROVE  partner'.got = prl.sends
      <3>1. prl.phy = None /\ ~prl.apart /\ prl.xmit_status = "SUCCESS"
        BY <1>3, <1>4, <2>3 DEF Sending
      <3>2. partner' = partner
        BY <1>1, <3>1
      <3> QED  BY <2>3, <3>1, <3>2 DEF Sending
    <2> HIDE DEF t
    <2>4. FateOK(t, stage, partner'.got)
      BY <1>4, <2>1, <2>2, <2>3, SilentFate DEF Fate
    <2>5. partner'.got \in {partner.got, prl.phy.n}
      BY <1>1, <1>2, DeliveredTo
    <2>6. Agree(prl, prl', {"out", "sends"}) /\ prl'.phy \in {prl.phy, None}
      BY <1>4, <2>1 DEF Agree, FateFields, t
    <2>7. Numbers'
      BY <2>5, <2>6, PhyNumbers
    <2> QED  BY <1>1, <2>4, <2>7 DEF Fate, t
  <1>6. CASE timer # "tx"
    <2>1. p = prl.phy /\ partner' = partner
      BY <1>1, <1>6 DEF p
    <2>2. "tx" \in t.expired => "tx" \in prl.expired
      BY <1>4, <1>6 DEF x
    <2>3. Agree(prl, t, FateFields \cup {"phy", "xmit_status"})
      BY <1>4, <2>1 DEF Agree
    <2>4. prl.apart => t.apart
      BY <1>3, <1>4
    <2> HIDE DEF t
    <2>5. FateOK(t, stage, partner.got)
      BY <2>2, <2>3, <2>4, FateFrame DEF Fate
    <2>6. Agree(prl, prl', {"out", "sends"}) /\ prl'.phy \in {prl.phy, None}
      BY <2>3 DEF Agree, FateFields, t
    <2>7. Numbers'
      BY <2>1, <2>6, PhyNumbers
    <2> QED  BY <1>1, <2>1, <2>5, <2>7 DEF Fate, t
  <1> QED  BY <1>5, <1>6

\* A transmission ends without the partner's having received it.
LEMMA ArriveFate ==
  ASSUME IInv, Numbers, Fate, stage' = stage, partner'.got = partner.got,
         \/ prl' = prl
         \/ prl' = [prl EXCEPT !.phy = None, !.xmit_status = "FAILED"]
         \/ prl' = [prl EXCEPT !.phy = None]
  PROVE  Fate' /\ Numbers'
  <1>1. DOMAIN prl = Fields
    BY DEF IInv, Good, Layer
  <1>2. CASE prl' = prl
    BY <1>2 DEF Fate, Numbers
  <1>3. CASE \/ prl' = [prl EXCEPT !.phy = None, !.xmit_status = "FAILED"]
             \/ prl' = [prl EXCEPT !.phy = None]
    <2> DEFINE t == prl'
    <2>1. /\ t.phy = None /\ t.xmit_status \in {"FAILED", prl.xmit_status}
          /\ t.apart = prl.apart /\ Agree(prl, t, FateFields)
      <3>1. CASE prl' = [prl EXCEPT !.phy = None, !.xmit_status = "FAILED"]
        BY <1>1, <3>1 DEF Agree, Fields, FateFields
      <3>2. CASE prl' = [prl EXCEPT !.phy = None]
        BY <1>1, <3>2 DEF Agree, Fields, FateFields
      <3> QED  BY <1>3, <3>1, <3>2
    <2> HIDE DEF t
    <2>2. Sending(prl, partner.got) /\ t.xmit_status = "SUCCESS" /\ ~t.apart =>
            partner.got = prl.sends
      BY <2>1 DEF Sending
    <2>3. FateOK(t, stage, partner.got)
      BY <2>1, <2>2, SilentFate DEF Fate
    <2>4. Agree(prl, prl', {"out", "sends"}) /\ prl'.phy \in {prl.phy, None}
      BY <2>1 DEF Agree, FateFields, t
    <2>5. Numbers'
      BY <2>4, PhyNumbers
    <2> QED  BY <2>3, <2>5 DEF Fate, t
  <1> QED  BY <1>2, <1>3

-----------------------------------------------------------------------------
\* The inductive invariant.
SendInv == IInv /\ Ids /\ RetryOK /\ Numbers /\ Fate

\* Every step of the task.
LEMMA TaskFate == ASSUME SendInv, pd_task PROVE Fate' /\ Numbers'
  <1>1. ASSUME tc_event_check PROVE Numbers'
    <2>1. Good(prl) /\ partner' = partner
      BY <1>1 DEF tc_event_check, SendInv, IInv
    <2>2. prl' = prl \/ prl' = execute_hard_reset(prl, "PARTNER")
      BY <1>1 DEF tc_event_check, Execute
    <2>3. NumbersKept(prl, prl)
      BY DEF NumbersKept
    <2>4. NumbersKept(prl, prl')
      BY <2>1, <2>2, <2>3, ExecuteNumbers
    <2> QED  BY <2>1, <2>4, NumbersFrame DEF Numbers, SendInv
  <1>2. ASSUME prl_run PROVE Numbers'
    <2>1. Good(prl) /\ ResetsOK(prl) /\ partner' = partner
      BY <1>2 DEF prl_run, env, SendInv, IInv, HrOK
    <2>2. prl' \in {rch_run(prl), tch_run(prl), prl_tx_run(prl), prl_hr_run(prl)}
      BY <1>2 DEF prl_run
    <2>3. NumbersKept(prl, prl')
      BY <2>1, <2>2, MachineNumbers
    <2> QED  BY <2>1, <2>3, NumbersFrame DEF Numbers, SendInv
  <1>3. CASE tc_event_check
    BY <1>1, <1>3, CheckFate DEF SendInv
  <1>4. CASE PE
    BY <1>4, PeFate, PeNumbers DEF SendInv
  <1>5. CASE prl_rx_wait_for_phy_message
    BY <1>5, RxFate, RxNumbers DEF SendInv
  <1>6. CASE prl_run
    BY <1>2, <1>6, MachineFate DEF SendInv
  <1>7. CASE \E anew \in BOOLEAN : prl_run_init(anew)
    BY <1>7, StartFate, StartNumbers DEF SendInv
  <1> QED  BY <1>3, <1>4, <1>5, <1>6, <1>7 DEF pd_task

\* Every step of the task, of the timers, of the PHY and of the partner.
LEMMA SendStepInv == SendInv /\ [Next]_vars => SendInv'
  <1> SUFFICES ASSUME SendInv, [Next]_vars PROVE SendInv'
    OBVIOUS
  <1>1. IInv'
    BY InvStep DEF SendInv
  <1>2. Ids'
    BY <1>1, IdsStep DEF SendInv
  <1>3. PartnerOK
    BY DEF SendInv, IInv, QueueOK
  <1>5. RetryOK'
    BY RetriedSeen DEF SendInv
  <1>4. Fate' /\ Numbers'
    <2>1. CASE pd_task
      BY <2>1, TaskFate
    <2>2. ASSUME NEW timer \in Timers, Expire(timer) PROVE Fate' /\ Numbers'
      BY <2>2, ExpireFate DEF SendInv
    <2>3. ASSUME NEW status \in {"SUCCESS", "FAILED"}, pd_transmit_complete(status)
          PROVE  Fate' /\ Numbers'
      BY <2>3, CompleteFate DEF SendInv
    <2>4. ASSUME NEW kind \in PartnerKinds, NEW num \in 0 .. CHUNKS - 1,
                 PartnerSend(kind, num)
          PROVE  Fate' /\ Numbers'
      <3> DEFINE e == IF kind = "soft" THEN -1 ELSE partner.seen
                 i == ((IF kind = "soft" THEN 0 ELSE partner.id) + 1)
                        % (PD_MESSAGE_ID_COUNT + 1)
                 n == partner.sends + 1
                 m == [kind |-> kind, n |-> partner.sends + 1, num |-> num,
                       id |-> IF kind = "soft" THEN 0 ELSE partner.id]
      <3>1. partner' = [partner EXCEPT !.id = i, !.sends = n, !.seen = e, !.last = m]
        BY <2>4 DEF PartnerSend
      <3>2. stage' = stage /\ (\/ prl' = prl
              \/ prl' = [prl EXCEPT !.phy = None, !.xmit_status = "FAILED"])
        BY <2>4 DEF PartnerSend, Arrive
      <3> HIDE DEF e, i, n, m
      <3>3. partner'.got = partner.got
        BY <1>3, <3>1 DEF PartnerOK, Partner
      <3> QED  BY <3>2, <3>3, ArriveFate DEF SendInv
    <2>5. CASE PartnerRetry
      <3>1. partner' = [partner EXCEPT !.sends = partner.sends + 1]
        BY <2>5 DEF PartnerRetry
      <3>2. partner'.got = partner.got
        BY <1>3, <3>1 DEF PartnerOK, Partner
      <3>3. stage' = stage /\ (\/ prl' = prl
              \/ prl' = [prl EXCEPT !.phy = None, !.xmit_status = "FAILED"])
        BY <2>5 DEF PartnerRetry, Arrive
      <3> QED  BY <3>2, <3>3, ArriveFate DEF SendInv
    <2>6. CASE PartnerHardReset
      <3>1. partner' = [partner EXCEPT !.id = 0, !.seen = -1, !.last = None]
        BY <2>6 DEF PartnerHardReset
      <3>2. partner'.got = partner.got
        BY <1>3, <3>1 DEF PartnerOK, Partner
      <3>3. stage' = stage /\ prl' = [prl EXCEPT !.phy = None]
        BY <2>6 DEF PartnerHardReset
      <3> QED  BY <3>2, <3>3, ArriveFate DEF SendInv
    <2>7. CASE UNCHANGED vars
      BY <2>7 DEF vars, SendInv, Fate, Numbers
    <2> QED  BY <2>1, <2>2, <2>3, <2>4, <2>5, <2>6, <2>7 DEF Next
  <1> QED  BY <1>1, <1>2, <1>4, <1>5 DEF SendInv

\* Nothing was handed over at first.
LEMMA SendInvInit == Init => SendInv
  <1> SUFFICES ASSUME Init PROVE SendInv
    OBVIOUS
  <1>1. IInv /\ Ids /\ RetryOK
    BY InvInit, InitIds DEF Init, RetryOK, None
  <1>2. prl = prl_init /\ partner.got = 0 /\ stage = "tc"
    BY DEF Init
  <1>3. /\ prl.hr = "WAIT" /\ prl.out = None /\ prl.phy = None /\ prl.tch = "WAIT"
        /\ ~prl.tch_xmit /\ prl.tx = "WAIT" /\ ~prl.tx_xmit /\ prl.owed = None
        /\ prl.answers = <<>> /\ prl.sends = 0
    BY <1>2 DEF prl_init
  <1>4. Aux(None) /\ None.n = 0
    BY DEF Aux, None
  <1>5. Spent(prl, stage, partner.got)
    BY <1>2, <1>3, <1>4, AnswersDiffer DEF Spent
  <1>6. Fate
    BY <1>3, <1>4, <1>5 DEF Fate, FateOK, OwnOrAux
  <1>7. Numbers
    BY <1>2, <1>3, <1>4 DEF Numbers, NumbersOK
  <1> QED  BY <1>1, <1>6, <1>7 DEF SendInv

\* What the invariant says of an answer.
LEMMA Answers ==
  ASSUME SendInv
  PROVE  DiscardedNotSent /\ SentIsReceived
  <1> SUFFICES ASSUME prl.clean, prl.answers \in {<<"discard">>, <<"sent">>}
               PROVE  DiscardedNotSent /\ SentIsReceived
    BY DEF DiscardedNotSent, SentIsReceived
  <1>1. prl.answers # <<>>
    BY AnswersDiffer
  <1>2. Spent(prl, stage, partner.got)
    BY <1>1 DEF SendInv, Fate, FateOK, Handed, Waits, Sending, Done, Undelivered, Unheard
  <1> QED  BY <1>2 DEF Spent, DiscardedNotSent, SentIsReceived

\* So it is true in every state.
LEMMA SendInvariance == Spec => []SendInv
  <1> QED  BY SendInvInit, SendStepInv, PTL DEF Spec

\* A message of which pe_report_discard() has told the policy engine is not sent any
\* more (prl_tx_discard_message(), tch_message_received()), whatever came between.
THEOREM DiscardedStaysUnsent == Spec => []DiscardedNotSent
  <1>1. SendInv => DiscardedNotSent
    BY Answers
  <1> QED  BY <1>1, SendInvariance, PTL

\* Of what pe_message_sent() tells the policy engine the partner has received, as a
\* new message, while the ids of the two sides are in step: not from a reset of
\* ours, prl_reset_soft() included, until it reaches the partner (see apart).
THEOREM SentWasReceived == Spec => []SentIsReceived
  <1>1. SendInv => SentIsReceived
    BY Answers
  <1> QED  BY <1>1, SendInvariance, PTL
=============================================================================
