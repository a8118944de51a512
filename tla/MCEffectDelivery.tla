--------------------------- MODULE MCEffectDelivery -------------------------
(* An e-mail and a score, or the e-mail alone; an Officer retries with an      *)
(* acknowledgement and waives.                                                 *)
EXTENDS EffectDelivery, Naturals

MCRepairOf == [r \in Repairs |->
    [kind |-> r[1], effect |-> r[2], ack |-> r[1] = "retry"]]
MailRetry == {<<"retry", "mail">>}
AllRepairs == MailRetry \cup {<<"waive", "mail">>, <<"waive", "score">>}

\* An action constraint: the effects meet only in Close, so one at a time will do,
\* and Officers repair one after the other.
OneAtATime ==
    /\ \A e, f \in Effects : eff'[e] # Unqueued /\ eff'[f] # Unqueued => e = f
    /\ Cardinality({r \in Repairs : repair'[r].pc \in {"called", "resolve"}}) <= 1
=============================================================================
