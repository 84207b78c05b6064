------------------------- MODULE MCDomainReputation -------------------------
(***************************************************************************)
(* DomainReputation for TLC.                                               *)
(***************************************************************************)
EXTENDS DomainReputation

CONSTANTS edge, bob, stranger, unlisted, malware, nothing, failed

\* The worst a domain can look without being listed, and a domain that is listed.
Unlisted == [dbl |-> "none", zrd |-> FALSE, malicious |-> 0, suspicious |-> 1, young |-> "week",
             mx |-> FALSE, spf |-> FALSE, dmarc |-> FALSE, ip |-> "clean"]
Malware  == [dbl |-> "threat", zrd |-> TRUE, malicious |-> 5, suspicious |-> 0, young |-> "no",
             mx |-> TRUE, spf |-> TRUE, dmarc |-> TRUE, ip |-> "zen"]

MCSignals == [e \in {unlisted, malware} |-> IF e = unlisted THEN Unlisted ELSE Malware]

\* A message received at two hops and one that was sent.
MCTrackingRow ==
  {[way |-> "Incoming", hop |-> h, msg |-> 1, to |-> {bob}] : h \in 1..2}
    \cup {[way |-> "Originating", hop |-> 1, msg |-> 2, to |-> {stranger}]}
=============================================================================
