---------------------------- MODULE MCServerLife ----------------------------
EXTENDS ServerLife

\* Each setting of the two TLS switches, and each of the other loops
Settings ==
    { [tls |-> TRUE, work |-> TRUE, other |-> "http"],
      [tls |-> TRUE, work |-> FALSE, other |-> "sweep"],
      [tls |-> FALSE, work |-> TRUE, other |-> "dashboard"],
      [tls |-> FALSE, work |-> FALSE, other |-> "https"] }

=============================================================================
