---------------------------- MODULE MCClientConn ----------------------------
EXTENDS ClientConn

CONSTANTS ssh, web

\* One proxy over two attempts, and two proxies over one
Settings ==
    { [proxies |-> {ssh}, tls |-> TRUE, attempts |-> 2, rounds |-> 2],
      [proxies |-> {ssh, web}, tls |-> FALSE, attempts |-> 1, rounds |-> 1] }

=============================================================================
