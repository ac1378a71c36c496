------------------------------ MODULE MCSelect ------------------------------
EXTENDS Select, TLC

CONSTANTS g1, g2, g3

\* Channel 1 is synchronous, channel 2 has a buffer of two.
Caps == 1 :> 0 @@ 2 :> 2

Plain(dir, c, block) == [sel |-> FALSE, block |-> block, cases |-> <<[dir |-> dir, c |-> c]>>]
Two(d1, c1, d2, c2, block) ==
  [sel |-> TRUE, block |-> block,
   cases |-> <<[dir |-> d1, c |-> c1], [dir |-> d2, c |-> c2]>>]

\* One goroutine selects in the order of the addresses, one against it or uses
\* single operations, and one sends, receives and closes without blocking too.
Calls ==
  g1 :> ({Two(d1, 1, d2, 2, TRUE) : d1 \in Dirs, d2 \in Dirs}
         \cup {Two("send", 1, "recv", 1, TRUE)})
  @@ g2 :> ({Two(d, 2, d, 1, b) : d \in Dirs, b \in BOOLEAN}
            \cup {Plain(d, 1, TRUE) : d \in Dirs \cup {"close"}})
  @@ g3 :> ({Plain(d, c, b) : d \in Dirs, c \in Chans, b \in BOOLEAN}
            \cup {Plain("close", c, TRUE) : c \in Chans})
=============================================================================
