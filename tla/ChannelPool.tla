---------------------------- MODULE ChannelPool ----------------------------
(***************************************************************************)
(* What the connection table promises its users: each of a fixed set of    *)
(* channels serves no socket or one, a socket is served by at most one     *)
(* channel, and a channel changes hands only through the free state.       *)
(* HsConn implements it with channel->sock as the holder.                  *)
(***************************************************************************)
CONSTANTS Channels, Socks, None

VARIABLE holder

Init == holder = [c \in Channels |-> None]

\* A free channel starts to serve a socket that no channel serves.
Lease(c, s) ==
  /\ holder[c] = None
  /\ \A d \in Channels : holder[d] # s
  /\ holder' = [holder EXCEPT ![c] = s]

Release(c) ==
  /\ holder[c] # None
  /\ holder' = [holder EXCEPT ![c] = None]

Next == \E c \in Channels : Release(c) \/ \E s \in Socks : Lease(c, s)

Spec == Init /\ [][Next]_holder
=============================================================================
