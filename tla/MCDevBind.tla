------------------------------ MODULE MCDevBind ------------------------------
(* Values for the runs of DevBind: two ports of one network card, and an FPGA *)
(* that two groups list.                                                      *)
EXTENDS DevBind

Card == [class |-> "02", vendor |-> "8086", device |-> "10fb"]
Fpga == [class |-> "12", vendor |-> "8086", device |-> "0b30"]

MCIdent == [d \in Devs |-> IF d = "03:00.0" THEN Fpga ELSE Card]
MCNamed == [n \in Names |-> CASE n \in Devs -> n
                              [] n = "eth0" -> "02:00.0"
                              [] OTHER -> None]
MCSupports == [d \in Devs |-> {"ixgbe"}]

Opt(name, arg) == [name |-> name, arg |-> arg]
Cmd(options, names) == [options |-> options, names |-> names]
Bind(driver) == Opt("bind", driver)
Force == Opt("force", TRUE)
Status(g) == Opt("status", g)

a == "02:00.0"
b == "02:00.1"
f == "03:00.0"
Lines ==
  {Cmd(<<Bind("igb_uio")>>, <<"eth0", b>>),
   Cmd(<<Bind("igb_uio")>>, <<b>>), Cmd(<<Bind("igb_uio")>>, <<b, b>>),
   Cmd(<<Bind("igb_uio"), Force>>, <<a, "typo">>),
   Cmd(<<Bind("ixgbe"), Status("all")>>, <<a>>), Cmd(<<Bind("igb_uio")>>, <<a, "eth0">>),
   Cmd(<<Bind("igb_uio"), Status("baseband")>>, <<f>>),
   Cmd(<<Bind("none")>>, <<"dpdk">>), Cmd(<<Bind("none")>>, <<a, b>>)}
OddLines ==
  {Cmd(<<>>, <<>>), Cmd(<<Opt("help", "")>>, <<>>), Cmd(<<>>, <<a>>),
   Cmd(<<Bind("none"), Bind("ixgbe")>>, <<a>>), Cmd(<<Bind(a)>>, <<b>>),
   Cmd(<<Status("net")>>, <<>>)}
AllLines == Lines \cup OddLines

Sys(x, y, r) == [drv |-> [d \in Devs |-> CASE d = a -> x [] d = b -> y [] OTHER -> "ixgbe"],
                 modules |-> {"ixgbe", "igb_uio"}, routed |-> r]
MCSystems == {Sys("ixgbe", None, {}), Sys("ixgbe", "igb_uio", {a}), Sys(None, "ixgbe", {b, f})}
=============================================================================
