-------------------------- MODULE MCParameterFile --------------------------
EXTENDS ParameterFile

Text(t) == [text |-> t, groups |-> <<>>]
Obs(groups) == [text |-> "obs", groups |-> groups]
LineOf(cells) == [cells |-> cells, long |-> FALSE]
LongLine(cells) == [cells |-> cells, long |-> TRUE]

Inst == <<"inst", Age(0, "m"), Age(0, "")>>

First == LineOf(<<Text("parameters")>>)
Empty == LineOf(<<Text("")>>)
Tabs  == LineOf(<<Text(""), Text("")>>)

(* Two orders of the columns, the second without the unit. *)
WideHeader   == <<Text("#code"), Text("#unit"), Text("#roadobs")>>
NarrowHeader == <<Text("#roadobs"), Text("#code")>>

WideLines ==
  {LineOf(<<Text("TA"), Text("C"), Obs(<<4, <<6, 2>>, Inst>>)>>),
   LineOf(<<Text("RH"), Text("%"), Obs(<<7, <<6>>>>)>>),
   LineOf(<<Text("XX"), Text("C"), Obs(<<9>>)>>),
   LineOf(<<Text("YY"), Text("m")>>),
   LongLine(<<Text("LL"), Text("m"), Obs(<<8, <<6, 0, 0>>, Inst>>)>>), Tabs}

NarrowLines ==
  {LineOf(<<Obs(<<12, <<6, 0, 10>>, Inst>>), Text("RR"), Text("surplus")>>),
   LineOf(<<Obs(<<4, <<6, 0, 10, 20>>, Inst>>), Text("ZZ")>>), Empty}

MCContents ==
  {<<Empty>>, <<First, Empty>>, <<First, LongLine(WideHeader), Empty>>}
    \cup {<<First, LineOf(WideHeader), l1, l2>> : l1, l2 \in WideLines}
    \cup {<<First, LineOf(NarrowHeader), l1, l2>> : l1, l2 \in NarrowLines}
=============================================================================
