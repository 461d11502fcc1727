--------------------------- MODULE MCSettlement ---------------------------
EXTENDS Settlement, TLC
CONSTANTS k, p, q, r

\* What a getter makes of the last value it got.
Same == 0 :> 0 @@ 1 :> 1
Flipped == 0 :> 1 @@ 1 :> 0
Zero == 0 :> 0 @@ 1 :> 0
Failing == 0 :> 0 @@ 1 :> Error

\* A getter of at most two reads, the second by what the first gave.
Getter(first, on0, on1, gives) ==
  [next |-> [d \in Decisions |->
      IF d = <<>> THEN first ELSE IF d = <<0>> THEN on0 ELSE IF d = <<1>> THEN on1 ELSE None],
   gives |-> gives]

\* Getters that read the atom first, and on 1 perhaps another selector.
Switch(s, gives, on0) ==
  {Getter(k, n, m, gives) : n \in on0, m \in (Selectors \cup {None}) \ {s}}

\* All ways in which three such getters can come to read one another.
Switches ==
  {p :> a @@ q :> b @@ r :> c : a \in Switch(p, Same, {None}),
                                b \in Switch(q, Flipped, {None, p, r}),
                                c \in Switch(r, Zero, {None, p, q})}

\* A latch that loses its route to another member's failure and finds another.
Rerouting == p :> Getter(k, None, r, Same) @@ q :> Getter(p, r, k, Same) @@ r :> Getter(q, p, r, Failing)

\* A latch on the very first read, which only the other member's switch reopens.
Closing == p :> Getter(k, q, None, Same) @@ q :> Getter(p, None, None, Flipped) @@ r :> Getter(q, p, None, Same)

\* A diamond whose one side is read on 1 only.
Diamond == p :> Getter(k, None, None, Flipped) @@ q :> Getter(p, None, None, Same) @@ r :> Getter(k, None, q, Flipped)

\* A node read twice, and failures handed on and recovered from.
Recovering == p :> Getter(k, None, None, Failing) @@ q :> Getter(p, p, k, Flipped) @@ r :> Getter(k, None, q, Same)

ThreePrograms == Switches \cup {Rerouting, Closing, Diamond, Recovering}
=============================================================================
