----------------------------- MODULE MCIndexRead -----------------------------
(* One chain pinned at a block the caller named and one live, on a lane of   *)
(* one slot.  Histories hold no row, rows on both sides of a pin and of a    *)
(* page boundary, one row too many, and no checkpoint by the pin.            *)
EXTENDS IndexRead

CONSTANTS old, live, supply, borrow, market

At(f) == [c \in Chains |-> IF c = old THEN f[1] ELSE f[2]]

MCPin == At(<<3, 3>>)
MCStart == At(<<1, 0>>)
MCCaught == At(<<3, 1>>)
MCBegun == At(<<2, 1>>)

History(opened, checkpoints) == [opened |-> opened, checkpoints |-> checkpoints]

Late(at) == [r \in {<<supply, 1>>} |-> at]
Rows(n) == [r \in {<<supply, i>> : i \in 1..n} \cup {<<borrow, 1>>, <<market, 1>>} |->
               IF r = <<borrow, 1>> THEN 3 ELSE IF r[1] = market THEN 1 ELSE r[2]]

MCHistories ==
    {At(<< <<History(Late(4), {2}), History(Rows(3), {1})>>,
           <<History(Late(2), {1, 3}), History(Rows(4), {0})>> >>),
     At(<< <<History(Rows(4), {}), History(Late(4), {0})>>,
           <<History(Rows(3), {0, 2}), History(Late(4), {1})>> >>)}
=============================================================================
