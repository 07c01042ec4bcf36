-------------------------- MODULE MCMultiReceiver --------------------------
(* A small run of MultiReceiver: two receivers with one station each.        *)
EXTENDS MultiReceiver

TwoSlots == {1, 2}
OneEach == <<1, 1>>

=============================================================================
