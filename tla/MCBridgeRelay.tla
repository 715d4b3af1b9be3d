--------------------------- MODULE MCBridgeRelay ---------------------------
(* Instances of BridgeRelay for TLC: one or two DevKits, vehicle ids 1, 2. *)
EXTENDS BridgeRelay

OwnNames == {{1}}             \* a stock DevKit names only the fields of id 1
BothNames == {{1, 2}}   \* tests/mock_devkit.py also names the fields of id 2

WholeAudience == {DevKit}     \* every frame has data of every vehicle
AnyAudience == SUBSET DevKit   \* a frame may lack some vehicles' data
=============================================================================
