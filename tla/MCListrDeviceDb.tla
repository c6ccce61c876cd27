--------------------------- MODULE MCListrDeviceDb ---------------------------
(* ListrDeviceDb needs no definitions of its own: the .cfg files choose the *)
(* bounds, and how the handlers may overlap.                               *)
EXTENDS ListrDeviceDb
=============================================================================
