-------------------------- MODULE MCParameterLink --------------------------
(***************************************************************************)
(* Small instances of ParameterLink: one or two devices of one to three    *)
(* parameters, each entry in one frame or in two or three chunks.  Which   *)
(* of the shapes a run uses, how many frames are lost or late and which    *)
(* calls the host makes is said in the .cfg of the run.                    *)
(***************************************************************************)
EXTENDS ParameterLink

CONSTANTS d1, d2

MCParamId == 0..MaxParamId
MCFragment == [dev : Addr, param : ParamId, index : 0..2]
MCContent == [dev : Addr, param : ParamId] \cup {Garbage}

(* Shapes: the number of chunks of each parameter, from number 0 on.       *)
PlainTwo        == d1 :> <<1, 1>> @@ d2 :> <<1>>
ChunkedAndPlain == d1 :> <<1, 2, 3>> @@ d2 :> <<1, 1>>
ChunkedBoth     == d1 :> <<2>> @@ d2 :> <<2>>
ChunkedOne      == d1 :> <<2>> @@ d2 :> << >>
=============================================================================
