-------------------------- MODULE MCCompressMaster --------------------------
(***************************************************************************)
(* Every kind of image libjpeg writes, and the positions within a block    *)
(* where a band of some scan begins or ends.                               *)
(***************************************************************************)
EXTENDS CompressMaster

MCImages ==
    {[num_components |-> 3, space |-> "YCbCr"], [num_components |-> 4, space |-> "YCCK"]}
    \cup [num_components : 1 .. MAX_COMPONENTS, space : {"other"}]

MCCoefficients == {0, 1, 5, 6, 63}
=============================================================================
