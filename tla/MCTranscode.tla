---------------------------- MODULE MCTranscode ----------------------------
(* Values of the constants of Transcode.                                   *)
EXTENDS Transcode

CONSTANTS q1, q2

MCTables == {q1, q2}
MCTableSegments == {<<0, q1>>, <<0, q2>>, <<1, q1>>, <<2, q1>>}

Components(ids, tables) == [c \in DOMAIN ids |-> [component_id |-> ids[c], quant_tbl_no |-> tables[c]]]

MCFrames == {
    Components(<<1>>, <<0>>),
    Components(<<1, 2, 3>>, <<0, 1, 1>>),
    Components(<<82, 71, 66>>, <<0, 0, 1>>),
    Components(<<1, 2>>, <<0, 2>>),
    Components(<<67, 77, 89, 75>>, <<0, 0, 0, 0>>),
    Components(<<1, 2, 3, 1>>, <<0, 0, 0, 0>>),
    Components(<<1, 2, 3, 4, 5>>, <<0, 0, 0, 0, 0>>)}

MCScanIds == {<<1>>, <<2, 1>>, <<1, 2, 3>>, <<71>>, <<82, 71, 66>>,
              <<67, 77, 89, 75>>, <<1, 2, 3, 1>>, <<5>>}

(* A scan of a sequential file, and one of a progressive file.             *)
MCProgressions == {[Ss |-> 0, Se |-> 63, Ah |-> 0, Al |-> 0], [Ss |-> 0, Se |-> 0, Ah |-> 0, Al |-> 1]}

(* One position of each band the script knows.                             *)
MCCoefficients == {0, 1, 6}

Segment(marker, id, whole, value) == [marker |-> marker, id |-> id, whole |-> whole, value |-> value]

MCSaved == {
    Segment("APP0", "JFIF", TRUE, 1), Segment("APP0", "JFIF", TRUE, 2),
    Segment("APP0", "JFIF", FALSE, 1),
    Segment("APP14", "Adobe", TRUE, 0), Segment("APP14", "Adobe", TRUE, 2),
    Segment("APP1", "Exif", TRUE, 0)}

(* A CMYK picture whose K component has id 1 instead of 4.                 *)
MCTwinFrames == {Components(<<1, 2, 3, 1>>, <<0, 0, 0, 0>>)}
MCTwinScanIds == {<<1, 2, 3, 1>>}
MCNone == {}
=============================================================================
