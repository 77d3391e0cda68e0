------------------------------ MODULE MCFrames ------------------------------
(* Instances of ParallelMap for TLC. *)
EXTENDS ParallelMap

(* The schemas of the applications' frames: Demo, WordCount, Linus' sets,  *)
(* users and commits; booleans, and a pair with a boolean first.           *)
SomeSchemas == {<<CharF>>, <<CharS>>, <<CharI>>, <<CharB>>, <<CharB, CharS>>,
                <<CharI, CharS>>, <<CharI, CharI, CharI>>}

SomeValues == [type \in Types |-> CASE type = CharI -> {0, 1}
                                    [] type = CharF -> {0, 2}
                                    [] type = CharB -> {FALSE, TRUE}
                                    [] type = CharS -> {<<>>, <<1, 2>>}]

SomeLookups == {{1}}

=============================================================================
