--------------------------- MODULE MCFileResponse ---------------------------
(* One request with every header of up to two ranges and some of three; two *)
(* requests of a response while the file changes.                           *)
EXTENDS FileResponse

CONSTANTS r1, r2

Def(first, last) == [first |-> first, last |-> last]
Ask(range) == [range |-> range, head |-> FALSE]
Defs == {Def(first, last) : first \in Blank..MaxSize, last \in Blank..MaxSize}
Triples == {<<Def(0, 0), Def(2, 2), Def(1, 1)>>, <<Def(0, 0), Def(1, 1), Def(2, Blank)>>,
            <<Def(1, 1), Def(0, 2), Def(1, 2)>>, <<Def(0, 1), Def(1, 1), Def(2, 2)>>}

One(mode, multipart, range) ==
  [mode |-> mode, multipart |-> multipart, pathsend |-> FALSE, made |-> TRUE, changes |-> 0,
   asks |-> [r \in {r1} |-> Ask(range)]]

Parsing ==
  {One(mode, multipart, range) :
     mode \in {"strict", "lenient", "single"}, multipart \in BOOLEAN,
     range \in SeqOf(Defs, 2) \cup Triples}

Ranges == {<<>>, <<Def(1, 2)>>, <<Def(0, 0), Def(2, Blank)>>}
Asks == {[range |-> range, head |-> FALSE] : range \in Ranges} \cup
        {[range |-> <<>>, head |-> TRUE]}

Sharing ==
  {[mode |-> "strict", multipart |-> TRUE, pathsend |-> pathsend, made |-> made,
    changes |-> 1, asks |-> asks] :
     pathsend \in BOOLEAN, made \in BOOLEAN, asks \in [{r1, r2} -> Asks]}

TheScenarios == Parsing \cup Sharing
=============================================================================
