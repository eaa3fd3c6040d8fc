------------------------------- MODULE MCTurn -------------------------------
(* Instances of Turn for TLC: answers on either side of each test.           *)
EXTENDS Turn

Answer(keys, action, friction, path, same) ==
  [keys |-> keys, action |-> action, R |-> friction, I |-> friction, N |-> friction,
   path |-> path, intentIsAction |-> same]

\* With equal estimates the threshold lies between 71 and 72 hundredths when
\* the intent differs from the action, and above 100 when it does not.
MCAnswers ==
  {Answer("exact", "respond", 10, "relative", FALSE),
   Answer("exact", "store_in_semantic_memory", 71, "relative", FALSE),
   Answer("exact", "store_in_semantic_memory", 72, "relative", FALSE),
   Answer("exact", "pdf_reader", 20, "relative", FALSE),
   Answer("exact", "docx_reader", 100, "relative", TRUE),
   Answer("exact", "translate", 20, "relative", FALSE),
   Answer("exact", "respond", 101, "relative", FALSE),
   Answer("other", "respond", 10, "relative", FALSE),
   Answer("exact", "store_in_semantic_memory", 10, "parent", FALSE)}

MCReflexActions == {"enable_strict_local_routing", "block_unsupported_math"}
MCAllowList == {"pdf_reader_basic", "docx_reader"}
=============================================================================
