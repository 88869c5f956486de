------------------------------- MODULE MCEngine -------------------------------
(***************************************************************************)
(* A model of Engine: every section of up to MaxLines lines, and a         *)
(* directory that changes while it is walked.                              *)
(***************************************************************************)
EXTENDS Engine

CONSTANT MaxLines

MCParent == [f |-> Root, d |-> Root, e |-> Root, g |-> "d", h |-> "e", c |-> "d", k |-> "c"]
MCDirs   == {"d", "e", "c"}

MCLines ==
    [key : Options, val : {"x", "y", Bad}] \cup [key : {"data_dir"}, val : {"/disk2", Empty}]

\* The options of an engine that no sample is taken of.
Sections ==
    [engine : {"rocksdb", "tidesdb"}, dataDir : {"/disk1"}, section : SeqOf(MCLines, MaxLines),
     files : {{}}, churn : {0}, walks : {0}]

\* A directory that stands still, or in which up to two entries are made and any
\* removed, under one or two walks.
Walks ==
    [engine : {"rocksdb", "tidesdb"}, dataDir : {"/disk1"}, section : {<< >>},
     files : {{"f", "d", "g"}, {"d", "e", "g", "h"}, {"f", "d", "g", "c", "k"}},
     churn : {0, 2}, walks : {1, 2}]

MCCases == Sections \cup Walks
=================================================================================
