-------------------------- MODULE MCOracleProcess --------------------------
(***************************************************************************)
(* An instance of OracleProcess for TLC: files with none, one or two       *)
(* blocks of every kind, written with and without a password.              *)
(***************************************************************************)
EXTENDS OracleProcess

Key1 == Digits("k1", 32)
Key2 == Digits("k2", 32)

FirstBlocks ==
    {Block(TRUE, "none", data) : data \in {Key1, Digits("k1", 64), Text}}
        \cup {Block(TRUE, "none", Digits("k1", length)) : length \in {4, 20}}
        \cup {Block(FALSE, "none", Key1), Block(TRUE, "malformed", Key1),
              EncryptPEMBlock(TRUE, Key1, "123")}

File(blocks, trailing) == [exists |-> TRUE, blocks |-> blocks, trailing |-> trailing]

EveryFile ==
    {[exists |-> FALSE, blocks |-> << >>, trailing |-> FALSE]}
        \cup {File(<< >>, trailing) : trailing \in BOOLEAN}
        \cup {File(<<b>>, FALSE) : b \in FirstBlocks}
        \cup {File(<<b, Block(TRUE, "none", Key2)>>, TRUE) : b \in FirstBlocks}
=============================================================================
