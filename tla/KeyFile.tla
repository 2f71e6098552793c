------------------------------- MODULE KeyFile -------------------------------
(***************************************************************************)
(* tools/wallet/pem.go, and the wallet made of a key: which key of a file  *)
(* is loaded, or why none is.                                              *)
(*                                                                         *)
(* The data of a block are the hexadecimal digits of a key, or text, or    *)
(* data sealed under a password and a hash function, or too short to be    *)
(* sealed data; AES-GCM opens what was sealed with the same password and   *)
(* hash, and nothing else.  A block names its DEK-Info header: there may   *)
(* be none, it may lack its comma, or it gives the mode.                   *)
(***************************************************************************)
EXTENDS Integers, Sequences, FiniteSetsExt

SeedSize == 32

Digits(key, length) == [kind |-> "digits", key |-> key, length |-> length]
Sealed(data, pwd, hash) == [kind |-> "sealed", data |-> data, pwd |-> pwd, hash |-> hash]
Text == [kind |-> "text"]
TooShort == [kind |-> "short"]

Block(marked, dekInfo, data) == [marked |-> marked, dekInfo |-> dekInfo, data |-> data]

(***************************************************************************)
(* A result: an error, or the data of a block.                             *)
(***************************************************************************)
Failed(err) == [err |-> err]
Loaded(data) == [err |-> "nil", data |-> data]

(***************************************************************************)
(* EncryptPEMBlock and DecryptPEMBlock.  Blocks of the old encryption are  *)
(* still read, but not written.                                            *)
(***************************************************************************)
IsEncryptedPEMBlock(block) == block.dekInfo # "none"

\* Faulty variant: encryption under the hash function of the old mode.
EncryptPEMBlockSha1(marked, data, pwd) ==
    Block(marked, "AES-256-GCM", Sealed(data, pwd, "sha1"))

EncryptPEMBlock(marked, data, pwd) ==
    Block(marked, "AES-256-GCM", Sealed(data, pwd, "sha256"))

HashOfMode == [mode \in {"AES-GCM", "AES-256-GCM"} |->
                  IF mode = "AES-GCM" THEN "sha1" ELSE "sha256"]

DecryptPEMBlock(block, pwd) ==
    IF block.dekInfo \notin DOMAIN HashOfMode THEN Failed("header")
    ELSE IF block.data.kind = "short" THEN Failed("size")
    ELSE IF /\ block.data.kind = "sealed"
            /\ block.data.pwd = pwd /\ block.data.hash = HashOfMode[block.dekInfo]
         THEN Loaded(block.data.data)
    ELSE Failed("authentication")

\* main.go gives no password.
NoPassword == ""

\* One iteration of the loop of LoadSkPkFromPemFile.
ReadBlock(block, pwd) ==
    IF ~IsEncryptedPEMBlock(block) THEN Loaded(block.data)
    ELSE IF pwd = NoPassword THEN Failed("password")
    ELSE DecryptPEMBlock(block, pwd)

(***************************************************************************)
(* LoadSkPkFromPemFile.  Every block up to the one asked for must be       *)
(* readable.  Behind the last block there may be something that is none.   *)
(***************************************************************************)
Unreadable(file, skIndex, pwd) ==
    {i \in 1 .. skIndex + 1 :
        i > Len(file.blocks) \/ ReadBlock(file.blocks[i], pwd).err # "nil"}

\* Faulty variant: the loop reads one block more, if there is one.
LoadSkPkFromPemFileOneMore(file, skIndex, pwd) ==
    IF skIndex + 2 \in DOMAIN file.blocks THEN ReadBlock(file.blocks[skIndex + 2], pwd)
                                           ELSE Failed("index")

LoadSkPkFromPemFile(file, skIndex, pwd) ==
    IF skIndex < 0 \/ ~file.exists \/ (file.blocks = << >> /\ ~file.trailing) THEN Failed("file")
    ELSE IF Unreadable(file, skIndex, pwd) # {}
    THEN LET first == Min(Unreadable(file, skIndex, pwd))
         IN  IF first <= Len(file.blocks) THEN ReadBlock(file.blocks[first], pwd)
             ELSE IF file.trailing THEN Failed("decoding") ELSE Failed("index")
    ELSE IF ~file.blocks[skIndex + 1].marked THEN Failed("type")
    ELSE ReadBlock(file.blocks[skIndex + 1], pwd)

LoadKey(file, skIndex, pwd) ==
    LET loaded == LoadSkPkFromPemFile(file, skIndex, pwd)
    IN  IF loaded.err = "nil" /\ loaded.data.kind # "digits" THEN Failed("hex") ELSE loaded

(***************************************************************************)
(* NewWallet takes a seed of the right size.  NewWalletFromPEM slices the  *)
(* key, and a slice may reach up to the capacity: hex.DecodeString (of go  *)
(* 1.23) writes the key over the first half of its digits, so a key that   *)
(* is too short panics, or is followed by digits that were left over.      *)
(***************************************************************************)
\* A wallet: its key, and whether all of it comes from the file.
NoWallet(err) == [key |-> "", whole |-> FALSE, err |-> err]

NewWallet(key, size, whole) ==
    IF size = SeedSize THEN [key |-> key, whole |-> whole, err |-> "nil"]
                       ELSE NoWallet("size")

\* The capacities the slice may have: the digits, rounded up to a size class.
Capacities(length) == length .. 2 * length + 16

\* The outcomes of NewWalletFromPEM.
NewWalletFromPEM(file) ==
    LET loaded == LoadKey(file, 0, NoPassword)
    IN  IF loaded.err # "nil" THEN {NoWallet(loaded.err)}
        ELSE {IF capacity < SeedSize THEN NoWallet("panic")
              ELSE NewWallet(loaded.data.key, SeedSize, loaded.data.length >= SeedSize) :
                 capacity \in Capacities(loaded.data.length)}
=============================================================================
