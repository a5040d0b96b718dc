------------------------------ MODULE KeyPairs ------------------------------
(***************************************************************************)
(* Upload keys and the download keys derived from them                     *)
(* (src/domain/domain.go).  A string is the sequence of its parts: the     *)
(* prefixes "u_" and "d_" are parts of their own, what follows them is     *)
(* not taken apart.  SHA-256 is taken to be injective: the hash of s in    *)
(* hexadecimal is the string <<Hashed>> \o s, which has the form of a key  *)
(* to upload with.                                                         *)
(***************************************************************************)
EXTENDS Sequences

CONSTANTS
    Parts,             \* what strings are made of
    KeyLengthStrings,  \* the strings of 64 characters
    HexStrings,        \* those of them that are digits and small letters a-f
    Lowered            \* strings.ToLower on them

UploadKeyPrefix == "u_"
DownloadKeyPrefix == "d_"
Hashed == "sha256"

ASSUME KeyPairsAssumption ==
    /\ {UploadKeyPrefix, DownloadKeyPrefix, Hashed} \subseteq Parts
    /\ KeyLengthStrings \subseteq Seq(Parts) \ {<<>>}
    /\ HexStrings \subseteq KeyLengthStrings
    /\ Lowered \in [KeyLengthStrings -> KeyLengthStrings]
    /\ \A s \in HexStrings : Lowered[s] = s
    /\ \A s \in KeyLengthStrings : Head(s) \notin {UploadKeyPrefix, DownloadKeyPrefix}

NeverStripped(prefix, key) == key               \* Not the code
TrimPrefix(prefix, key) ==
    IF key # <<>> /\ Head(key) = prefix THEN Tail(key) ELSE key

StripUploadPrefix(key) == TrimPrefix(UploadKeyPrefix, key)
StripDownloadPrefix(key) == TrimPrefix(DownloadKeyPrefix, key)
AddUploadPrefix(key) == <<UploadKeyPrefix>> \o key
AddDownloadPrefix(key) == <<DownloadKeyPrefix>> \o key

(* 32 bytes of hexadecimal digits in either case, which makes the string   *)
(* one of 64 characters, after at most one prefix.                         *)
ValidateUploadKey(key) ==
    LET stripped == StripUploadPrefix(key) IN
    stripped \in KeyLengthStrings /\ Lowered[stripped] \in HexStrings

(* DeriveDownloadKey returns an error unless the length is right.          *)
Derives(key) == StripUploadPrefix(key) \in KeyLengthStrings

DeriveDownloadKey(key) == <<Hashed>> \o StripUploadPrefix(key)

(* What GET /kp and generate_key_pair hand out for 256 random bits. *)
GeneratedPair(random) ==
    [upload   |-> AddUploadPrefix(random),
     download |-> AddDownloadPrefix(DeriveDownloadKey(random))]
=============================================================================
