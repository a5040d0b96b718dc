--------------------------- MODULE MCDataService ---------------------------
(* Small instances of DataService for TLC. *)
EXTENDS DataService

\* One well-formed upload key, one string of its length that is none.
MCParts == {UploadKeyPrefix, DownloadKeyPrefix, Hashed, "aa", "zz"}
MCKeyLengthStrings == {<<"aa">>, <<"zz">>}
MCHexStrings == {<<"aa">>}
MCLowered == [s \in MCKeyLengthStrings |-> s]

\* A parameter at the root and one below a path.
rootField == [path |-> EmptyString, key |-> <<"a">>]
nestedField == [path |-> <<"p">>, key |-> <<"b">>]

MCTools(op, keys, fields) ==
    [route : {"tool"}, op : {op}, key : keys, field : fields]

MCPatches == MCTools("Patch", {<<"aa">>}, {rootField, nestedField})

\* Every operation; the deletion also with a key that does not validate.
MCArrivals ==
    MCTools("Upload", {<<"aa">>}, {rootField})
        \cup MCTools("Patch", {<<"aa">>}, {nestedField})
        \cup MCTools("Delete", {<<"aa">>, <<"zz">>}, {NoField})
        \cup MCTools("DownloadField", {DeriveDownloadKey(<<"aa">>)}, {rootField})

RequestSymmetry == Permutations(Requests)
=============================================================================
