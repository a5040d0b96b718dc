------------------------------ MODULE MCServer ------------------------------
(* A small instance of Server for TLC. *)
EXTENDS Server

\* One key pair, each key in two forms, the upload key in capital letters with
\* the download key it leads to, and a string that is no key.
plainUpload == <<"aa">>
prefixedUpload == GeneratedPair(plainUpload).upload
prefixedDownload == GeneratedPair(plainUpload).download
plainDownload == DeriveDownloadKey(plainUpload)
capitalUpload == <<"AA">>
capitalDownload == GeneratedPair(capitalUpload).download
noKey == <<"zz">>

MCParts == {UploadKeyPrefix, DownloadKeyPrefix, Hashed, "aa", "AA", "zz"}
MCHexStrings == {plainUpload, plainDownload}
MCKeyLengthStrings == MCHexStrings \cup {capitalUpload, noKey}
MCLowered == [s \in MCKeyLengthStrings |-> IF s = capitalUpload THEN plainUpload ELSE s]

\* A parameter at the root, one below a path, the path itself and a path
\* through the first parameter; and the field of a request that has none.
a == [path |-> EmptyString, key |-> <<"a">>]
pb == [path |-> <<"p">>, key |-> <<"b">>]
p == [path |-> EmptyString, key |-> <<"p">>]
none == [path |-> EmptyString, key |-> EmptyString]
ab == [path |-> <<"a">>, key |-> <<"b">>]

HTTP(route, op, keys, fields) ==
    [route : {route}, op : {op}, key : keys, field : fields]

Tool(op, keys, fields) == HTTP("tool", op, keys, fields)

MCWrites ==
    HTTP("upload", "Upload", {plainUpload, plainDownload, noKey}, {a})
        \cup HTTP("patch", "Patch", {prefixedUpload}, {a, pb})
        \cup HTTP("delete", "Delete", {prefixedUpload}, {none})

MCArrivals ==
    MCWrites
        \cup HTTP("json", "DownloadJSON", {plainDownload}, {none})
        \cup HTTP("root", "DownloadJSON", {plainDownload}, {none})
        \cup HTTP("plain", "DownloadJSON", {plainDownload, prefixedDownload}, {a, pb})
        \cup HTTP("base64", "DownloadJSON", {plainDownload}, {a, p, ab})
        \cup Tool("Upload", {prefixedUpload, capitalUpload}, {a})
        \cup Tool("Patch", {plainUpload}, {pb})
        \cup Tool("Delete", {plainUpload, capitalUpload}, {none})
        \cup Tool("DownloadJSON", {prefixedDownload}, {none})
        \cup Tool("DownloadField", {prefixedDownload, plainDownload, capitalDownload}, {a, pb})

RequestSymmetry == Permutations(Requests)
=============================================================================
