------------------------------- MODULE CaLoad -------------------------------
(***************************************************************************)
(* CaDb::from_dir (src/src/proxy/tls/db.rs), called once by               *)
(* TlsCertStore::new before the proxy listens: one step per directory      *)
(* entry that read_dir yields.  Its error ends start_proxy, so the proxy   *)
(* never starts.                                                            *)
(*                                                                          *)
(* A directory entry is [stem, ext, isFile, body] (TlsDb's bodies).  The  *)
(* two read buffers of the loop are sequences of the bodies appended to   *)
(* them: read_to_end and read_to_string append, and both parsers take the *)
(* first PEM item of the buffer.  A CaDb entry is [cert, key, cn, kid]:   *)
(* the certificate the parameters came from, the key self_signed signs    *)
(* them with, the name and the key identifier (from_ca_cert_der keeps the *)
(* certificate's subject key identifier, so the re-signed copy has it).  *)
(***************************************************************************)
EXTENDS Integers, Sequences, SequencesExt, TlsDb

VARIABLES
    dir,        \* the files of the root-CA directory
    listing,    \* what read_dir yields, in its order
    i,          \* the entry the loop is at
    processed,  \* the stems already handled
    buffer,     \* the certificate read buffer
    keyBuffer,  \* the key read buffer
    cadb,       \* the CaDb built so far
    load        \* "idle", "loading", "ok", or "error" (from_dir returned Err)

loadVars == <<listing, i, processed, buffer, keyBuffer, cadb, load>>

LoadInit ==
    /\ listing = <<>>
    /\ i = 1
    /\ processed = {}
    /\ buffer = <<>> /\ keyBuffer = <<>>
    /\ cadb = CaDbNew
    /\ load = "idle"

\* from_dir starts: read_dir yields the directory's files in some order.
LoadStart ==
    /\ load = "idle"
    /\ listing' \in SetToSeqs(dir)
    /\ load' = "loading"
    /\ UNCHANGED <<i, processed, buffer, keyBuffer, cadb>>

\* Mutation variant of InsertAndClear: buffer.clear() is forgotten, so the
\* certificate buffer keeps what read_to_end appended to it.
InsertKeepsCertBuffer(e, buf, kbuf) ==
    /\ cadb' = CaDbInsert(cadb, e)
    /\ buffer' = buf /\ keyBuffer' = <<>>

\* db.insert(cert, key), with buf and kbuf the buffers after the reads;
\* then key_buffer.clear(); buffer.clear().
InsertAndClear(e, buf, kbuf) ==
    /\ cadb' = CaDbInsert(cadb, e)
    /\ buffer' = <<>> /\ keyBuffer' = <<>>

(***************************************************************************)
(* One iteration of the for loop.  Entries that are not files, not .pem or *)
(* of a stem already processed are skipped.  Otherwise the stem is marked  *)
(* processed, the certificate is read and parsed, <stem>.key is opened,    *)
(* read and parsed, and the pair is inserted; every `?` on the way         *)
(* (invalid certificate, missing or invalid key) returns Err.              *)
(***************************************************************************)
LoadEntry ==
    LET f       == listing[i]
        buf     == Append(buffer, f.body)
        keyFile == {g \in dir : g.stem = f.stem /\ g.ext = "key" /\ g.isFile}
        kbuf    == Append(keyBuffer, (CHOOSE g \in keyFile : TRUE).body)
        cert    == CertFromPemSlice(buf)
        key     == KeyPairFromPem(kbuf)
    IN  /\ load = "loading" /\ i <= Len(listing)
        /\ IF ~f.isFile \/ f.ext # "pem" \/ f.stem \in processed
           THEN /\ i' = i + 1
                /\ UNCHANGED <<listing, processed, buffer, keyBuffer, cadb, load>>
           ELSE /\ processed' = processed \cup {f.stem}
                /\ IF cert = Absent \/ keyFile = {} \/ key = Absent
                   THEN /\ load' = "error"
                        /\ UNCHANGED <<listing, i, buffer, keyBuffer, cadb>>
                   ELSE /\ InsertAndClear([cert |-> cert, key |-> key,
                                           cn |-> CommonNameOfParams(cert.dn),
                                           kid |-> cert.ski], buf, kbuf)
                        /\ i' = i + 1
                        /\ UNCHANGED <<listing, load>>

\* The directory is exhausted: Ok(db).
LoadDone ==
    /\ load = "loading" /\ i > Len(listing)
    /\ load' = "ok"
    /\ UNCHANGED <<listing, i, processed, buffer, keyBuffer, cadb>>

LoadNext == LoadStart \/ LoadEntry \/ LoadDone
=============================================================================
