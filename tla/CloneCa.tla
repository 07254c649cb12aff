------------------------------ MODULE CloneCa ------------------------------
(***************************************************************************)
(* The clone-ca subcommand, clone_ca_certs of src/src/cclone.rs: every     *)
(* file of the input directory, in read_dir order, is read into one buffer *)
(* and parsed as PEM when the trimmed buffer starts with five dashes, as   *)
(* DER otherwise; clone_ca_cert re-self-signs the certificate's parameters *)
(* with a freshly generated key, and the copy is written under the input's *)
(* file name, the key under <stem>.key.                                    *)
(*                                                                          *)
(* Files and bodies are those of TlsDb and CaLoad.  A "short" body is a    *)
(* file of fewer than five bytes after trimming.  Every input is a file,   *)
(* and every certificate has a serial number, so clone_ca_cert succeeds.   *)
(***************************************************************************)
EXTENDS Integers, Sequences, SequencesExt, TlsDb

VARIABLES
    inListing,  \* the input directory, in read_dir order
    ci,         \* the entry the loop is at
    cbuffer,    \* the read buffer
    outDir,     \* the files of the output directory
    clone       \* "cloning", "done", or "panic" (an expect or index failed)

cloneVars == <<inListing, ci, cbuffer, outDir, clone>>

\* File::create truncates: a file of that name is replaced.
WriteFile(d, stem, ext, body) ==
    {g \in d : g.stem # stem \/ g.ext # ext}
        \cup {[stem |-> stem, ext |-> ext, isFile |-> TRUE, body |-> body]}

\* The key KeyPair::generate returns in the iteration for file f.
NewKey(f) == "clone:" \o f.stem \o "." \o f.ext

\* clone_ca_cert: the parameters of cert, self-signed with key.
CloneCaCert(cert, key) == [cert EXCEPT !.signer = key]

\* Mutation variant of CloneClear: buffer.clear() at the end of the loop
\* body is forgotten.
CloneKeepsBuffer(buf) == cbuffer' = buf

\* buffer.clear() after both files are written.
CloneClear(buf) == cbuffer' = <<>>

(***************************************************************************)
(* One iteration of the for loop.  buf_slice[0..5] panics on a buffer of   *)
(* fewer than five bytes.  A PEM buffer without a decodable certificate   *)
(* logs a warning and `continue`s past buffer.clear(); a DER buffer is     *)
(* wrapped as it is.                                                       *)
(***************************************************************************)
CloneEntry ==
    LET f    == inListing[ci]
        buf  == Append(cbuffer, f.body)
        pem  == IsPem(Head(buf))
        cert == IF pem THEN CertFromPemSlice(buf) ELSE Head(buf).id
        new  == CloneCaCert(cert, NewKey(f))
    IN  /\ clone = "cloning" /\ ci <= Len(inListing)
        /\ CASE Head(buf).kind = "short" ->
                    /\ clone' = "panic"
                    /\ UNCHANGED <<inListing, ci, cbuffer, outDir>>
             [] pem /\ cert = Absent ->
                    /\ cbuffer' = buf /\ ci' = ci + 1
                    /\ UNCHANGED <<inListing, outDir, clone>>
             [] OTHER ->
                    /\ outDir' = WriteFile(WriteFile(outDir, f.stem, f.ext,
                                                     [kind |-> "cert", id |-> new]),
                                           f.stem, "key", [kind |-> "key", id |-> NewKey(f)])
                    /\ CloneClear(buf)
                    /\ ci' = ci + 1
                    /\ UNCHANGED <<inListing, clone>>

\* All files processed.
CloneDone ==
    /\ clone = "cloning" /\ ci > Len(inListing)
    /\ clone' = "done"
    /\ UNCHANGED <<inListing, ci, cbuffer, outDir>>

CloneNext == CloneEntry \/ CloneDone
====
