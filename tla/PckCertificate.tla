--------------------------- MODULE PckCertificate ---------------------------
(***************************************************************************)
(* caladon/src/collateral.ts: how the client finds, in a quote, the        *)
(* platform (FMSPC) whose collateral it must ask Intel for.  The quote     *)
(* holds the PCK certificates as PEM text, the leaf first, and the leaf    *)
(* holds the FMSPC in an extension, DER-encoded.                           *)
(*                                                                         *)
(* A certificate is a sequence of bytes.  A quote is a sequence of pieces  *)
(* [is, der]: the lines that "begin" and "end" a certificate, the bytes    *)
(* between them (a "cert"), and "other" data.                              *)
(***************************************************************************)
EXTENDS Naturals, Sequences, SequencesExt

CONSTANTS
    None,           \* an error was thrown
    OidSgx,         \* OID_SGX_EXTENSION, its numbers
    OidFmspc        \* OID_FMSPC

Bytes(b, from, to) == SubSeq(b, from + 1, to)      \* b.subarray(from, to)
At(b, i) == b[i + 1]                               \* b[i]

-----------------------------------------------------------------------------
\* extractPckChainFromQuote: from the first begin to the last end.
ExtractPckChain(quote) ==
    LET begins == {i \in DOMAIN quote : quote[i].is = "begin"}
        ends == {i \in DOMAIN quote : quote[i].is = "end"} IN
    IF begins = {} \/ ends = {} THEN None ELSE SubSeq(quote, Min(begins), Max(ends))

\* pemChainToDer: what is between each begin and the next end, in order.
PemChainToDer(pem) ==
    LET Step(acc, x) ==
            CASE x.is = "begin" /\ ~ acc.open -> [acc EXCEPT !.open = TRUE, !.cert = <<>>]
              [] x.is = "end" /\ acc.open ->
                    [acc EXCEPT !.open = FALSE, !.out = Append(@, acc.cert)]
              [] OTHER -> IF acc.open THEN [acc EXCEPT !.cert = @ \o x.der] ELSE acc
        end == FoldLeft(Step, [open |-> FALSE, cert |-> <<>>, out |-> <<>>], pem)
    IN IF end.out = <<>> THEN None ELSE end.out

-----------------------------------------------------------------------------
\* Mutant: the long form of a length is taken for a short one.
ReadTlvShort(b, off) ==
    [tag |-> At(b, off), contentStart |-> off + 2, contentEnd |-> off + 2 + (At(b, off + 1) % 128)]

\* readTlv: a length of 128 or more is written in as many bytes as the first
\* byte says.  (The code's len << 8 is exact below 2^31.)
ReadTlv(b, off) ==
    LET first == At(b, off + 1)
        n == IF first >= 128 THEN first % 128 ELSE 0
        long == FoldLeft(LAMBDA len, byte : len * 256 + byte, 0, Bytes(b, off + 2, off + 2 + n))
        start == off + 2 + n IN
    [tag |-> At(b, off), contentStart |-> start,
     contentEnd |-> start + (IF n > 0 THEN long ELSE first)]

\* oidToDer: seven bits a byte, all but the last marked.
OidToDer(oid) ==
    LET Digits(v) == CHOOSE n \in 1..5 : (n = 1 \/ v >= 128 ^ (n - 1)) /\ v < 128 ^ n
        Base128(v) == [k \in 1..Digits(v) |->
            ((v \div 128 ^ (Digits(v) - k)) % 128) + (IF k < Digits(v) THEN 128 ELSE 0)]
    IN FoldLeft(LAMBDA out, v : out \o Base128(v), <<40 * oid[1] + oid[2]>>,
                SubSeq(oid, 3, Len(oid)))

\* findOidValueOctetString: the first place where the OID is written and an
\* OCTET STRING follows.
FindOidValue(b, oid) ==
    LET n == Len(oid)
        Found(i) == /\ At(b, i) = 6
                    /\ At(b, i + 1) = n
                    /\ Bytes(b, i + 2, i + 2 + n) = oid
                    /\ At(b, i + 2 + n) = 4
        places == {i \in 0..(Len(b) - n - 3) : Found(i)} IN
    IF places = {} THEN None ELSE ReadTlv(b, Min(places) + 2 + n)

\* extractFmspc: the FMSPC inside the SGX extension.
ExtractFmspc(cert) ==
    LET sgx == FindOidValue(cert, OidToDer(OidSgx)) IN
    IF sgx = None THEN None
    ELSE LET value == Bytes(cert, sgx.contentStart, sgx.contentEnd)
             fmspc == FindOidValue(value, OidToDer(OidFmspc)) IN
         IF fmspc = None THEN None ELSE Bytes(value, fmspc.contentStart, fmspc.contentEnd)

\* fetchCollateralFromPcs: the FMSPC is the leaf's.
QuoteFmspc(quote) ==
    LET pem == ExtractPckChain(quote) IN
    IF pem = None THEN None
    ELSE LET ders == PemChainToDer(pem) IN
         IF ders = None THEN None ELSE ExtractFmspc(ders[1])
=============================================================================
