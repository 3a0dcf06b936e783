--------------------------- MODULE MCDtlsTransport ---------------------------
(* Instances of DtlsTransport. *)
EXTENDS DtlsTransport

AnyPolicy == [Endpoints -> Crypto]
AnyCertificate == [Endpoints -> BOOLEAN]
=============================================================================
