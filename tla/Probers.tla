------------------------------ MODULE Probers -------------------------------
(***************************************************************************)
(* The protocol probers and the error categories (pkg/prober/http.go,      *)
(* tcp.go, tls.go, dns.go, grpc.go, prober.go): from what a target does to *)
(* the category its probe reports, "" for success.                         *)
(*                                                                         *)
(* A Go error is the set of types its chain holds, a gRPC status is its    *)
(* code.  Which error the standard library and grpc-go return for what a   *)
(* target does is external; what the code makes of it is not.              *)
(***************************************************************************)
EXTENDS Naturals

allCategories ==
  {"dns_error", "connection_refused", "tls_error", "timeout", "http_error",
   "grpc_not_serving", "grpc_error", "unhealthy_service", "authentication_error",
   "unknown_error"}

\* The schemes main registers a prober for.
Schemes == {"http", "https", "tcp", "tls", "grpc", "dns"}

-----------------------------------------------------------------------------
(* What may happen.                                                        *)

\* The ways to fail the check of a certificate, which InsecureSkipVerify skips.
BadCertificates == {"untrusted", "wrongHost", "expired"}

Outcomes ==
  {"ok", "hang", "noHost", "refused", "reset", "badStatus", "slowBody", "plaintext", "alert",
   "notServing", "noService", "unimplemented", "denied", "malformed"} \cup BadCertificates

\* The probers that parse the whole address, and give up if it does not parse.
ParseAddress == {"http", "https", "tcp"}

\* What a target of a scheme may do.  "hang": it does not answer in time;
\* "reset": it resets a connection it accepted; "plaintext": it speaks HTTP, or
\* whatever, without TLS; "alert": it refuses the handshake; "noService" and
\* "unimplemented" are answers to the gRPC health check.  A target whose address
\* does not parse ("malformed") is not asked.
Answers(scheme, target) ==
  LET tls == scheme \in {"https", "tls"}
  IN IF target.malformed /\ scheme \in ParseAddress THEN {"malformed"}
     ELSE {"ok", "hang", "noHost"}
            \cup (IF scheme = "dns" THEN {} ELSE {"refused"})
            \cup (IF scheme \in {"dns", "tcp"} THEN {} ELSE {"reset"})
            \cup (IF scheme \in {"http", "https"} THEN {"badStatus", "slowBody"} ELSE {})
            \cup (IF tls THEN {"plaintext", "alert"} ELSE {})
            \cup (IF tls /\ ~target.insecureSkipVerify THEN BadCertificates ELSE {})
            \cup (IF scheme = "grpc"
                    THEN {"notServing", "noService", "unimplemented", "denied"} ELSE {})

\* The error a call returns, {} for none.  "cut": its context was cancelled.
\* net/http replaces the error of an HTTP answer to a TLS handshake by its own.
GoError(scheme, answer) ==
  LET dialled == scheme \in {"tcp", "tls"}
  IN CASE answer \in {"refused", "reset", "alert"} -> {"OpError"}
       [] answer = "noHost"    -> IF scheme = "dns" THEN {"DNSError"} ELSE {"OpError", "DNSError"}
       [] answer = "hang"      -> {"DeadlineExceeded"}
                                    \cup (IF dialled THEN {"OpError", "Timeout"} ELSE {})
                                    \cup (IF scheme = "dns" THEN {"DNSError"} ELSE {})
       [] answer = "cut"       -> {"Canceled"}
                                    \cup (IF dialled THEN {"OpError"} ELSE {})
                                    \cup (IF scheme = "dns" THEN {"DNSError"} ELSE {})
       [] answer = "untrusted" -> {"UnknownAuthorityError"}
       [] answer = "wrongHost" -> {"HostnameError"}
       [] answer = "expired"   -> {"CertificateInvalidError"}
       [] answer = "plaintext" -> IF scheme = "https" THEN {"ErrSchemeMismatch"}
                                                      ELSE {"RecordHeaderError"}
       [] OTHER                -> {}

\* The status of a health check that did not return a response.
GrpcCode(answer) ==
  CASE answer \in {"refused", "noHost", "reset"} -> "Unavailable"
    [] answer = "hang"                           -> "DeadlineExceeded"
    [] answer = "noService"                      -> "NotFound"
    [] answer = "unimplemented"                  -> "Unimplemented"
    [] answer = "denied"                         -> "PermissionDenied"
    [] answer = "cut"                            -> "Canceled"
    [] OTHER                                     -> "OK"

-----------------------------------------------------------------------------
(* Error categories.                                                       *)

\* Mutant of MapToCategory: the enclosing network error is looked for first.
MapToCategory_OpErrorFirst(err, statusCode) ==
  IF err = {} THEN IF statusCode >= 400 THEN "http_error" ELSE ""
  ELSE IF "DeadlineExceeded" \in err THEN "timeout"
  ELSE IF "OpError" \in err THEN "connection_refused"
  ELSE IF "DNSError" \in err THEN "dns_error"
  ELSE IF err \cap {"UnknownAuthorityError", "HostnameError", "RecordHeaderError"} # {}
       THEN "tls_error" ELSE "unknown_error"

\* The pointer type *CertificateInvalidError is looked for, which crypto/x509,
\* returning the value, never puts into a chain.  The probers call this with no
\* gRPC status.
MapToCategory(err, statusCode) ==
  IF err = {} THEN IF statusCode >= 400 THEN "http_error" ELSE ""
  ELSE IF "DeadlineExceeded" \in err THEN "timeout"
  ELSE IF err \cap {"*CertificateInvalidError", "UnknownAuthorityError", "HostnameError",
                    "RecordHeaderError", "*RecordHeaderError"} # {} THEN "tls_error"
  ELSE IF "DNSError" \in err THEN "dns_error"
  ELSE IF "OpError" \in err
       THEN IF "Timeout" \in err THEN "timeout" ELSE "connection_refused"
  ELSE "unknown_error"

-----------------------------------------------------------------------------
(* Probers.                                                                *)

\* A body that stops midway is not an error: io.Copy's result is dropped.
ProbeHTTPTarget(scheme, answer) ==
  IF answer = "malformed" THEN "unknown_error"
  ELSE MapToCategory(GoError(scheme, answer), IF answer = "badStatus" THEN 503 ELSE 200)

ProbeTCPTarget(answer) ==
  IF answer = "malformed" THEN "unknown_error" ELSE MapToCategory(GoError("tcp", answer), 0)

ProbeTLSTarget(answer) == MapToCategory(GoError("tls", answer), 0)

\* A completed handshake records the days the certificate has left.
RecordsExpiry(scheme, answer) == scheme = "tls" /\ GoError("tls", answer) = {}

ProbeDNSTarget(answer) == MapToCategory(GoError("dns", answer), 0)

ProbeGRPCTarget(answer) ==
  LET code == GrpcCode(answer)
  IN CASE code = "OK"               -> IF answer = "ok" THEN "" ELSE "grpc_not_serving"
       [] code = "NotFound"         -> "grpc_not_serving"
       [] code = "Unavailable"      -> "connection_refused"
       [] code = "DeadlineExceeded" -> "timeout"
       [] code = "Unimplemented"    -> ""
       [] OTHER                     -> "grpc_error"

\* The ProbeFunc registered for a scheme.
probers(scheme, answer) ==
  CASE scheme \in {"http", "https"} -> ProbeHTTPTarget(scheme, answer)
    [] scheme = "tcp"               -> ProbeTCPTarget(answer)
    [] scheme = "tls"               -> ProbeTLSTarget(answer)
    [] scheme = "grpc"              -> ProbeGRPCTarget(answer)
    [] scheme = "dns"               -> ProbeDNSTarget(answer)

-----------------------------------------------------------------------------
(* What the hints of the categories (Hint) tell the operator, read as a    *)
(* specification: the categories that fit what the target did.             *)
Fitting(answer) ==
  CASE answer \in {"ok", "slowBody", "unimplemented"} -> {""}
    [] answer = "hang"                                -> {"timeout"}
    [] answer = "refused"                             -> {"connection_refused"}
    [] answer = "noHost"                              -> {"dns_error"}
    [] answer = "badStatus"                           -> {"http_error"}
    [] answer \in BadCertificates \cup {"plaintext", "alert"} -> {"tls_error"}
    [] answer \in {"notServing", "noService"}         -> {"grpc_not_serving"}
    [] answer = "denied"                              -> {"grpc_error", "authentication_error"}
    [] answer \in {"reset", "malformed"}              -> {"unknown_error"}
    [] OTHER                                          -> {}

\* The answers the code reports under a category whose hint sends the operator
\* to the wrong place: an expired certificate (its type is looked for as a
\* pointer, prober.go:92) and HTTP from an https target are "unknown_error"; a
\* TLS alert, a reset connection and a host name that grpc-go cannot resolve
\* are "connection_refused".
Misclassified(scheme, answer) ==
  \/ answer \in {"expired", "alert", "reset"}
  \/ scheme = "https" /\ answer = "plaintext"
  \/ scheme = "grpc" /\ answer = "noHost"
=============================================================================
