--------------------------- MODULE MC_HtmlReport ----------------------------
(* Four scans: hosts of several ports with every kind of verdict, more     *)
(* hosts than the cap, the rows of one endpoint written in two passes; one *)
(* in which an endpoint was not tested; one in which all is well; one that *)
(* found nothing.  The scanner itself writes no verdict but OK and KO and  *)
(* no short row: build_report_model is public, and takes them.             *)
EXTENDS HtmlReport

FindingDefinitions_MC ==
  [CERTIFICATE_EXPIRED |-> [severity |-> "high", title |-> 1, rank |-> 1],
   PQC_HYBRID_GROUP_NOT_SUPPORTED |-> [severity |-> "informational", title |-> 3, rank |-> 2],
   TLS_NO_FORWARD_SECRECY |-> [severity |-> "medium", title |-> 2, rank |-> 3]]
Classical == {"PQC_HYBRID_GROUP_NOT_SUPPORTED"}

Row(endpoint, tls, name, verdict, cells) ==
  [endpoint |-> endpoint, tls |-> tls, name |-> name, verdict |-> verdict, cells |-> cells,
   finding |-> "TLS_NO_FORWARD_SECRECY", rsa |-> name = "RSA_128"]
Plain == << <<"a">>, << >> >>
Quoted == << <<"\"", ",", "a">>, <<"\r", "\n">> >>
Short == << <<"a">> >>

Cert(status, days, until, issuer, trust) ==
  [status |-> status, days |-> days, until |-> until, issuer |-> issuer, trust |-> trust,
   stores |-> << trust >>, key_size |-> 2048,
   findings |-> IF status = "Expired" THEN {"CERTIFICATE_EXPIRED"} ELSE {}]
Valid == Cert("Valid", 200, "2027", "R3", "PUBLIC")
Old == Cert("Expired", -3, "2025", "Lab", "UNTRUSTED")
Unknown == Cert("Validation not tested", NoDays, "-", "-", "NOT_TESTED")
Raises(certificate, findings) == [certificate EXCEPT !.findings = @ \cup findings]
Observed(id, host, port, grade, pqc, certificate, checks) ==
  [id |-> id, host |-> host, port |-> port, grade |-> grade, pqc |-> pqc,
   certificate |-> IF pqc = "classical" THEN Raises(certificate, Classical) ELSE certificate, checks |-> checks]

Risky ==
  [results |-> << Row("c:443", "TLS 1.3", "AES_256", "OK", Plain), Row("a:443", "TLS 1.2", "AES_128", "OK", Quoted),
                  Row("a:8443", "TLS 1.0", "AES_128", "KO", Plain), Row("b:443", "TLS 1.2", "AES_256", "ERROR", Plain),
                  Row("a:443", "TLS 1.2", "RSA_128", "KO", Plain) >>,
   endpoints |-> << Observed("a:443", "a", 443, "A", "classical", Valid, << <<"ocsp", "PASS">>, <<"early", "FAIL">> >>),
                    Observed("a:8443", "a", 8443, "F", "hybrid", Old, << >>),
                    Observed("b:443", "b", 443, "B", "classical", Valid, << >>),
                    Observed("c:443", "c", 443, "A+", "classical", Valid, << >>) >>]
Partial ==
  [results |-> << Row("b:443", "TLS 1.2", "AES_256", "NT", Plain), Row("a:443", "TLS 1.2", "AES_128", "OK", Short),
                  Row("a:443", "TLS 1.2", "AES_128", "OK", Plain) >>,
   endpoints |-> << Observed("a:443", "a", 443, "A", "untested", Valid, << >>),
                    Observed("b:443", "b", 443, "A", "untested", Unknown, << >>) >>]
Fine ==
  [results |-> << Row("a:443", "TLS 1.3", "AES_128", "OK", Plain), Row("a:443", "TLS 1.3", "AES_256", "OK", Plain) >>,
   endpoints |-> << Observed("a:443", "a", 443, "A", "classical", Valid, << <<"ocsp", "PASS">> >>) >>]
Nothing == [results |-> << >>, endpoints |-> << >>]

AllScans == {Risky, Partial, Fine, Nothing}
SomeQueries == {"", "TLS_NO_FORWARD_SECRECY"}
Header == << <<"I", "P">>, <<"F">> >>

\* A word without digits gives the number 0, an identifier none.
Numbers == {<<"AES_128", 128>>, <<"AES_256", 256>>, <<"RSA_128", 128>>, <<"PUBLIC", 0>>, <<"UNTRUSTED", 0>>,
            <<"NOT_TESTED", 0>>, <<"ocsp", 0>>, <<"early", 0>>, <<"PASS", 0>>, <<"FAIL", 0>>, <<"compliant", 0>>,
            <<"non_compliant", 0>>, <<"error", 0>>, <<"not_tested", 0>>}
Ranked == <<"", "-", "2025", "2027", "a", "a:443", "a:8443", "AES_128", "AES_256", "b", "b:443", "c", "c:443", "compliant",
            "early", "error", "Expired", "FAIL", "Lab", "non_compliant", "NOT_TESTED", "not_tested", "ocsp", "PASS", "PUBLIC",
            "R3", "RSA_128", "UNTRUSTED", "Valid", "Validation not tested">>
NumberOf_MC == [t \in ToSet(Ranked) |-> IF \E n \in Numbers : n[1] = t
                                        THEN (CHOOSE n \in Numbers : n[1] = t)[2] ELSE NaN]
RankOf_MC == [t \in ToSet(Ranked) |-> CHOOSE i \in DOMAIN Ranked : Ranked[i] = t]
=============================================================================
