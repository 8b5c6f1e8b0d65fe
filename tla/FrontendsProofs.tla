-------------------------- MODULE FrontendsProofs --------------------------
(* Proofs about Frontends, for every manifest, connection and request.     *)
EXTENDS Frontends, SequenceTheorems, TLAPS

Rule ==
  \/ ConnectionRules \/ ContentRules \/ FrontingRules \/ MtlsRules \/ DenyRules
  \/ RewriteRules \/ ClientIpRules \/ InternalRules \/ ProtoRules \/ RedirectRules

(* The manifest stays one of those considered, that the template renders,  *)
(* and the connection one that can be made to it.                          *)
InputsOK ==
  Renders(cfg) /\ Possible(cfg, conn) /\ \E s \in Scenarios : cfg = s.cfg

(* The template declares one router or both, and always the one that its   *)
(* use_backend lines name.                                                 *)
Http1Declared == \/ cfg.disable_backend_http2_websockets \/ ~cfg.enable_http2
                 \/ cfg.backend_match_http_protocol \/ ~cfg.backend_ssl
Http2Declared == cfg.backend_ssl /\ (cfg.enable_http2 \/ cfg.backend_match_http_protocol)

LEMMA BackendsCases ==
  ASSUME InputAssumption, cfg \in Config
  PROVE  /\ backends \in Seq(Routers)
         /\ Len(backends) =
              (IF Http1Declared THEN 1 ELSE 0) + (IF Http2Declared THEN 1 ELSE 0)
         /\ Http1Declared => backends[1] = "http-routers-http1"
         /\ Http2Declared => backends[Len(backends)] = "http-routers-http2"
         /\ Http1Declared \/ Http2Declared
<1> DEFINE one == IF Http1Declared THEN <<"http-routers-http1">> ELSE <<>>
           two == IF Http2Declared THEN <<"http-routers-http2">> ELSE <<>>
<1>1. backends = one \o two
  BY DEF backends, Http1Declared, Http2Declared
<1>2. /\ one \in Seq(Routers) /\ Len(one) = (IF Http1Declared THEN 1 ELSE 0)
      /\ Http1Declared => one[1] = "http-routers-http1"
  <2>1. CASE Http1Declared
    <3>1. one = <<"http-routers-http1">> BY <2>1
    <3> QED BY <2>1, <3>1, "http-routers-http1" \in Routers DEF Routers
  <2>2. CASE ~Http1Declared
    <3>1. one = <<>> BY <2>2
    <3> QED BY <2>2, <3>1
  <2> QED BY <2>1, <2>2
<1>3. /\ two \in Seq(Routers) /\ Len(two) = (IF Http2Declared THEN 1 ELSE 0)
      /\ Http2Declared => two[1] = "http-routers-http2"
  <2>1. CASE Http2Declared
    <3>1. two = <<"http-routers-http2">> BY <2>1
    <3> QED BY <2>1, <3>1, "http-routers-http2" \in Routers DEF Routers
  <2>2. CASE ~Http2Declared
    <3>1. two = <<>> BY <2>2
    <3> QED BY <2>2, <3>1
  <2> QED BY <2>1, <2>2
<1> HIDE DEF one, two
<1>4. /\ backends \in Seq(Routers) /\ Len(backends) = Len(one) + Len(two)
      /\ \A i \in 1 .. Len(one) + Len(two) : backends[i] =
           IF i <= Len(one) THEN one[i] ELSE two[i - Len(one)]
  BY <1>1, <1>2, <1>3, ConcatProperties
<1>5. /\ cfg.enable_http2 \in BOOLEAN /\ cfg.backend_match_http_protocol \in BOOLEAN
      /\ cfg.disable_backend_http2_websockets \in BOOLEAN /\ cfg.backend_ssl \in BOOLEAN
  BY DEF Config
<1>6. Http1Declared \/ Http2Declared
  BY <1>5 DEF Http1Declared, Http2Declared
<1> QED BY <1>2, <1>3, <1>4, <1>6

(* No rule but the last chooses a backend, and each rule either ends the   *)
(* request or passes it on.                                                *)
LEMMA RuleStep ==
  ASSUME InputAssumption, TypeOK, Rule
  PROVE  /\ UNCHANGED <<inputs, backend>>
         /\ at # "done" /\ at' \in Groups /\ verdict' \in Verdicts \ {"served"}
         /\ at' = "done" <=> verdict' # "none"
<1> USE DEF Pass, Answer, Groups, Verdicts, inputs, TypeOK
<1>1. CASE ConnectionRules BY <1>1 DEF ConnectionRules
<1>2. CASE ContentRules BY <1>2 DEF ContentRules
<1>3. CASE FrontingRules BY <1>3 DEF FrontingRules
<1>4. CASE MtlsRules BY <1>4 DEF MtlsRules
<1>5. CASE DenyRules BY <1>5 DEF DenyRules
<1>6. CASE RewriteRules BY <1>6 DEF RewriteRules
<1>7. CASE ClientIpRules BY <1>7 DEF ClientIpRules
<1>8. CASE InternalRules BY <1>8 DEF InternalRules
<1>9. CASE ProtoRules BY <1>9 DEF ProtoRules
<1>10. CASE RedirectRules BY <1>10 DEF RedirectRules
<1> QED BY <1>1, <1>2, <1>3, <1>4, <1>5, <1>6, <1>7, <1>8, <1>9, <1>10 DEF Rule

(* The rules leave a header with values of the three origins.              *)
LEMMA HeaderStep ==
  ASSUME InputAssumption, TypeOK, Rule
  PROVE  hdr' \in [Headers -> SUBSET Origins]
<1> USE DEF Pass, Answer, TypeOK, Edit, EditIf, Origins
<1>1. CASE ConnectionRules BY <1>1 DEF ConnectionRules
<1>2. CASE ContentRules BY <1>2 DEF ContentRules
<1>3. CASE FrontingRules BY <1>3 DEF FrontingRules
<1>4. CASE MtlsRules BY <1>4 DEF MtlsRules
<1>5. CASE DenyRules BY <1>5 DEF DenyRules
<1>6. CASE RewriteRules BY <1>6 DEF RewriteRules
<1>7. CASE ClientIpRules BY <1>7 DEF ClientIpRules
<1>8. CASE InternalRules BY <1>8 DEF InternalRules
<1>9. CASE ProtoRules BY <1>9 DEF ProtoRules
<1>10. CASE RedirectRules BY <1>10 DEF RedirectRules
<1> QED BY <1>1, <1>2, <1>3, <1>4, <1>5, <1>6, <1>7, <1>8, <1>9, <1>10 DEF Rule
-----------------------------------------------------------------------------
(* What the headers hold before, between and after the rules that change   *)
(* them: the groups in between leave them alone.                           *)
BeforeMtls == {"connection", "content", "fronting", "mtls"}
BeforeRewrite == {"deny", "rewrite"}
BeforeRoute == {"internal", "proto", "redirect", "backend"}

HeadersInv ==
  /\ at \in BeforeMtls => hdr["xfcc"] = sentBy("xfcc")
  /\ at \in BeforeRewrite => hdr["xfcc"] = DocumentedXfcc
  /\ at \in BeforeMtls \union BeforeRewrite =>
       /\ hdr["signature"] = sentBy("signature")
       /\ hdr["clientip"] = sentBy("clientip")
  /\ at = "clientip" =>
       /\ hdr["signature"] = afterRewrite("signature", sentBy("signature"))
       /\ hdr["clientip"] = afterRewrite("clientip", sentBy("clientip"))
  /\ at = "clientip" \/ at \in BeforeRoute \/ served =>
       hdr["xfcc"] = afterRewrite("xfcc", DocumentedXfcc)
  /\ (at \in BeforeRoute \/ served)
       /\ cfg.true_client_ip_header /\ conn.frontend = "https-in" =>
       hdr["clientip"] = DocumentedClientIp

(* What the groups of rules that a request has passed have settled.        *)
PassedInv ==
  /\ (at \notin {"connection", "done"} \/ served) /\ conn.frontend # "wss-in" =>
       early_src \notin cfg.cidr_blocklist_tcp
  /\ at \notin {"connection", "content", "done"} \/ served =>
       src \in cfg.cidr_whitelist \/ (src \notin cfg.cidr_blacklist /\ ~cfg.block_all)
  /\ (at \in {"proto", "redirect", "backend"} \/ served)
       /\ req.host \in cfg.internal_only_domains =>
       src \in cfg.trusted_domain_cidrs
  /\ (at \notin {"connection", "content", "fronting", "done"} \/ served)
       /\ Tls /\ conn.sni # Nobody =>
       /\ cfg.disable_domain_fronting = "true" => req.host = conn.sni
       /\ cfg.disable_domain_fronting = "mtls_only" /\ conn.cert => req.host = conn.sni

IInv == TypeOK /\ InputsOK /\ HeadersInv /\ PassedInv /\ BackendDeclared /\ SameProtocol
-----------------------------------------------------------------------------
(* What is made of the inputs does not change with them.                   *)
LEMMA InputsFixed ==
  ASSUME UNCHANGED inputs
  PROVE  /\ src' = src /\ early_src' = early_src /\ Tls' = Tls
         /\ DocumentedXfcc' = DocumentedXfcc /\ DocumentedClientIp' = DocumentedClientIp
         /\ backends' = backends /\ InputsOK' = InputsOK
<1>1. cfg' = cfg /\ conn' = conn /\ req' = req
  BY DEF inputs
<1>2. src' = src /\ early_src' = early_src /\ Tls' = Tls
  BY <1>1 DEF src, early_src, Proxied, Tls
<1>3. DocumentedXfcc' = DocumentedXfcc
  BY <1>1, <1>2 DEF DocumentedXfcc, sentBy
<1>4. DocumentedClientIp' = DocumentedClientIp
  BY <1>1 DEF DocumentedClientIp, sentBy, afterRewrite
<1>5. backends' = backends /\ InputsOK' = InputsOK
  BY <1>1 DEF backends, InputsOK, Renders, Possible, Listening
<1> QED BY <1>2, <1>3, <1>4, <1>5

(* The rules for the client certificate headers do what is documented,     *)
(* whatever the request brought.                                           *)
LEMMA MtlsRulesDocumented ==
  ASSUME InputAssumption, TypeOK, InputsOK, HeadersInv, MtlsRules
  PROVE  hdr' = [hdr EXCEPT !["xfcc"] = DocumentedXfcc]
<1>1. /\ hdr \in [Headers -> SUBSET Origins] /\ "xfcc" \in Headers
      /\ cfg \in Config /\ conn \in Connection
  BY DEF TypeOK, Headers
<1>2. hdr["xfcc"] = sentBy("xfcc") /\ hdr["signature"] = sentBy("signature")
  BY DEF MtlsRules, Pass, HeadersInv, BeforeMtls
<1>3. route_service_request <=> "signature" \in req.sent
  BY <1>2 DEF route_service_request, found, sentBy
<1>4. conn.cert => cfg.mutual_tls_enabled /\ Tls
  BY DEF InputsOK, Possible, Tls
<1> DEFINE deleted == CASE mtls_header_deletion_policy = "never" -> FALSE
                        [] mtls_header_deletion_policy = "always" -> TRUE
                        [] mtls_header_deletion_policy = "non_mtls_only" -> ~conn.cert
                        [] OTHER -> ~route_service_request
           written == write_mtls_headers /\ conn.cert
           value == IF written THEN {"proxy"} ELSE {}
<1>5. hdr' = IF Tls /\ (deleted \/ written) THEN [hdr EXCEPT !["xfcc"] = value] ELSE hdr
  BY <1>1 DEF MtlsRules, Edit, EditIf
<1>6. DocumentedXfcc = IF Tls /\ (deleted \/ written) THEN value ELSE sentBy("xfcc")
  <2>1. CASE cfg.forwarded_client_cert = "always_forward_only"
    BY <2>1 DEF DocumentedXfcc, mtls_header_deletion_policy, write_mtls_headers
  <2>2. CASE cfg.forwarded_client_cert = "forward_only"
    BY <1>1, <1>4, <2>2
    DEF DocumentedXfcc, mtls_header_deletion_policy, write_mtls_headers, Connection, Config
  <2>3. CASE cfg.forwarded_client_cert = "sanitize_set"
    BY <1>1, <1>4, <2>3
    DEF DocumentedXfcc, mtls_header_deletion_policy, write_mtls_headers
  <2>4. CASE cfg.forwarded_client_cert = "forward_only_if_route_service"
    BY <1>1, <1>3, <1>4, <2>4
    DEF DocumentedXfcc, mtls_header_deletion_policy, write_mtls_headers
  <2> QED BY <1>1, <2>1, <2>2, <2>3, <2>4 DEF Config
<1> QED BY <1>1, <1>2, <1>5, <1>6

(* Each rule keeps what the headers are known to hold: only the rules for  *)
(* certificates, rewriting, the client address and the scheme touch them.  *)
LEMMA HeadersKept ==
  ASSUME InputAssumption, TypeOK, InputsOK, HeadersInv, Rule
  PROVE  HeadersInv'
<1> DEFINE Fixed == /\ cfg' = cfg /\ conn' = conn /\ req' = req
                    /\ DocumentedXfcc' = DocumentedXfcc
                    /\ DocumentedClientIp' = DocumentedClientIp
<1>1. Fixed
  BY RuleStep, InputsFixed DEF inputs
<1>2. hdr \in [Headers -> SUBSET Origins] /\ Headers = {"xfcc", "signature", "clientip", "proto", "upgrade"}
  BY DEF TypeOK, Headers
<1>3. verdict' # "served"
  BY RuleStep
<1> USE <1>1, <1>3 DEF HeadersInv, BeforeMtls, BeforeRewrite, BeforeRoute, served, sentBy,
        afterRewrite, Pass, Answer
<1>4. CASE ConnectionRules BY <1>4 DEF ConnectionRules
<1>5. CASE ContentRules BY <1>5 DEF ContentRules
<1>6. CASE FrontingRules BY <1>6 DEF FrontingRules
<1>7. CASE MtlsRules
  <2>1. at = "mtls" /\ at' = "deny" BY <1>7 DEF MtlsRules
  <2>2. hdr' = [hdr EXCEPT !["xfcc"] = DocumentedXfcc] BY <1>7, MtlsRulesDocumented
  <2> QED BY <1>2, <2>1, <2>2
<1>8. CASE DenyRules BY <1>8 DEF DenyRules
<1>9. CASE RewriteRules BY <1>2, <1>9 DEF RewriteRules
<1>10. CASE ClientIpRules
  <2>1. at = "clientip" /\ at' = "internal" BY <1>10 DEF ClientIpRules
  <2>2. hdr'["xfcc"] = hdr["xfcc"] BY <1>2, <1>10 DEF ClientIpRules, Edit, EditIf
  <2>3. ASSUME cfg.true_client_ip_header, conn.frontend = "https-in"
        PROVE  hdr'["clientip"] = DocumentedClientIp
    <3>1. cfg.forward_true_client_ip_header \in
            {"always_forward", "forward_only_if_route_service", "always_set"}
      BY DEF TypeOK, Config
    <3>2. /\ found("clientip") <=> afterRewrite("clientip", sentBy("clientip")) # {}
          /\ route_service_request <=> afterRewrite("signature", sentBy("signature")) # {}
          /\ hdr["clientip"] = afterRewrite("clientip", sentBy("clientip"))
      BY <2>1 DEF found, route_service_request
    <3> QED BY <1>2, <1>10, <2>3, <3>1, <3>2
            DEF ClientIpRules, Edit, EditIf, DocumentedClientIp
  <2> QED BY <2>1, <2>2, <2>3
<1>11. CASE InternalRules BY <1>11 DEF InternalRules
<1>12. CASE ProtoRules BY <1>2, <1>12 DEF ProtoRules, Edit, EditIf
<1>13. CASE RedirectRules BY <1>13 DEF RedirectRules
<1> QED BY <1>4, <1>5, <1>6, <1>7, <1>8, <1>9, <1>10, <1>11, <1>12, <1>13 DEF Rule

(* Each group of rules settles its question, and none reopens an earlier.  *)
LEMMA PassedKept ==
  ASSUME InputAssumption, TypeOK, InputsOK, PassedInv, Rule
  PROVE  PassedInv'
<1>1. /\ cfg' = cfg /\ conn' = conn /\ req' = req
      /\ src' = src /\ early_src' = early_src /\ Tls' = Tls
  BY RuleStep, InputsFixed DEF inputs
<1>2. verdict' # "served"
  BY RuleStep
<1> USE <1>1, <1>2 DEF PassedInv, served, Pass, Answer
<1>4. CASE ConnectionRules BY <1>4 DEF ConnectionRules
<1>5. CASE ContentRules BY <1>5 DEF ContentRules
<1>6. CASE FrontingRules BY <1>6 DEF FrontingRules
<1>7. CASE MtlsRules BY <1>7 DEF MtlsRules
<1>8. CASE DenyRules BY <1>8 DEF DenyRules
<1>9. CASE RewriteRules BY <1>9 DEF RewriteRules
<1>10. CASE ClientIpRules BY <1>10 DEF ClientIpRules
<1>11. CASE InternalRules BY <1>11 DEF InternalRules
<1>12. CASE ProtoRules BY <1>12 DEF ProtoRules
<1>13. CASE RedirectRules BY <1>13 DEF RedirectRules
<1> QED BY <1>4, <1>5, <1>6, <1>7, <1>8, <1>9, <1>10, <1>11, <1>12, <1>13 DEF Rule

(* The backend a request is given is declared, and of the client's HTTP    *)
(* version where that is asked for.                                        *)
LEMMA UseBackendStep ==
  ASSUME InputAssumption, IInv, UseBackend
  PROVE  IInv'
<1>1. /\ cfg' = cfg /\ conn' = conn /\ req' = req /\ hdr' = hdr
      /\ at = "backend" /\ at' = "done" /\ verdict' = "served"
  BY DEF UseBackend, inputs
<1>2. /\ src' = src /\ early_src' = early_src /\ Tls' = Tls
      /\ DocumentedXfcc' = DocumentedXfcc /\ DocumentedClientIp' = DocumentedClientIp
      /\ backends' = backends /\ InputsOK' = InputsOK
  BY <1>1, InputsFixed DEF inputs
<1>3. cfg \in Config /\ conn \in Connection
  BY DEF IInv, TypeOK
<1>4. /\ HeadersInv' /\ PassedInv'
  BY <1>1, <1>2 DEF IInv, HeadersInv, PassedInv, served, BeforeMtls, BeforeRewrite, BeforeRoute,
                    sentBy, afterRewrite
<1>5. CASE Routed
  <2>1. PICK i \in DOMAIN cfg.routed_backend_servers :
          backend' = cfg.routed_backend_servers[i].prefix
    BY <1>5 DEF Routed
  <2>2. cfg.routed_backend_servers \in
          Seq([prefix : Prefixes, additional_acls : SUBSET Rules])
    BY <1>3 DEF Config
  <2>3. backend' \in Prefixes
    <3> DEFINE Route == [prefix : Prefixes, additional_acls : SUBSET Rules]
               routes == cfg.routed_backend_servers
    <3>1. routes \in Seq(Route) /\ i \in DOMAIN routes /\ backend' = routes[i].prefix
      BY <2>1, <2>2
    <3> HIDE DEF Route, routes
    <3>2. routes[i] \in Route
      BY <3>1, LenProperties, ElementOfSeq
    <3> QED BY <3>1, <3>2 DEF Route
  <2>4. backend' \notin Routers /\ backend' # "none"
    BY <2>3 DEF InputAssumption, Routers
  <2>5. TypeOK'
    BY <1>1, <2>3, <2>4 DEF IInv, TypeOK, Groups, Verdicts, BackendNames
  <2>6. BackendDeclared'
    BY <1>1, <2>1 DEF BackendDeclared
  <2>7. SameProtocol'
    BY <2>4 DEF SameProtocol, Routers
  <2> QED BY <1>2, <1>4, <2>5, <2>6, <2>7 DEF IInv
<1>6. CASE Unrouted
  <2> DEFINE http1 == "http-routers-http1"
             http2 == "http-routers-http2"
             last == backends[Len(backends)]
             matched == IF conn.http2 THEN http2 ELSE http1
             wanted == IF cfg.disable_backend_http2_websockets /\ is_websocket THEN http1
                       ELSE IF Tls /\ cfg.backend_match_http_protocol /\ Len(backends) = 2
                       THEN matched ELSE last
  <2>1. backend' = wanted
    BY <1>6 DEF Unrouted
  <2>2. /\ backends \in Seq(Routers) /\ Len(backends) \in {1, 2}
        /\ Http1Declared => backends[1] = http1
        /\ Http2Declared => last = http2
        /\ Http1Declared /\ Http2Declared <=> Len(backends) = 2
        /\ DOMAIN backends = 1 .. Len(backends)
    <3>1. /\ backends \in Seq(Routers)
          /\ Len(backends) =
               (IF Http1Declared THEN 1 ELSE 0) + (IF Http2Declared THEN 1 ELSE 0)
          /\ Http1Declared => backends[1] = http1
          /\ Http2Declared => last = http2
          /\ Http1Declared \/ Http2Declared
      BY <1>3, BackendsCases
    <3>2. DOMAIN backends = 1 .. Len(backends)
      BY <3>1, LenProperties
    <3> HIDE DEF last
    <3>3. Len(backends) \in {1, 2} /\ (Http1Declared /\ Http2Declared <=> Len(backends) = 2)
      <4>1. CASE Http1Declared BY <3>1, <4>1
      <4>2. CASE ~Http1Declared BY <3>1, <4>2
      <4> QED BY <4>1, <4>2
    <3> QED BY <3>1, <3>2, <3>3
  <2>3. \E i \in DOMAIN backends : backend' = backends[i]
    <3>1. CASE cfg.disable_backend_http2_websockets /\ is_websocket
      BY <2>1, <2>2, <3>1 DEF Http1Declared
    <3>2. CASE /\ ~(cfg.disable_backend_http2_websockets /\ is_websocket)
               /\ Tls /\ cfg.backend_match_http_protocol /\ Len(backends) = 2
      BY <2>1, <2>2, <3>2
    <3>3. CASE /\ ~(cfg.disable_backend_http2_websockets /\ is_websocket)
               /\ ~(Tls /\ cfg.backend_match_http_protocol /\ Len(backends) = 2)
      BY <2>1, <2>2, <3>3
    <3> QED BY <3>1, <3>2, <3>3
  <2>4. backend' \in Routers
    BY <2>2, <2>3
  <2>5. TypeOK'
    BY <1>1, <2>4 DEF IInv, TypeOK, Groups, Verdicts, BackendNames, Routers
  <2>6. BackendDeclared'
    BY <1>2, <2>3 DEF BackendDeclared
  <2>7. ASSUME Tls, cfg.backend_ssl,
               ~(cfg.disable_backend_http2_websockets /\ is_websocket),
               cfg.backend_match_http_protocol
        PROVE  backend' = http2 <=> conn.http2
    <3>1. Len(backends) = 2 BY <2>2, <2>7 DEF Http1Declared, Http2Declared
    <3>2. conn.http2 \in BOOLEAN BY <1>3 DEF Connection
    <3> QED BY <2>1, <2>7, <3>1, <3>2
  <2>8. is_websocket' = is_websocket
    BY <1>1 DEF is_websocket, found
  <2>9. SameProtocol'
    BY <1>1, <1>2, <2>1, <2>7, <2>8 DEF SameProtocol
  <2> QED BY <1>2, <1>4, <2>5, <2>6, <2>9 DEF IInv
<1> QED BY <1>5, <1>6 DEF UseBackend

LEMMA InitIInv == ASSUME InputAssumption, Init PROVE IInv
<1>1. TypeOK
  <2>1. hdr \in [Headers -> SUBSET Origins]
    BY DEF Init, Origins
  <2>2. cfg \in Config /\ conn \in Connection /\ req \in Request
    BY DEF Init, InputAssumption
  <2> QED BY <2>1, <2>2 DEF Init, TypeOK, Groups, Verdicts, BackendNames
<1>2. InputsOK
  BY DEF Init, InputsOK
<1>3. HeadersInv
  BY DEF Init, HeadersInv, BeforeMtls, BeforeRewrite, BeforeRoute, Headers, sentBy, served
<1>4. PassedInv /\ BackendDeclared /\ SameProtocol
  BY DEF Init, PassedInv, BackendDeclared, SameProtocol, served
<1> QED BY <1>1, <1>2, <1>3, <1>4 DEF IInv

LEMMA RuleIInv == ASSUME InputAssumption, IInv, Rule PROVE IInv'
<1>1. TypeOK /\ InputsOK /\ HeadersInv /\ PassedInv
  BY DEF IInv
<1>2. /\ cfg' = cfg /\ conn' = conn /\ req' = req /\ backend' = backend
      /\ at # "done" /\ at' \in Groups /\ verdict' \in Verdicts \ {"served"}
      /\ at' = "done" <=> verdict' # "none"
  BY <1>1, RuleStep DEF inputs
<1>3. TypeOK'
  BY <1>1, <1>2, HeaderStep DEF TypeOK
<1>4. InputsOK'
  BY <1>1, <1>2, InputsFixed DEF inputs
<1>5. HeadersInv' /\ PassedInv'
  BY <1>1, HeadersKept, PassedKept
<1>6. BackendDeclared' /\ SameProtocol'
  BY <1>2 DEF BackendDeclared, SameProtocol, served
<1> QED BY <1>3, <1>4, <1>5, <1>6 DEF IInv

LEMMA StutterIInv == ASSUME IInv, UNCHANGED vars PROVE IInv'
<1>1. /\ cfg' = cfg /\ conn' = conn /\ req' = req /\ hdr' = hdr
      /\ at' = at /\ verdict' = verdict /\ backend' = backend
  BY DEF vars
<1>2. /\ src' = src /\ early_src' = early_src /\ Tls' = Tls
      /\ DocumentedXfcc' = DocumentedXfcc /\ DocumentedClientIp' = DocumentedClientIp
      /\ backends' = backends /\ InputsOK' = InputsOK
  BY <1>1, InputsFixed DEF inputs
<1>3. TypeOK' /\ InputsOK'
  BY <1>1, <1>2 DEF IInv, TypeOK
<1>4. HeadersInv' /\ PassedInv'
  BY <1>1, <1>2 DEF IInv, HeadersInv, PassedInv, served, sentBy, afterRewrite
<1>5. BackendDeclared' /\ SameProtocol'
  BY <1>1, <1>2 DEF IInv, BackendDeclared, SameProtocol, served,
                    is_websocket, found
<1> QED BY <1>3, <1>4, <1>5 DEF IInv

(* The inductive invariant holds of every request (haproxy.config.erb, the *)
(* rules of the three frontends).                                          *)
THEOREM Invariance == Spec => []IInv
<1>1. Init => IInv
  BY InputAssumption, InitIInv
<1>2. IInv /\ [Next]_vars => IInv'
  <2> SUFFICES ASSUME IInv, [Next]_vars PROVE IInv'
    OBVIOUS
  <2>1. CASE Rule BY <2>1, InputAssumption, RuleIInv
  <2>2. CASE UseBackend BY <2>2, InputAssumption, UseBackendStep
  <2>3. CASE Done BY <2>3, StutterIInv DEF Done
  <2>4. CASE UNCHANGED vars BY <2>4, StutterIInv
  <2> QED BY <2>1, <2>2, <2>3, <2>4 DEF Next, Rule
<1> QED BY <1>1, <1>2, PTL DEF Spec

(* Every group of rules leaves a request in a state the next one expects,  *)
(* and one that is served has a backend.                                   *)
THEOREM TypeCorrect == Spec => []TypeOK
<1>1. IInv => TypeOK BY DEF IInv
<1> QED BY <1>1, Invariance, PTL

(* No manifest, connection or request gets a client certificate header to  *)
(* the backend but as forwarded_client_cert is described                   *)
(* (haproxy.config.erb:131-152, 615-669, 799-854).                         *)
THEOREM CertificateHeaders == Spec => []XfccAsDocumented
<1>1. IInv => XfccAsDocumented BY DEF IInv, HeadersInv, XfccAsDocumented
<1> QED BY <1>1, Invariance, PTL

(* Nor, on https-in, a client address header but as                        *)
(* forward_true_client_ip_header is described                              *)
(* (haproxy.config.erb:691-719).                                           *)
THEOREM ClientAddressHeader == Spec => []ClientIpAsDocumented
<1>1. IInv => ClientIpAsDocumented
  BY DEF IInv, HeadersInv, ClientIpAsDocumented, ClientIpOn
<1> QED BY <1>1, Invariance, PTL

(* Every request served is one that the lists let in, judged by the        *)
(* address of the client (haproxy.config.erb:468-481, 720-727).            *)
THEOREM Lists == Spec => []ListsHold
<1>1. IInv => ListsHold BY DEF IInv, PassedInv, ListsHold
<1> QED BY <1>1, Invariance, PTL

(* The ways past the TCP blocklist are those two, for every manifest:      *)
(* wss-in, and a proxy in expect_proxy_cidrs                               *)
(* (haproxy.config.erb:42-45, 451-452, 583-584, 600, 760-797).             *)
THEOREM BlocklistWaysPast == Spec => []BlocklistGaps
<1>1. IInv => BlocklistGaps
  BY DEF IInv, PassedInv, BlocklistGaps, src, early_src, Proxied
<1> QED BY <1>1, Invariance, PTL

(* So the list keeps its clients out, on every port, of a job that neither *)
(* opens wss-in nor is given expect_proxy_cidrs.  Neither condition can be *)
(* dropped.                                                                *)
THEOREM Blocklist ==
  ASSUME \A s \in Scenarios : s.cfg.expect_proxy_cidrs = {} /\ ~s.cfg.enable_4443
  PROVE  Spec => []BlocklistHolds
<1>1. IInv => BlocklistHolds
  <2> SUFFICES ASSUME IInv PROVE BlocklistHolds
    OBVIOUS
  <2>1. cfg.expect_proxy_cidrs = {} /\ conn.frontend # "wss-in"
    BY DEF IInv, InputsOK, Possible, Listening
  <2>2. BlocklistGaps
    BY DEF IInv, PassedInv, BlocklistGaps, src, early_src, Proxied
  <2> QED BY <2>1, <2>2 DEF BlocklistGaps, BlocklistHolds
<1> QED BY <1>1, Invariance, PTL

(* No request served on a TLS frontend is fronted                          *)
(* (haproxy.config.erb:564-579, 765-780).                                  *)
THEOREM Fronting == Spec => []NoFronting
<1>1. IInv => NoFronting BY DEF IInv, PassedInv, NoFronting
<1> QED BY <1>1, Invariance, PTL

(* No use_backend or default_backend line names a backend that is not      *)
(* declared, for any combination of the properties that declare them       *)
(* (haproxy.config.erb:275-287, 741-756).                                  *)
THEOREM DeclaredBackends == Spec => []BackendDeclared
<1>1. IInv => BackendDeclared BY DEF IInv
<1> QED BY <1>1, Invariance, PTL

(* The TLS frontends keep the client's HTTP version where the manifest     *)
(* asks for it (haproxy.config.erb:741-756, 912-926).                      *)
THEOREM BackendProtocol == Spec => []SameProtocol
<1>1. IInv => SameProtocol BY DEF IInv
<1> QED BY <1>1, Invariance, PTL

-----------------------------------------------------------------------------
(* What becomes of a request, read off the manifest alone: the questions   *)
(* that the rules ask, and the first answer that is not yes.  The rules    *)
(* between two of them change headers, and none of these questions.        *)
Blocked == conn.frontend # "wss-in" /\ early_src \in cfg.cidr_blocklist_tcp
Rejected == src \notin cfg.cidr_whitelist /\ (src \in cfg.cidr_blacklist \/ cfg.block_all)
Hostless == Tls /\ cfg.disable_domain_fronting # "off" /\ req.host = Nobody
Fronted ==
  /\ Tls /\ conn.sni # Nobody /\ req.host # conn.sni
  /\ \/ cfg.disable_domain_fronting = "true"
     \/ cfg.disable_domain_fronting = "mtls_only" /\ conn.cert
Denied == \E c \in cfg.http_request_deny_conditions : Matches(c)
Untrusted == req.host \in cfg.internal_only_domains /\ src \notin cfg.trusted_domain_cidrs
Moved == ~Tls /\ (cfg.https_redirect_all \/ req.host \in cfg.https_redirect_domains)

Outcome ==
  IF Blocked \/ Rejected THEN "closed"
  ELSE IF Hostless THEN "400"
  ELSE IF Fronted THEN "421"
  ELSE IF Denied \/ Untrusted THEN "403"
  ELSE IF Moved THEN "redirected"
  ELSE "served"

(* Every request that is answered gets the answer its outcome says: none   *)
(* is refused that every option lets in, none let in that one refuses, and *)
(* which answer it gets does not depend on the rules in between            *)
(* (haproxy.config.erb:451-481, 564-579, 671-681, 720-739, 765-780).       *)
AnsweredExactly == verdict # "none" => verdict = Outcome

(* A request that is not answered has been let in by all before it.        *)
LetInSoFar ==
  verdict = "none" =>
    /\ at # "connection" => ~Blocked
    /\ at \notin {"connection", "content"} => ~Rejected
    /\ at \notin {"connection", "content", "fronting"} => ~Hostless /\ ~Fronted
    /\ at \in {"rewrite", "clientip", "internal", "proto", "redirect", "backend"} => ~Denied
    /\ at \in {"proto", "redirect", "backend"} => ~Untrusted
    /\ at = "backend" => ~Moved

OutcomeInv == AnsweredExactly /\ LetInSoFar

LEMMA QuestionsFixed ==
  ASSUME UNCHANGED inputs
  PROVE  /\ Blocked' = Blocked /\ Rejected' = Rejected /\ Hostless' = Hostless
         /\ Fronted' = Fronted /\ Denied' = Denied /\ Untrusted' = Untrusted
         /\ Moved' = Moved /\ Outcome' = Outcome
<1>1. /\ cfg' = cfg /\ conn' = conn /\ req' = req
      /\ src' = src /\ early_src' = early_src /\ Tls' = Tls
  BY InputsFixed DEF inputs
<1>2. /\ Blocked' = Blocked /\ Rejected' = Rejected /\ Hostless' = Hostless
      /\ Fronted' = Fronted /\ Denied' = Denied /\ Untrusted' = Untrusted
      /\ Moved' = Moved
  BY <1>1 DEF Blocked, Rejected, Hostless, Fronted, Denied, Untrusted, Moved, Matches
<1> QED BY <1>2 DEF Outcome

(* A rule answers no to its own question only, and passes on otherwise.    *)
LEMMA OutcomeStep ==
  ASSUME InputAssumption, TypeOK, OutcomeInv, Rule \/ UseBackend
  PROVE  OutcomeInv'
<1>1. /\ Blocked' = Blocked /\ Rejected' = Rejected /\ Hostless' = Hostless
      /\ Fronted' = Fronted /\ Denied' = Denied /\ Untrusted' = Untrusted
      /\ Moved' = Moved /\ Outcome' = Outcome
  BY QuestionsFixed, RuleStep DEF UseBackend
<1>2. at # "done" /\ verdict = "none"
  BY RuleStep DEF UseBackend, TypeOK
<1> USE <1>1, <1>2 DEF OutcomeInv, AnsweredExactly, LetInSoFar, Pass, Answer
<1>3. CASE ConnectionRules BY <1>3 DEF ConnectionRules, Blocked, Outcome
<1>4. CASE ContentRules BY <1>4 DEF ContentRules, Rejected, Outcome
<1>5. CASE FrontingRules BY <1>5 DEF FrontingRules, Hostless, Fronted, Outcome
<1>6. CASE MtlsRules BY <1>6 DEF MtlsRules
<1>7. CASE DenyRules BY <1>7 DEF DenyRules, Denied, Outcome
<1>8. CASE RewriteRules BY <1>8 DEF RewriteRules
<1>9. CASE ClientIpRules BY <1>9 DEF ClientIpRules
<1>10. CASE InternalRules BY <1>10 DEF InternalRules, Untrusted, Outcome
<1>11. CASE ProtoRules BY <1>11 DEF ProtoRules
<1>12. CASE RedirectRules BY <1>12 DEF RedirectRules, Moved, Tls, Outcome
<1>13. CASE UseBackend BY <1>13 DEF UseBackend, Outcome
<1> QED BY <1>3, <1>4, <1>5, <1>6, <1>7, <1>8, <1>9, <1>10, <1>11, <1>12, <1>13 DEF Rule

THEOREM OutcomeTheorem == Spec => []AnsweredExactly
<1>1. Init => OutcomeInv
  BY DEF Init, OutcomeInv, AnsweredExactly, LetInSoFar
<1>2. IInv /\ OutcomeInv /\ [Next]_vars => OutcomeInv'
  <2> SUFFICES ASSUME IInv, OutcomeInv, [Next]_vars PROVE OutcomeInv'
    OBVIOUS
  <2>1. CASE Rule \/ UseBackend BY <2>1, InputAssumption, OutcomeStep DEF IInv
  <2>2. CASE Done \/ UNCHANGED vars
    <3>1. UNCHANGED inputs /\ at' = at /\ verdict' = verdict
      BY <2>2 DEF Done, vars, inputs
    <3> QED BY <3>1, QuestionsFixed DEF OutcomeInv, AnsweredExactly, LetInSoFar
  <2> QED BY <2>1, <2>2 DEF Next, Rule
<1>3. OutcomeInv => AnsweredExactly
  BY DEF OutcomeInv
<1> QED BY <1>1, <1>2, <1>3, Invariance, PTL DEF Spec
=============================================================================
