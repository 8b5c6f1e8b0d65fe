----------------------------- MODULE Frontends -----------------------------
(***************************************************************************)
(* What the three HTTP frontends of haproxy.config.erb do with a request:  *)
(* http-in (port 80), https-in (443) and wss-in (4443), for every setting  *)
(* of the properties that choose their rules.  HAProxy runs the rules of a *)
(* frontend phase by phase (connection or session, content, http-request,  *)
(* redirect, use_backend) and, within a phase, in the order of the file;   *)
(* each action is one group of rules.  `cfg` holds the properties under    *)
(* their own names, and a list of CIDRs is the set of addresses it covers. *)
(***************************************************************************)
EXTENDS Naturals, Sequences

CONSTANTS
  Addresses,    \* of clients and of the proxies in front of HAProxy
  Rules,        \* what an acl_rule of the operator can test of a request
  Prefixes,     \* of the routed backends
  Scenarios     \* the manifests, connections and requests considered

Hosts == {"app", "internal", "ws"}   \* "ws" stands for one that begins so
Nobody == "nobody"                   \* no Host header, or no SNI
Headers == {"xfcc", "signature", "clientip", "proto", "upgrade"}
Origins == {"client", "proxy", "operator"}

(* `xfcc` stands for X-Forwarded-Client-Cert and the nine X-SSL-Client     *)
(* headers, which every rule treats alike; `signature` is                  *)
(* X-Cf-Proxy-Signature, `clientip` the true_client_ip_header.             *)

Config == [
  disable_http : BOOLEAN, ssl_enabled : BOOLEAN, enable_4443 : BOOLEAN,
  accept_proxy : BOOLEAN, expect_proxy_cidrs : SUBSET Addresses,
  cidr_blocklist_tcp : SUBSET Addresses, cidr_whitelist : SUBSET Addresses,
  cidr_blacklist : SUBSET Addresses, block_all : BOOLEAN,
  internal_only_domains : SUBSET Hosts, trusted_domain_cidrs : SUBSET Addresses,
  mutual_tls_enabled : BOOLEAN,
  forwarded_client_cert :
    {"always_forward_only", "forward_only", "sanitize_set", "forward_only_if_route_service"},
  true_client_ip_header : BOOLEAN,
  forward_true_client_ip_header :
    {"always_forward", "forward_only_if_route_service", "always_set"},
  disable_domain_fronting : {"off", "false", "true", "mtls_only"},
  http_request_deny_conditions : SUBSET ((SUBSET [rule : Rules, negate : BOOLEAN]) \ {{}}),
  strip_headers : SUBSET Headers, headers : SUBSET Headers,
  https_redirect_all : BOOLEAN, https_redirect_domains : SUBSET Hosts,
  routed_backend_servers : Seq([prefix : Prefixes, additional_acls : SUBSET Rules]),
  backend_ssl : BOOLEAN, enable_http2 : BOOLEAN,
  backend_match_http_protocol : BOOLEAN, disable_backend_http2_websockets : BOOLEAN]

(* A connection: who opened it, and the address it speaks for in a PROXY   *)
(* header.  A crt_list entry can offer HTTP/2 whatever enable_http2 says;  *)
(* cleartext HTTP/2 is not considered.                                     *)
Connection == [
  frontend : {"http-in", "https-in", "wss-in"},
  peer : Addresses, client : Addresses,
  cert : BOOLEAN, sni : Hosts \union {Nobody}, http2 : BOOLEAN]

Request == [
  host : Hosts \union {Nobody}, sent : SUBSET Headers,
  rules : SUBSET Rules, prefixes : SUBSET Prefixes]

ASSUME InputAssumption ==
  /\ Prefixes \cap {"none", "http-routers-http1", "http-routers-http2"} = {}
  /\ Scenarios \subseteq [cfg : Config, conn : Connection, req : Request]

VARIABLES
  cfg, conn, req,
  hdr,      \* the headers of the request as the rules have left them
  at,       \* the next group of rules
  verdict,  \* what became of the request
  backend   \* where it went

inputs == <<cfg, conn, req>>
vars == <<cfg, conn, req, hdr, at, verdict, backend>>

Groups == {"connection", "content", "fronting", "mtls", "deny", "rewrite",
           "clientip", "internal", "proto", "redirect", "backend", "done"}
Verdicts == {"none", "closed", "400", "421", "403", "redirected", "served"}
Routers == {"http-routers-http1", "http-routers-http2"}
(* A routed backend is named by (a hash of) its prefix.                    *)
BackendNames == {"none"} \union Routers \union Prefixes

TypeOK ==
  /\ cfg \in Config /\ conn \in Connection /\ req \in Request
  /\ hdr \in [Headers -> SUBSET Origins]
  /\ at \in Groups
  /\ verdict \in Verdicts
  /\ backend \in BackendNames
  /\ at = "done" <=> verdict # "none"
  /\ verdict = "served" <=> backend # "none"
-----------------------------------------------------------------------------
(* The head of the template.                                               *)

(* The combinations it aborts on, of the properties above.                 *)
Renders(c) ==
  /\ ~(c.accept_proxy /\ c.expect_proxy_cidrs # {})
  /\ c.enable_4443 => c.ssl_enabled

Listening(c) ==
  {f \in {"http-in", "https-in", "wss-in"} :
     CASE f = "http-in"  -> ~c.disable_http
       [] f = "https-in" -> c.ssl_enabled
       [] f = "wss-in"   -> c.enable_4443}

(* A client certificate can be used only where one is asked for.           *)
Possible(c, n) ==
  /\ n.frontend \in Listening(c)
  /\ n.cert => c.mutual_tls_enabled
  /\ n.frontend = "http-in" => ~n.cert /\ ~n.http2 /\ n.sni = Nobody

mtls_header_deletion_policy ==
  CASE cfg.forwarded_client_cert = "always_forward_only" -> "never"
    [] cfg.forwarded_client_cert = "forward_only" ->
         IF cfg.mutual_tls_enabled THEN "non_mtls_only" ELSE "always"
    [] cfg.forwarded_client_cert = "sanitize_set" -> "always"
    [] OTHER -> "non_route_service_only"

write_mtls_headers ==
  /\ cfg.forwarded_client_cert \in {"sanitize_set", "forward_only_if_route_service"}
  /\ cfg.mutual_tls_enabled

backendsMatching ==   \* slip: websockets are not thought of
  (IF ~cfg.enable_http2 \/ cfg.backend_match_http_protocol \/ ~cfg.backend_ssl
   THEN <<"http-routers-http1">> ELSE <<>>)
  \o (IF cfg.backend_ssl /\ (cfg.enable_http2 \/ cfg.backend_match_http_protocol)
      THEN <<"http-routers-http2">> ELSE <<>>)

(* The backends that the template declares, in its order.                  *)
backends ==
  (IF \/ cfg.disable_backend_http2_websockets \/ ~cfg.enable_http2
      \/ cfg.backend_match_http_protocol \/ ~cfg.backend_ssl
   THEN <<"http-routers-http1">> ELSE <<>>)
  \o (IF cfg.backend_ssl /\ (cfg.enable_http2 \/ cfg.backend_match_http_protocol)
      THEN <<"http-routers-http2">> ELSE <<>>)
-----------------------------------------------------------------------------
(* What the rules can see.                                                 *)

(* The source address once a PROXY header, if one is expected, is read.    *)
Proxied == cfg.accept_proxy \/ conn.peer \in cfg.expect_proxy_cidrs
src == IF Proxied THEN conn.client ELSE conn.peer

peer_src == conn.peer   \* slip: always in phase `connection`

(* The source address in tcp_request_phase, `session` only with            *)
(* accept_proxy; in `connection` no PROXY header has been read.            *)
early_src == IF cfg.accept_proxy THEN conn.client ELSE conn.peer

Tls == conn.frontend # "http-in"
found(h) == hdr[h] # {}
route_service_request == found("signature")
is_websocket == found("upgrade") \/ req.host = "ws"
Matches(condition) ==
  \A acl \in condition : (acl.rule \in req.rules) # acl.negate

Init ==
  /\ \E s \in Scenarios :
       /\ Renders(s.cfg) /\ Possible(s.cfg, s.conn)
       /\ cfg = s.cfg /\ conn = s.conn /\ req = s.req
  /\ hdr = [h \in Headers |-> IF h \in req.sent THEN {"client"} ELSE {}]
  /\ at = "connection" /\ verdict = "none" /\ backend = "none"

Pass(here, next) ==
  /\ at = here /\ at' = next
  /\ UNCHANGED <<inputs, verdict, backend>>

Answer(here, answer) ==
  /\ at = here /\ at' = "done" /\ verdict' = answer
  /\ UNCHANGED <<inputs, hdr, backend>>

(* del-header, set-header and add-header on a set of headers.              *)
Edit(set, value) == hdr' = [h \in Headers |-> IF h \in set THEN value ELSE hdr[h]]
EditIf(condition, set, value) == IF condition THEN Edit(set, value) ELSE UNCHANGED hdr
-----------------------------------------------------------------------------
(* The rules.                                                              *)

ConnectionRules ==
  LET blocked == conn.frontend # "wss-in" /\ early_src \in cfg.cidr_blocklist_tcp
  IN \/ blocked /\ Answer("connection", "closed")
     \/ ~blocked /\ Pass("connection", "content") /\ UNCHANGED hdr

ContentRulesOfPeer ==   \* slip: before the PROXY header is read
  LET rejected == /\ conn.peer \notin cfg.cidr_whitelist
                  /\ conn.peer \in cfg.cidr_blacklist \/ cfg.block_all
  IN \/ rejected /\ Answer("content", "closed")
     \/ ~rejected /\ Pass("content", "fronting") /\ UNCHANGED hdr

ContentRules ==
  LET rejected == /\ src \notin cfg.cidr_whitelist
                  /\ src \in cfg.cidr_blacklist \/ cfg.block_all
  IN \/ rejected /\ Answer("content", "closed")
     \/ ~rejected /\ Pass("content", "fronting") /\ UNCHANGED hdr

FrontingRulesOfHttps ==   \* slip: wss-in is left out
  LET fronted == /\ conn.frontend = "https-in" /\ conn.sni # Nobody /\ req.host # conn.sni
                 /\ cfg.disable_domain_fronting = "true" \/ conn.cert
  IN \/ fronted /\ Answer("fronting", "421")
     \/ ~fronted /\ Pass("fronting", "mtls") /\ UNCHANGED hdr

(* Any value but the Boolean false asks for a Host header, the string      *)
(* "false" too.                                                            *)
FrontingRules ==
  LET hostless == Tls /\ cfg.disable_domain_fronting # "off" /\ req.host = Nobody
      fronted ==
        /\ Tls /\ conn.sni # Nobody /\ req.host # conn.sni
        /\ \/ cfg.disable_domain_fronting = "true"
           \/ cfg.disable_domain_fronting = "mtls_only" /\ conn.cert
  IN \/ hostless /\ Answer("fronting", "400")
     \/ ~hostless /\ fronted /\ Answer("fronting", "421")
     \/ ~hostless /\ ~fronted /\ Pass("fronting", "mtls") /\ UNCHANGED hdr

MtlsRulesBackwards ==   \* slip: written first, then deleted
  LET deleted == mtls_header_deletion_policy = "non_route_service_only" /\ ~route_service_request
      written == write_mtls_headers /\ conn.cert
  IN /\ Pass("mtls", "deny")
     /\ EditIf(Tls /\ (deleted \/ written), {"xfcc"}, IF deleted THEN {} ELSE {"proxy"})

MtlsRules ==
  LET deleted == CASE mtls_header_deletion_policy = "never" -> FALSE
                   [] mtls_header_deletion_policy = "always" -> TRUE
                   [] mtls_header_deletion_policy = "non_mtls_only" -> ~conn.cert
                   [] OTHER -> ~route_service_request
      written == write_mtls_headers /\ conn.cert
  IN /\ Pass("mtls", "deny")
     /\ EditIf(Tls /\ (deleted \/ written), {"xfcc"}, IF written THEN {"proxy"} ELSE {})

DenyRules ==
  LET denied == \E c \in cfg.http_request_deny_conditions : Matches(c)
  IN \/ denied /\ Answer("deny", "403")
     \/ ~denied /\ Pass("deny", "rewrite") /\ UNCHANGED hdr

(* strip_headers, then headers.                                            *)
RewriteRules ==
  /\ Pass("rewrite", "clientip")
  /\ hdr' = [h \in Headers |->
               (IF h \in cfg.strip_headers THEN {} ELSE hdr[h])
                 \union (IF h \in cfg.headers THEN {"operator"} ELSE {})]

ClientIpRulesEither ==   \* slip: "if" with two negations for "unless"
  LET replaced == conn.frontend = "https-in" /\ ~found("clientip") /\ ~route_service_request
  IN /\ Pass("clientip", "internal")
     /\ EditIf(cfg.true_client_ip_header /\ replaced, {"clientip"}, {"proxy"})

ClientIpRules ==
  LET mode == cfg.forward_true_client_ip_header
      kept == /\ found("clientip")
              /\ \/ mode = "always_forward"
                 \/ mode = "forward_only_if_route_service" /\ route_service_request
      replaced == \/ conn.frontend = "http-in"
                  \/ conn.frontend = "https-in" /\ ~kept
  IN /\ Pass("clientip", "internal")
     /\ EditIf(cfg.true_client_ip_header /\ replaced, {"clientip"}, {"proxy"})

InternalRules ==
  LET denied == req.host \in cfg.internal_only_domains /\ src \notin cfg.trusted_domain_cidrs
  IN \/ denied /\ Answer("internal", "403")
     \/ ~denied /\ Pass("internal", "proto") /\ UNCHANGED hdr

ProtoRules ==
  /\ Pass("proto", "redirect")
  /\ EditIf(~found("proto"), {"proto"}, {"proxy"})

RedirectRules ==
  LET moved == /\ conn.frontend = "http-in"
               /\ cfg.https_redirect_all \/ req.host \in cfg.https_redirect_domains
  IN \/ moved /\ Answer("redirect", "redirected")
     \/ ~moved /\ Pass("redirect", "backend") /\ UNCHANGED hdr

(* use_backend: the first rule that matches, or default_backend.           *)
Routes(i) ==
  LET route == cfg.routed_backend_servers[i]
  IN route.prefix \in req.prefixes /\ route.additional_acls \subseteq req.rules

Routed ==
  \E i \in DOMAIN cfg.routed_backend_servers :
    /\ Routes(i) /\ \A j \in 1 .. i - 1 : ~Routes(j)
    /\ backend' = cfg.routed_backend_servers[i].prefix

UnroutedWithoutDefault ==   \* slip: no default_backend line
  /\ \A i \in DOMAIN cfg.routed_backend_servers : ~Routes(i)
  /\ backend' = IF cfg.disable_backend_http2_websockets /\ is_websocket
                THEN "http-routers-http1" ELSE backend

UnroutedByProtocol ==   \* slip: the protocol is matched before websockets
  /\ \A i \in DOMAIN cfg.routed_backend_servers : ~Routes(i)
  /\ backend' =
       IF Tls /\ cfg.backend_match_http_protocol /\ Len(backends) = 2
       THEN IF conn.http2 THEN "http-routers-http2" ELSE "http-routers-http1"
       ELSE backends[Len(backends)]

Unrouted ==
  /\ \A i \in DOMAIN cfg.routed_backend_servers : ~Routes(i)
  /\ backend' =
       IF cfg.disable_backend_http2_websockets /\ is_websocket THEN "http-routers-http1"
       ELSE IF Tls /\ cfg.backend_match_http_protocol /\ Len(backends) = 2
            THEN IF conn.http2 THEN "http-routers-http2" ELSE "http-routers-http1"
            ELSE backends[Len(backends)]

UseBackend ==
  /\ at = "backend" /\ at' = "done" /\ verdict' = "served"
  /\ Routed \/ Unrouted
  /\ UNCHANGED <<inputs, hdr>>

Done == at = "done" /\ UNCHANGED vars

Next ==
  \/ ConnectionRules \/ ContentRules \/ FrontingRules \/ MtlsRules \/ DenyRules
  \/ RewriteRules \/ ClientIpRules \/ InternalRules \/ ProtoRules \/ RedirectRules
  \/ UseBackend \/ Done

Spec == Init /\ [][Next]_vars
-----------------------------------------------------------------------------
(* Properties.                                                             *)

served == verdict = "served"

(* What a header holds before strip_headers and headers touch it.          *)
sentBy(h) == IF h \in req.sent THEN {"client"} ELSE {}
afterRewrite(h, value) ==
  (IF h \in cfg.strip_headers THEN {} ELSE value)
    \union (IF h \in cfg.headers THEN {"operator"} ELSE {})

(* The client certificate headers reach the backend as the description of  *)
(* forwarded_client_cert says (spec, haproxy.config.erb:131-152, 615-669,  *)
(* 799-854).  http-in has no rule for them and always_forward_only asks    *)
(* for none: there the client's own pass.  Otherwise nobody but a client   *)
(* with a certificate, or a route service, can pass its own, and what      *)
(* HAProxy vouches for is its own only.                                    *)
DocumentedXfcc ==
  LET forwarded == cfg.forwarded_client_cert
      original == sentBy("xfcc")
  IN IF ~Tls \/ forwarded = "always_forward_only" THEN original
     ELSE IF forwarded = "forward_only" THEN (IF conn.cert THEN original ELSE {})
     ELSE IF conn.cert THEN {"proxy"}
     ELSE IF forwarded = "forward_only_if_route_service" /\ "signature" \in req.sent
          THEN original ELSE {}

XfccAsDocumented == served => hdr["xfcc"] = afterRewrite("xfcc", DocumentedXfcc)

(* The client address header reaches the backend as the description of     *)
(* forward_true_client_ip_header says, for the headers as strip_headers    *)
(* and headers leave them (spec; haproxy.config.erb:691-719).              *)
DocumentedClientIp ==
  LET mode == cfg.forward_true_client_ip_header
      present == afterRewrite("clientip", sentBy("clientip"))
      signature == afterRewrite("signature", sentBy("signature"))
  IN IF \/ present = {} \/ mode = "always_set"
        \/ mode = "forward_only_if_route_service" /\ signature = {}
     THEN {"proxy"} ELSE present

ClientIpOn(frontends) ==
  served /\ cfg.true_client_ip_header /\ conn.frontend \in frontends =>
    hdr["clientip"] = DocumentedClientIp

ClientIpAsDocumented == ClientIpOn({"https-in"})

(* No request is served against the lists, judged by the address that the  *)
(* PROXY header gives if one is read, nor one for an internal domain from  *)
(* an address that is not trusted (haproxy.config.erb:468-481, 720-727).   *)
ListsHold ==
  served =>
    /\ src \in cfg.cidr_whitelist \/ (src \notin cfg.cidr_blacklist /\ ~cfg.block_all)
    /\ req.host \in cfg.internal_only_domains => src \in cfg.trusted_domain_cidrs

(* "List of CIDRs to block on TCP level" (spec:599): no client from one of *)
(* them is served, on any port.  Not so, see BlocklistGaps.                *)
BlocklistHolds == served => src \notin cfg.cidr_blocklist_tcp

(* A client that is on that list is served in two ways only: by wss-in,    *)
(* which has no rule for the list (haproxy.config.erb:760-797), or through *)
(* a proxy in expect_proxy_cidrs that is not on the list itself, since     *)
(* tcp_request_phase knows of accept_proxy only and the list is judged     *)
(* before the PROXY header is read (:42-45, 451-452, 583-584, 600).        *)
BlocklistGaps ==
  served /\ src \in cfg.cidr_blocklist_tcp =>
    \/ conn.frontend = "wss-in"
    \/ conn.peer \in cfg.expect_proxy_cidrs \ cfg.cidr_blocklist_tcp

(* Domain fronting is refused as the option says (spec).                   *)
NoFronting ==
  served /\ Tls /\ conn.sni # Nobody =>
    /\ cfg.disable_domain_fronting = "true" => req.host = conn.sni
    /\ cfg.disable_domain_fronting = "mtls_only" /\ conn.cert => req.host = conn.sni

(* Every backend used is declared, or HAProxy would not load the file: the *)
(* conditions of the use_backend lines and of the backends are far apart   *)
(* (haproxy.config.erb:275-287, 747-755).                                  *)
BackendDeclared ==
  served =>
    \/ \E i \in DOMAIN backends : backend = backends[i]
    \/ \E i \in DOMAIN cfg.routed_backend_servers :
          backend = cfg.routed_backend_servers[i].prefix

(* On the TLS frontends, backend_match_http_protocol keeps the client's    *)
(* HTTP version, but for websockets that disable_backend_http2_websockets  *)
(* sends over HTTP/1.1 (spec; haproxy.config.erb:741-756, 912-926).        *)
SameProtocol ==
  served /\ Tls /\ backend \in Routers /\ cfg.backend_ssl =>
    IF cfg.disable_backend_http2_websockets /\ is_websocket
    THEN backend = "http-routers-http1"
    ELSE cfg.backend_match_http_protocol =>
           (backend = "http-routers-http2" <=> conn.http2)
=============================================================================
