---------------------------- MODULE MCFrontends ----------------------------
(* Instances of Frontends: each varies the properties that one question is *)
(* about, and the connections and requests that can make a difference.     *)
EXTENDS Frontends

Plain == [
  disable_http |-> FALSE, ssl_enabled |-> TRUE, enable_4443 |-> TRUE,
  accept_proxy |-> FALSE, expect_proxy_cidrs |-> {},
  cidr_blocklist_tcp |-> {}, cidr_whitelist |-> {}, cidr_blacklist |-> {},
  block_all |-> FALSE, internal_only_domains |-> {}, trusted_domain_cidrs |-> {},
  mutual_tls_enabled |-> TRUE, forwarded_client_cert |-> "sanitize_set",
  true_client_ip_header |-> FALSE,
  forward_true_client_ip_header |-> "forward_only_if_route_service",
  disable_domain_fronting |-> "off", http_request_deny_conditions |-> {},
  strip_headers |-> {}, headers |-> {},
  https_redirect_all |-> FALSE, https_redirect_domains |-> {},
  routed_backend_servers |-> <<>>,
  backend_ssl |-> FALSE, enable_http2 |-> FALSE,
  backend_match_http_protocol |-> FALSE, disable_backend_http2_websockets |-> FALSE]

Direct == {n \in Connection : n.peer = "good" /\ n.client = "good"}
PlainRequest == [host |-> "app", sent |-> {}, rules |-> {}, prefixes |-> {}]

(* Headers: who may speak for the client.                                  *)
HeaderConfigs ==
  {[Plain EXCEPT !.mutual_tls_enabled = m, !.forwarded_client_cert = f,
                 !.true_client_ip_header = TRUE, !.forward_true_client_ip_header = c,
                 !.strip_headers = s, !.headers = h] :
     m \in BOOLEAN,
     f \in {"always_forward_only", "forward_only", "sanitize_set", "forward_only_if_route_service"},
     c \in {"always_forward", "forward_only_if_route_service", "always_set"},
     s \in {{}, {"xfcc"}, {"signature"}, {"clientip"}},
     h \in {{}, {"xfcc", "clientip"}}}
HeaderConnections == {n \in Direct : n.sni = Nobody /\ ~n.http2}
HeaderRequests ==
  {[PlainRequest EXCEPT !.sent = s] : s \in SUBSET {"xfcc", "signature", "clientip", "proto"}}

(* Addresses: who is let in.                                               *)
AccessConfigs ==
  {[Plain EXCEPT !.accept_proxy = p, !.cidr_blocklist_tcp = t, !.cidr_whitelist = w,
                 !.cidr_blacklist = b, !.block_all = a,
                 !.internal_only_domains = {"internal"}, !.trusted_domain_cidrs = d] :
     p \in BOOLEAN, t \in {{}, {"bad"}}, w \in {{}, {"good"}, {"bad"}},
     b \in {{}, {"bad"}}, a \in BOOLEAN, d \in {{}, {"good"}}}
ExpectConfigs ==
  {[Plain EXCEPT !.expect_proxy_cidrs = {"lb"}, !.cidr_blocklist_tcp = t,
                 !.cidr_whitelist = w, !.cidr_blacklist = b, !.block_all = a,
                 !.internal_only_domains = {"internal"}, !.trusted_domain_cidrs = d] :
     t \in {{}, {"bad"}, {"lb"}}, w \in {{}, {"good"}, {"lb"}}, b \in {{}, {"bad"}, {"lb"}},
     a \in BOOLEAN, d \in {{}, {"good"}, {"lb"}}}
AccessConnections == {n \in Connection : n.sni = Nobody /\ ~n.http2 /\ ~n.cert}
BlocklistScenarios ==   \* expect_proxy_cidrs left out
  [cfg : AccessConfigs, conn : AccessConnections, req : {PlainRequest}]
AccessRequests == {[PlainRequest EXCEPT !.host = h] : h \in Hosts}

(* TLS: host against SNI, and the operator's conditions.                   *)
FrontingConfigs ==
  {[Plain EXCEPT !.disable_domain_fronting = o, !.mutual_tls_enabled = m,
                 !.enable_4443 = w, !.http_request_deny_conditions = d] :
     o \in {"off", "false", "true", "mtls_only"}, m \in BOOLEAN, w \in BOOLEAN,
     d \in {{}, {{[rule |-> "r1", negate |-> FALSE]}},
            {{[rule |-> "r1", negate |-> FALSE], [rule |-> "r2", negate |-> TRUE]}}}}
FrontingConnections == {n \in Direct : ~n.http2}
FrontingRequests ==
  {[PlainRequest EXCEPT !.host = h, !.rules = r] :
     h \in Hosts \union {Nobody}, r \in SUBSET {"r1", "r2"}}

(* Backends: where a request goes.  A path that begins with "/a" begins    *)
(* with "/" too.                                                           *)
BackendConfigs ==
  {[Plain EXCEPT !.https_redirect_all = TRUE]} \union
  {[Plain EXCEPT !.backend_ssl = s, !.enable_http2 = e, !.backend_match_http_protocol = m,
                 !.disable_backend_http2_websockets = w, !.routed_backend_servers = r,
                 !.https_redirect_domains = {"internal"}, !.strip_headers = h] :
     s \in BOOLEAN, e \in BOOLEAN, m \in BOOLEAN, w \in BOOLEAN, h \in {{}, {"upgrade"}},
     r \in {<<>>, <<[prefix |-> "/a", additional_acls |-> {"r1"}],
                    [prefix |-> "/", additional_acls |-> {}]>>}}
BackendConnections == {n \in Direct : n.sni = Nobody /\ ~n.cert}
BackendRequests ==
  {[host |-> h, sent |-> s, rules |-> r, prefixes |-> p] :
     h \in Hosts, s \in {{}, {"upgrade"}}, r \in {{}, {"r1"}}, p \in {{}, {"/"}, {"/a", "/"}}}

HeaderScenarios == [cfg : HeaderConfigs, conn : HeaderConnections, req : HeaderRequests]
AccessScenarios ==
  [cfg : AccessConfigs \union ExpectConfigs, conn : AccessConnections, req : AccessRequests]
AllScenarios ==
  HeaderScenarios \union AccessScenarios
    \union [cfg : FrontingConfigs, conn : FrontingConnections, req : FrontingRequests]
    \union [cfg : BackendConfigs, conn : BackendConnections, req : BackendRequests]
=============================================================================
