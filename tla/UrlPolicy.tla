------------------------------ MODULE UrlPolicy ------------------------------
(***************************************************************************)
(* Where the kiosk may go: internal/policy/url.go.                         *)
(*                                                                         *)
(* The policy is a pure function of a URL, the configuration, the stored   *)
(* links and the resolver.  The last two change while a page is shown, and *)
(* the page is judged again at every poll: the module is a small machine   *)
(* around the function, in which links are edited and names change their   *)
(* addresses.                                                              *)
(*                                                                         *)
(* A host is a name (a sequence of labels) in some spelling: in upper or   *)
(* lower case and with some dots at its end.  An address written out, and  *)
(* "localhost", are names of one label.  Blanks around a text are left out.*)
(***************************************************************************)
EXTENDS Integers, Sequences, SequencesExt

CONSTANTS
    Lan,         \* addresses of the local network (isLANIP)
    Loopback,    \* loopback addresses
    Public,      \* other addresses
    Names,       \* names that are looked up
    Hosts,       \* what may be in allowed_hosts (validated: no dot at the end)
    LinkUrls,    \* what may be in the list of links
    PageUrls,    \* what the page may be at
    Answers,     \* sets of addresses a lookup may find; {} is an error
    DisplayPort, \* the port of the kiosk's own pages
    MaxLinks     \* the most links in the list

Addresses == Lan \cup Loopback \cup Public

AllNames == Names \cup {<<a>> : a \in Addresses \cup {"localhost"}}

\* Hosts and URLs as they can be written.  Port 0: none is written.
\* Scheme "blank" stands for about:blank, "other" for all that is not HTTP.
Host == [name : AllNames, upper : BOOLEAN, dots : 0..2]
Url  == [scheme : {"http", "https", "other", "blank"}, host : Host, port : Nat,
         path : STRING, slash : BOOLEAN]

ASSUME AddressesAssumption ==
    /\ Lan \cap Public = {} /\ Loopback \cap (Lan \cup Public) = {}
    /\ {"127.0.0.1", "::1"} \subseteq Loopback
    /\ Names \cap {<<a>> : a \in Addresses \cup {"localhost"}} = {}
ASSUME InputsAssumption ==
    /\ Hosts \subseteq {h \in Host : h.dots = 0}
    /\ LinkUrls \subseteq Url /\ PageUrls \subseteq Url
    /\ Answers \subseteq SUBSET Addresses
    /\ DisplayPort \in Nat \ {0} /\ MaxLinks \in Nat

VARIABLES
    allowedHosts,        \* config AllowedHosts
    autoAllowLinkHosts,  \* config AutoAllowLinkHosts
    autoAllowSubdomains, \* config AutoAllowSubdomains
    items,               \* the URLs of the links; their positions stand for the labels
    dns,                 \* dns[n]: what net.LookupIP finds for a name
    url                  \* where the page is

configuration == <<allowedHosts, autoAllowLinkHosts, autoAllowSubdomains>>
policyVars == <<configuration, items, dns, url>>

-----------------------------------------------------------------------------
(* The functions of url.go. *)

\* ParseHTTP
Http(u) == u.scheme \in {"http", "https"}

\* normalizeHost: lower case, and one dot less at the end.
Normal(h) == [h EXCEPT !.upper = FALSE, !.dots = IF @ = 0 THEN 0 ELSE @ - 1]

\* net.ParseIP knows an address without a dot at its end only.
IsIP(h, kind) == h.dots = 0 /\ \E a \in kind : h.name = <<a>>

hostInList(h, hosts, subdomains) ==
    LET host == Normal(h) IN
    \E entry \in hosts :
        LET allowed == Normal(entry) IN
        \/ host = allowed
        \/ subdomains /\ host.dots = 0 /\ IsStrictSuffix(allowed.name, host.name)

Literal(a) == [name |-> <<a>>, upper |-> FALSE, dots |-> 0]

lanIPExplicitlyAllowed(a) == hostInList(Literal(a), allowedHosts, FALSE)

isBlockedLANHost(h) == IsIP(Normal(h), Lan) /\ ~lanIPExplicitlyAllowed(h.name[1])

\* (Fault) One address that is allowed is enough.
resolvesToSomeAllowed(h) ==
    LET host == Normal(h) IN
    /\ ~IsIP(host, Addresses)
    /\ \A a \in dns[host.name] : a \in Lan /\ ~lanIPExplicitlyAllowed(a)

\* A name that cannot be looked up is refused with those of the local network.
resolvesToDisallowedLAN(h) ==
    LET host == Normal(h) IN
    /\ ~IsIP(host, Addresses)
    /\ \/ dns[host.name] = {}
       \/ \E a \in dns[host.name] : a \in Lan /\ ~lanIPExplicitlyAllowed(a)

\* The second test is of the host as it was given, not normalized.
isLoopbackHost(h) ==
    \/ Normal(h) \in {Literal("localhost"), Literal("127.0.0.1"), Literal("::1")}
    \/ IsIP(h, Loopback)

urlPort(u) ==
    CASE u.port # 0 -> u.port
      [] u.port = 0 /\ u.scheme = "https" -> 443
      [] OTHER -> 80

IsDisplayUI(u) == Http(u) /\ isLoopbackHost(u.host) /\ urlPort(u) = DisplayPort

hostAllowed(h) == ~isBlockedLANHost(Normal(h)) /\ hostInList(Normal(h), allowedHosts, autoAllowSubdomains)

\* (Fault) The ports are not compared.
linkAnyPort(u, link) ==
    /\ Http(link)
    /\ ~isBlockedLANHost(Normal(link.host)) /\ ~isLoopbackHost(Normal(link.host))
    /\ Normal(u.host) = Normal(link.host)
    /\ u.scheme = link.scheme

linkHostAllowed(u, link) ==
    /\ Http(link)
    /\ ~isBlockedLANHost(Normal(link.host)) /\ ~isLoopbackHost(Normal(link.host))
    /\ Normal(u.host) = Normal(link.host)
    /\ u.scheme = link.scheme /\ urlPort(u) = urlPort(link)

anyLinkAllows(u) == \E i \in DOMAIN items : linkHostAllowed(u, items[i])

NavURLAllowed(u) ==
    LET host == Normal(u.host) IN
    /\ Http(u)
    /\ \/ IsDisplayUI(u)
       \/ /\ ~isLoopbackHost(host)
          /\ ~isBlockedLANHost(host) /\ ~resolvesToDisallowedLAN(host)
          /\ hostAllowed(host) \/ (autoAllowLinkHosts /\ anyLinkAllows(u))

\* (Fault) Port and scheme are not compared.
samePath(u, link) ==
    /\ Http(u) /\ Http(link)
    /\ Normal(u.host) = Normal(link.host)
    /\ u.path = link.path

\* The slashes at the end of the paths do not count.
urlsMatchExact(u, link) ==
    /\ Http(u) /\ Http(link)
    /\ Normal(u.host) = Normal(link.host)
    /\ u.scheme = link.scheme /\ urlPort(u) = urlPort(link)
    /\ u.path = link.path

\* ExactLinkLabel: the first of the links that match, 0 for no label.
ExactLinkLabel(u) == SelectInSeq(items, LAMBDA link : urlsMatchExact(u, link))

PageURLAllowed(u) == u.scheme = "blank" \/ NavURLAllowed(u)

\* cleanLinkItems: one link that is not HTTP, and the whole list is refused.
cleanLinkItems(list) == IF \A i \in DOMAIN list : Http(list[i]) THEN list ELSE items

-----------------------------------------------------------------------------

\* Every variable has its type, and all links are HTTP.
PolicyTypeOK ==
    /\ allowedHosts \subseteq Hosts
    /\ autoAllowLinkHosts \in BOOLEAN /\ autoAllowSubdomains \in BOOLEAN
    /\ items \in Seq({link \in LinkUrls : Http(link)})
    /\ dns \in [Names -> Answers]
    /\ url \in PageUrls

PolicyInit ==
    /\ allowedHosts \in SUBSET Hosts
    /\ autoAllowLinkHosts \in BOOLEAN /\ autoAllowSubdomains \in BOOLEAN
    /\ items = <<>>
    /\ dns \in [Names -> Answers]
    /\ url \in PageUrls

\* PUT /api/links
Edit ==
    /\ \E list \in BoundedSeq(LinkUrls, MaxLinks) : items' = cleanLinkItems(list)
    /\ UNCHANGED <<configuration, dns, url>>

\* A name gets other addresses, or cannot be looked up for a while.
Resolve ==
    /\ \E n \in Names, answer \in Answers : dns' = [dns EXCEPT ![n] = answer]
    /\ UNCHANGED <<configuration, items, url>>

PolicyNext == Edit \/ Resolve

PolicySpec == PolicyInit /\ [][PolicyNext]_policyVars

-----------------------------------------------------------------------------

\* The policy in terms of names alone, whatever their spelling.
Listed(name) == \E entry \in allowedHosts : entry.name = name

AddressesOf(name) == IF name \in Names THEN dns[name] ELSE {a \in Addresses : name = <<a>>}

Reachable(name) ==
    /\ AddressesOf(name) # {}
    /\ \A a \in AddressesOf(name) : a \in Lan => Listed(<<a>>)

ByHosts(name) ==
    \/ Listed(name)
    \/ autoAllowSubdomains /\ \E entry \in allowedHosts : IsStrictSuffix(entry.name, name)

ByLinks(u) ==
    /\ autoAllowLinkHosts
    /\ \E i \in DOMAIN items :
          items[i].host.name = u.host.name /\ items[i].scheme = u.scheme /\ urlPort(items[i]) = urlPort(u)

OnLoopback(u) == u.host.name \in {<<a>> : a \in Loopback \cup {"localhost"}}

MayBeShown(u) ==
    \/ u.scheme = "blank"
    \/ /\ Http(u)
       /\ IF OnLoopback(u)
          THEN urlPort(u) = DisplayPort
          ELSE Reachable(u.host.name) /\ (ByHosts(u.host.name) \/ ByLinks(u))

\* The code, with its normalizations at many places, decides as the policy
\* on names does, for every spelling with one dot at most.  (The exceptions:
\* loopback addresses that isLoopbackHost does not name, with a dot.)
FollowsPolicy ==
    (\A i \in DOMAIN items : items[i].host.dots <= 1) /\ url.host.dots <= 1
    /\ ~(OnLoopback(url) /\ url.host.dots = 1 /\ ~isLoopbackHost(url.host)) =>
        (PageURLAllowed(url) <=> MayBeShown(url))

\* In any spelling: the kiosk stays off the local network except for what
\* allowed_hosts names address by address, for names with several addresses
\* and for links as well.
OffTheLan ==
    Http(url) /\ PageURLAllowed(url) /\ ~IsDisplayUI(url) =>
        \A a \in AddressesOf(url.host.name) \cap Lan : Listed(<<a>>)

\* A page that the audit log names by the label of a link is one that this
\* link opens (where links open their hosts at all).
LabelledOpens ==
    ExactLinkLabel(url) # 0 /\ autoAllowLinkHosts /\ ~OnLoopback(url) =>
        (PageURLAllowed(url) <=> Reachable(url.host.name))
=============================================================================
