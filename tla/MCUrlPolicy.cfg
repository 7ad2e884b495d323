\* a name and one below it, addresses of every kind, three entries of
\* allowed_hosts, lists of two links, and hosts in three spellings
CONSTANTS
    Lan = {"10.0.0.1"}
    Loopback = {"127.0.0.1", "127.0.0.2", "::1"}
    Public = {"8.8.8.8"}
    Names <- MCNames
    Hosts <- MCHosts
    LinkUrls <- MCLinkUrls
    PageUrls <- MCPageUrls
    Answers <- MCAnswers
    DisplayPort = 8080
    MaxLinks = 2
SPECIFICATION PolicySpec
INVARIANTS FollowsPolicy OffTheLan LabelledOpens
