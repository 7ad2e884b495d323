\* two requests, two hosts, two navigations to be reported
CONSTANTS
    Requests = {r1, r2}
    Hosts = {h1, h2}
    MaxEvents = 2
SPECIFICATION NavSpec
PROPERTIES RemoteNamed ScreenNamed WakeAgrees
SYMMETRY MCSymmetry
VIEW MCView
