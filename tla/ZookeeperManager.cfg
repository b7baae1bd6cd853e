\* Two paths and two sessions, so that a path has several channels and a
\* session several watches; a spare channel object for one that was replaced.
CONSTANTS
    Paths = {coin, autoreg}
    SessionIDs = {s1, s2}
    Chans = {c1, c2, c3}
    NoChan = NoChan
    Values = {btc, bch}
    NoNode = NoNode
SPECIFICATION Spec
INVARIANTS TypeOK NoLostUpdate RegisteredIsOpen OneWatchPerPath
PROPERTY StaleIsWoken
