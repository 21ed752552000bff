CONSTANTS
    Conns = {c1, c2}
    Logger = logger
    Runner = runner
    Main = main
    Reactor = reactor
    NoTask = NoTask
SPECIFICATION FairSpec
PROPERTY EveryConnectionIsLogged
