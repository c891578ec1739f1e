SPECIFICATION LSpec
CONSTANTS
 a=a
 b=b
 t=t
 g=g
 fun=fun
 obj1=obj1
 obj2=obj2
 obj3=obj3
 obj4=obj4
 obj5=obj5
 obj6=obj6
 Nil=Nil
 True=True
 False=False
 LFIELDS_PER_FLUSH=2
 self=self
 arg=arg
 hidden=hidden
 emit=emit
 inext=inext
 Junk=Junk
 LateFailures=FALSE
 OwnNewindex=FALSE
 Header=Header
 Chunkname=Chunkname
 h1=h1
 h2=h2
 stdin=stdin
 stdout=stdout
 Loader=Loader
 t1=t1
 t2=t2
 key=key
 val=val
 Sentinel=Sentinel
 MaxRegs=12
 Addresses<-MCAddresses
 Programs<-MCPrograms
 Loadable<-MCLoadable
 Intended<-MCMeaning
INVARIANTS ResultsAgree FilesCloseOnce ModulesLoadOnce EventsReachTheirHandlers InterpreterStaysInStep ComputesItsMeaning AssertionsHold OpenUpvaluesAreLive
