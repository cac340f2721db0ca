SPECIFICATION System
VIEW View
INVARIANTS BlocksOwnedOnce TxnFits HeapIntact CommandsWired
PROPERTIES  ParsesGrammar
