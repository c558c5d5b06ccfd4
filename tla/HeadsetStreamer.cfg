SPECIFICATION Spec
INVARIANT NeverStuckConnecting
PROPERTIES ReadyOnlyWhenConnected ClosingLeftOnlyByButton StopCompletes
