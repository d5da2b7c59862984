INIT Init
NEXT Next
INVARIANT DsaSignAcceptsProviderSignatures
