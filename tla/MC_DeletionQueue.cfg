\* Four queued Vulkan objects: enough for several flushes of several
\* deleters each, in every push order.
CONSTANT Resources = {r1, r2, r3, r4}
SPECIFICATION Spec
PROPERTY ImplementsDeferredDestruction
CHECK_DEADLOCK FALSE
